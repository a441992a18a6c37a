------------------------------ MODULE ColonyProofs -----------------------------
(***************************************************************************)
(* Proofs about how the colony governs itself and how its agents live and  *)
(* die, for any values of the constants.                                   *)
(*   - Governance: its types, that a parameter changes only as approved,   *)
(*     and the sum of the weights.                                         *)
(*   - Colony: the names of founders, the books of dynasties and the       *)
(*     verdicts.                                                           *)
(* The two share no state.                                                 *)
(***************************************************************************)
EXTENDS Governance, Colony, TallyTheorems, FiniteSetTheorems

-------------------------------------------------------------------------------
(* Governance: rows and the pass *)

Keys == {None} \union UNION {{p.key : p \in Proposals[s]} : s \in Sips}
Values == {None} \union UNION {{p.value : p \in Proposals[s]} : s \in Sips}
SipRows == [status : LifecycleStatus, key : Keys, value : Values, tier : 0 .. 3,
            support : Nat, oppose : Nat, approved : BOOLEAN]
GenesisPasses == [phase : {"implement", "review"}, sips : [Sips -> SipRows],
            values : [Parameters -> Int], stage : Stages, read : SUBSET Sips,
            todo : SUBSET Sips]

RowTypes ==
    /\ sip \in [Sips -> SipRows]
    /\ value \in [Parameters -> Int]
    /\ accepted \subseteq Sips
    /\ cycle = NoVote \/ cycle \in [on : Sips, by : Voters, as : {"support", "oppose"}]
    /\ work = NoWork \/ work \in GenesisPasses

Lowest(tier) == IF tier = 2 THEN StructuralAt[1] ELSE PassAt[1]

\* A proposal that was let into the debate may change what it names, one that was
\* tallied has passed its vote by the lowest threshold there is, and one that
\* comes before the owner was ratified.
RowFits(r) ==
    /\ r.status \notin {"none", "rejected_by_vote"} /\ r.key # None =>
           r.key \in Parameters /\ r.tier = Seed[r.key].tier /\ r.tier # 3
    /\ r.status \in {"tallied", "owner_review", "implementing"} =>
           r.support > 0 /\ 100 * r.support >= Lowest(r.tier) * (r.support + r.oppose)
    /\ r.status \in {"owner_review", "implementing"} => r.approved

RowsFit == \A s \in Sips : RowFits(sip[s])

\* What the owner says now it has said.
AnswersFit == \A s \in Sips : owner[s] = "accepted" => s \in accepted

WeightsFit(values) ==
    (\E p \in Weights : values[p] # Seed[p].value) => Total(values) \in 99 .. 101

\* The values the pass will write, and why they differ from those of the registry.
ChangesFit ==
    /\ \A p \in Parameters : work.values[p] \in Bounds(p)
    /\ WeightsFit(work.values)
    /\ \A p \in Parameters : work.values[p] # value[p] =>
          /\ p # None /\ Seed[p].tier # 3
          /\ \E s \in work.read : /\ work.sips[s].status = "implemented"
                                  /\ sip[s].status = "owner_review" /\ s \in accepted
                                  /\ sip[s].key = p /\ sip[s].value = work.values[p]

\* The pass works on copies of the rows it read; nobody else writes those rows
\* while it lasts.
PassFits ==
    work # NoWork =>
        /\ \A s \in Sips : RowFits(work.sips[s])
        /\ \A s \in work.read : /\ sip[s].status # "none"
                                /\ work.sips[s].key = sip[s].key
                                /\ work.sips[s].value = sip[s].value
        /\ \A s \in Sips : work.sips[s].status = "implementing" =>
               /\ work.phase = "implement" /\ s \in work.todo /\ s \in work.read
               /\ sip[s].status = "owner_review" /\ s \in accepted
        /\ \A s \in work.todo : work.sips[s].status =
               IF work.phase = "implement" THEN "implementing" ELSE "tallied"
        /\ ChangesFit

\* The inductive invariant.
GovernanceInv ==
    /\ GovernanceTypes /\ RowTypes /\ RowsFit /\ AnswersFit /\ WeightsAddUp /\ PassFits

-------------------------------------------------------------------------------
(* Governance: sums and thresholds *)

\* The sum of the weights depends on the weights only.
LEMMA TotalAgrees ==
    ASSUME NEW f, NEW g, \A p \in Weights : f[p] = g[p]
    PROVE  Total(f) = Total(g)
<1> DEFINE first(s) == CHOOSE p \in s : TRUE
           Sums(h, it) == it = [s \in SUBSET Weights |->
                                   IF s = {} THEN 0 ELSE h[first(s)] + it[s \ {first(s)}]]
<1>1. ASSUME NEW it PROVE Sums(f, it) <=> Sums(g, it)
    <2>1. \A s \in SUBSET Weights : s # {} => first(s) \in Weights
        OBVIOUS
    <2> HIDE DEF first
    <2>2. \A s \in SUBSET Weights :
              (IF s = {} THEN 0 ELSE f[first(s)] + it[s \ {first(s)}])
                  = (IF s = {} THEN 0 ELSE g[first(s)] + it[s \ {first(s)}])
        BY <2>1
    <2> QED
        BY <2>2
<1>2. Total(f) = (CHOOSE it : Sums(f, it))[Weights]
    BY Zenon DEF Total, FoldSet, MapThenFoldSet
<1>3. Total(g) = (CHOOSE it : Sums(g, it))[Weights]
    BY Zenon DEF Total, FoldSet, MapThenFoldSet
<1>4. (CHOOSE it : Sums(f, it)) = (CHOOSE it : Sums(g, it))
    <2> HIDE DEF Sums
    <2> QED
        BY <1>1, Zenon
<1> QED
    BY <1>2, <1>3, <1>4

\* The weight of the votes of one kind is a number.
LEMMA SumType ==
    ASSUME NEW s \in Sips, NEW as, vote \in [Sips -> [Voters -> Votes]]
    PROVE  Sum(s, as) \in Nat
<1> DEFINE n == Cardinality(Voters)
           f == [v \in Voters |-> IF vote[s][v] = as THEN Weight[v] ELSE 0]
<1>1. n \in Nat /\ Voters = 1 .. n
    BY GovernanceAssumption, FS_CardinalityType
<1>2. \A v \in Voters : (IF vote[s][v] = as THEN Weight[v] ELSE 0) \in Nat
    BY GovernanceAssumption
<1>3. f \in [1 .. n -> Nat]
    <2> HIDE DEF n
    <2> QED
        BY <1>1, <1>2
<1> HIDE DEF f, n
<1>4. Tally(f, n) \in Nat
    BY <1>1, <1>3, TallyAtLeast
<1> QED
    BY <1>4 DEF Sum, f, n

\* What passes the threshold of its stage passes the lowest, with somebody's
\* support.
LEMMA PassesLowest ==
    ASSUME NEW support \in Nat, NEW oppose \in Nat, NEW tier, NEW n \in Stages,
           support + oppose # 0, Passes(support, oppose, tier, n)
    PROVE  support > 0 /\ 100 * support >= Lowest(tier) * (support + oppose)
<1> DEFINE k == support + oppose
           a == Threshold(tier, n)
           b == Lowest(tier)
<1>1. a \in Nat /\ b \in Nat /\ a >= b /\ b >= 1
    <2>1. /\ PassAt \in [Stages -> 1 .. 100] /\ StructuralAt \in [Stages -> 1 .. 100]
          /\ \A m \in Stages : PassAt[m] >= PassAt[1] /\ StructuralAt[m] >= StructuralAt[1]
        BY GovernanceAssumption
    <2>2. 1 \in Stages
        BY DEF Stages
    <2>3. /\ PassAt[n] \in 1 .. 100 /\ PassAt[1] \in 1 .. 100 /\ PassAt[n] >= PassAt[1]
          /\ StructuralAt[n] \in 1 .. 100 /\ StructuralAt[1] \in 1 .. 100
          /\ StructuralAt[n] >= StructuralAt[1]
        BY <2>1, <2>2
    <2> QED
        BY <2>3 DEF Threshold, Lowest
<1>2. 100 * support >= a * k
    BY DEF Passes
<1>3. k \in Nat /\ k >= 1
    OBVIOUS
<1> HIDE DEF a, b, k
<1>4. a * k >= b * k /\ b * k >= 1
    <2>1. PICK d \in Nat : a = b + d
        BY <1>1
    <2>2. a * k = b * k + d * k
        BY <1>1, <1>3, <2>1
    <2>3. PICK e \in Nat, j \in Nat : b = 1 + e /\ k = 1 + j
        BY <1>1, <1>3
    <2>4. b * k = 1 + e + j + e * j
        BY <2>3
    <2>5. d * k \in Nat /\ e * j \in Nat /\ b * k \in Nat
        BY <1>1, <1>3, <2>1, <2>3
    <2> QED
        BY <2>1, <2>2, <2>3, <2>4, <2>5
<1>5. b * k \in Nat /\ a * k \in Nat
    BY <1>1, <1>3
<1> QED
    BY <1>2, <1>4, <1>5 DEF b, k

-------------------------------------------------------------------------------
(* Governance: the agents, the owner and time *)

LEMMA GovernanceStart == GovernanceInit => GovernanceInv
<1> SUFFICES ASSUME GovernanceInit PROVE GovernanceInv
    OBVIOUS
<1>1. 0 \in 0 .. MaxCalls /\ 0 \in 0 .. MaxFailures /\ 1 \in Stages /\ 0 \in 0 .. 3
    BY GovernanceAssumption DEF Stages
<1>2. \A s \in Sips : sip[s] = NoSip /\ owner[s] = None
    BY DEF GovernanceInit
<1>3. sip \in [Sips -> SipRows]
    <2>1. NoSip \in SipRows
        BY <1>1 DEF NoSip, SipRows, LifecycleStatus, Keys, Values
    <2> QED
        BY <2>1 DEF GovernanceInit
<1>4. ASSUME NEW p \in Parameters PROVE Seed[p].value \in Bounds(p) /\ Seed[p].value \in Int
    <2>1. /\ Seed \in [Parameters -> [value : Nat, min : Nat, max : Nat, tier : 1 .. 3,
                                      evaluation : BOOLEAN, weight : BOOLEAN]]
          /\ Seed[p].value \in Seed[p].min .. Seed[p].max
        BY GovernanceAssumption
    <2> QED
        BY <2>1 DEF Bounds
<1>5. /\ value \in [Parameters -> Int]
      /\ \A p \in Parameters : value[p] = Seed[p].value /\ value[p] \in Bounds(p)
    BY <1>4 DEF GovernanceInit
<1>6. GovernanceTypes
    <2>1. \A s \in Sips : sip[s].status \in LifecycleStatus \ {"implementing"}
        BY <1>2 DEF NoSip, LifecycleStatus
    <2>2. vote \in [Sips -> [Voters -> Votes]]
        BY DEF GovernanceInit, Votes
    <2>3. owner \in [Sips -> {None, "accepted", "rejected", "deferred"}]
        BY DEF GovernanceInit
    <2> QED
        BY <1>1, <1>5, <2>1, <2>2, <2>3 DEF GovernanceInit, GovernanceTypes
<1>7. RowTypes
    BY <1>3, <1>5 DEF GovernanceInit, RowTypes
<1>8. RowsFit
    BY <1>2 DEF RowsFit, RowFits, NoSip
<1>9. WeightsAddUp
    BY <1>5 DEF WeightsAddUp, Weights
<1>10. AnswersFit /\ PassFits
    <2>1. None # "accepted"
        BY GovernanceAssumption
    <2> QED
        BY <1>2, <2>1 DEF AnswersFit, PassFits, GovernanceInit
<1> QED
    BY <1>6, <1>7, <1>8, <1>9, <1>10 DEF GovernanceInv

\* A step that leaves the proposals, the registry and the pass alone.
LEMMA QuietGovernance ==
    ASSUME GovernanceInv, UNCHANGED <<sip, owner, value, stage, work, accepted>>,
           due' \subseteq Sips, vote' \in [Sips -> [Voters -> Votes]],
           cycle' = NoVote \/ cycle' \in [on : Sips, by : Voters, as : {"support", "oppose"}],
           calls' \in 0 .. MaxCalls, failures' \in 0 .. MaxFailures
    PROVE  GovernanceInv'
<1>1. GovernanceTypes' /\ RowTypes'
    BY DEF GovernanceInv, GovernanceTypes, RowTypes
<1>2. RowsFit' /\ AnswersFit' /\ WeightsAddUp' /\ PassFits'
    BY DEF GovernanceInv, RowsFit, AnswersFit, WeightsAddUp, PassFits, ChangesFit
<1> QED
    BY <1>1, <1>2 DEF GovernanceInv

LEMMA CallCounts ==
    ASSUME GovernanceInv, Call
    PROVE  calls' \in 0 .. MaxCalls
<1>1. calls \in 0 .. MaxCalls /\ MaxCalls \in Nat
    BY GovernanceAssumption DEF GovernanceInv, GovernanceTypes
<1> QED
    BY <1>1 DEF Call

\* Failures of an API call or of a pass stay within their bound.
LEMMA FailureCounts ==
    ASSUME GovernanceInv, failures < MaxFailures, failures' = failures + 1
    PROVE  failures' \in 0 .. MaxFailures
<1>1. failures \in 0 .. MaxFailures /\ MaxFailures \in Nat
    BY GovernanceAssumption DEF GovernanceInv, GovernanceTypes
<1> QED
    BY <1>1

\* A new proposal is not among those a pass has read.
LEMMA ProposeStep ==
    ASSUME GovernanceInv, NEW s \in Sips, NEW p \in Proposals[s], ProposeSip(s, p)
    PROVE  GovernanceInv'
<1> USE DEF GovernanceInv
<1> DEFINE checked == IF p.value = None THEN 0 ELSE p.value
           opens == p.key = None \/ Valid(p.key, checked, value)
           tier == IF opens /\ p.key # None THEN Seed[p.key].tier ELSE 0
           row == Initiated(p)
<1>1. /\ sip[s].status = "none" /\ sip' = [sip EXCEPT ![s] = row]
      /\ UNCHANGED <<due, vote, owner, value, stage, cycle, work, accepted, failures>>
    BY DEF ProposeSip
<1>2. calls' \in 0 .. MaxCalls
    BY CallCounts DEF ProposeSip
<1>3. opens /\ p.key # None => p.key \in Parameters /\ Seed[p.key].tier \in 1 .. 2
    <2>1. Seed \in [Parameters -> [value : Nat, min : Nat, max : Nat, tier : 1 .. 3,
                                   evaluation : BOOLEAN, weight : BOOLEAN]]
        BY GovernanceAssumption
    <2>2. \A q \in Parameters : Seed[q].tier \in 1 .. 3
        BY <2>1
    <2> QED
        BY <2>2 DEF Valid
<1>4. tier \in 0 .. 3
    <2> HIDE DEF opens
    <2> QED
        BY <1>3
<1>5. /\ row.status = IF opens THEN "debate" ELSE "rejected_by_vote"
      /\ row.key = p.key /\ row.value = p.value /\ row.tier = tier
      /\ row.support = 0 /\ row.oppose = 0 /\ row.approved = FALSE
      /\ row = [status |-> row.status, key |-> p.key, value |-> p.value, tier |-> tier,
                support |-> 0, oppose |-> 0, approved |-> FALSE]
    <2> DEFINE st == IF opens THEN "debate" ELSE "rejected_by_vote"
    <2>1. row = [NoSip EXCEPT !.status = st, !.key = p.key, !.value = p.value, !.tier = tier]
        BY DEF Initiated
    <2> HIDE DEF st, tier, row
    <2>2. row = [status |-> st, key |-> p.key, value |-> p.value, tier |-> tier,
                 support |-> 0, oppose |-> 0, approved |-> FALSE]
        BY <2>1 DEF NoSip
    <2> QED
        BY <2>2 DEF st
<1>6. p.key \in Keys /\ p.value \in Values
    BY DEF Keys, Values
<1> HIDE DEF checked, opens
<1>7. RowFits(row)
    <2>1. row.status \notin {"none", "rejected_by_vote"} /\ row.key # None =>
              row.key \in Parameters /\ row.tier = Seed[row.key].tier /\ row.tier # 3
        BY <1>3, <1>5
    <2> QED
        BY <1>5, <2>1 DEF RowFits
<1> HIDE DEF tier, row
<1>8. row \in SipRows /\ row.status \in LifecycleStatus \ {"implementing"}
    <2>1. PICK st \in {"debate", "rejected_by_vote"} :
              row = [status |-> st, key |-> p.key, value |-> p.value, tier |-> tier,
                     support |-> 0, oppose |-> 0, approved |-> FALSE]
        BY <1>5
    <2>2. row.status = st /\ st \in LifecycleStatus \ {"implementing"}
        BY <2>1 DEF LifecycleStatus
    <2> QED
        BY <1>4, <1>6, <2>1, <2>2 DEF SipRows
<1>9. /\ sip' \in [Sips -> SipRows] /\ sip'[s] = row
      /\ \A t \in Sips : t # s => sip'[t] = sip[t]
    BY <1>1, <1>8 DEF RowTypes
<1>10. GovernanceTypes' /\ RowTypes'
    BY <1>1, <1>2, <1>8, <1>9 DEF GovernanceTypes, RowTypes
<1>11. RowsFit' /\ AnswersFit' /\ WeightsAddUp'
    BY <1>1, <1>7, <1>9 DEF RowsFit, AnswersFit, WeightsAddUp
<1>12. PassFits'
    <2> SUFFICES ASSUME work # NoWork PROVE PassFits'
        BY <1>1 DEF PassFits
    <2>1. s \notin work.read /\ work.read \subseteq Sips
        BY <1>1 DEF PassFits, RowTypes, GenesisPasses
    <2>2. \A t \in work.read : sip'[t] = sip[t]
        BY <1>9, <2>1
    <2>3. \A t \in Sips : work.sips[t].status = "implementing" => t \in work.read
        BY DEF PassFits
    <2>4. ChangesFit'
        BY <1>1, <2>2 DEF PassFits, ChangesFit
    <2> QED
        BY <1>1, <2>2, <2>3, <2>4 DEF PassFits
<1> QED
    BY <1>10, <1>11, <1>12

LEMMA VotesStep ==
    ASSUME GovernanceInv,
           \/ \E s \in Sips, v \in Voters, as \in {"support", "oppose"} : VoteOnSip(s, v, as)
           \/ CommitVote
           \/ \E s \in Sips : Elapse(s)
    PROVE  GovernanceInv'
<1> USE DEF GovernanceInv
<1>1. ASSUME NEW s \in Sips, NEW v \in Voters, NEW as \in {"support", "oppose"}, VoteOnSip(s, v, as)
      PROVE  GovernanceInv'
    <2>1. /\ UNCHANGED <<sip, due, vote, owner, value, stage, work, accepted, failures>>
          /\ cycle' \in [on : Sips, by : Voters, as : {"support", "oppose"}]
        BY <1>1 DEF VoteOnSip
    <2>2. calls' \in 0 .. MaxCalls
        BY <1>1, CallCounts DEF VoteOnSip
    <2> QED
        BY <2>1, <2>2, QuietGovernance DEF GovernanceTypes
<1>2. CASE CommitVote
    <2>1. /\ cycle \in [on : Sips, by : Voters, as : {"support", "oppose"}]
          /\ vote' = [vote EXCEPT ![cycle.on][cycle.by] = cycle.as]
          /\ UNCHANGED <<sip, due, owner, value, stage, work, accepted, calls, failures>>
          /\ cycle' = NoVote
        BY <1>2 DEF CommitVote, RowTypes
    <2>2. vote' \in [Sips -> [Voters -> Votes]]
        BY <2>1 DEF GovernanceTypes, Votes
    <2> QED
        BY <2>1, <2>2, QuietGovernance DEF GovernanceTypes
<1>3. ASSUME NEW s \in Sips, Elapse(s) PROVE GovernanceInv'
    <2>1. /\ due' = due \union {s}
          /\ UNCHANGED <<sip, vote, owner, value, stage, cycle, work, accepted, calls, failures>>
        BY <1>3 DEF Elapse
    <2>2. due' \subseteq Sips
        BY <2>1 DEF GovernanceTypes
    <2> QED
        BY <2>1, <2>2, QuietGovernance DEF GovernanceTypes, RowTypes
<1> QED
    BY <1>1, <1>2, <1>3

\* The owner's answers only add to what it has accepted once.
LEMMA OwnerStep ==
    ASSUME GovernanceInv, NEW s \in Sips, NEW d \in {"accepted", "rejected", "deferred"},
           OwnerDecides(s, d)
    PROVE  GovernanceInv'
<1> USE DEF GovernanceInv
<1>1. /\ owner' = [owner EXCEPT ![s] = d]
      /\ accepted' = IF d = "accepted" THEN accepted \union {s} ELSE accepted
      /\ UNCHANGED <<sip, due, vote, value, stage, cycle, work, calls, failures>>
    BY DEF OwnerDecides
<1>2. accepted \subseteq accepted' /\ accepted' \subseteq Sips
    BY <1>1 DEF RowTypes
<1>3. GovernanceTypes' /\ RowTypes'
    BY <1>1, <1>2 DEF GovernanceTypes, RowTypes
<1>4. RowsFit' /\ WeightsAddUp'
    BY <1>1 DEF RowsFit, WeightsAddUp
<1>5. AnswersFit'
    BY <1>1, <1>2 DEF AnswersFit, GovernanceTypes
<1>6. PassFits'
    <2>1. work # NoWork => ChangesFit'
        BY <1>1, <1>2 DEF PassFits, ChangesFit
    <2> QED
        BY <1>1, <1>2, <2>1 DEF PassFits
<1> QED
    BY <1>3, <1>4, <1>5, <1>6

-------------------------------------------------------------------------------
(* Governance: the pass of Genesis *)

\* Setting the status of a proposal keeps the rest of its row.
LEMMA StatusOnly ==
    ASSUME NEW old \in SipRows, NEW st \in LifecycleStatus
    PROVE  LET r == [old EXCEPT !.status = st] IN
           /\ r \in SipRows /\ r.status = st /\ r.key = old.key /\ r.value = old.value
           /\ r.tier = old.tier /\ r.support = old.support /\ r.oppose = old.oppose
           /\ r.approved = old.approved
BY DEF SipRows

\* What the pass makes of a proposal before it implements and ratifies.
LEMMA AdvancedFits ==
    ASSUME GovernanceInv, NEW s \in Sips, NEW n \in Stages
    PROVE  LET r == Advanced(s, n) IN
           /\ r \in SipRows /\ RowFits(r)
           /\ r.key = sip[s].key /\ r.value = sip[s].value
           /\ sip[s].status = "none" => r.status = "none"
           /\ r.status = "implementing" => sip[s].status = "owner_review" /\ s \in accepted
<1> USE DEF GovernanceInv
<1> DEFINE r == Advanced(s, n)
           old == sip[s]
           support == Sum(s, "support")
           oppose == Sum(s, "oppose")
<1>1. old \in SipRows /\ RowFits(old) /\ old.status # "implementing"
    BY DEF RowTypes, RowsFit, GovernanceTypes
<1>2. support \in Nat /\ oppose \in Nat
    BY SumType DEF GovernanceTypes
<1>3. CASE old.status = "debate" /\ s \in due
    <2>1. r = [old EXCEPT !.status = "voting"]
        BY <1>3 DEF Advanced
    <2> HIDE DEF r, old
    <2>2. /\ r \in SipRows /\ r.status = "voting" /\ r.key = old.key /\ r.value = old.value
          /\ r.tier = old.tier
        BY <1>1, <2>1, StatusOnly DEF LifecycleStatus
    <2>3. RowFits(r)
        BY <1>1, <1>3, <2>2 DEF RowFits
    <2> QED
        BY <1>3, <2>2, <2>3 DEF r, old
<1>4. CASE old.status = "voting" /\ s \in due
    <2> DEFINE st == IF support + oppose = 0 THEN "expired"
                     ELSE IF Passes(support, oppose, old.tier, n) THEN "tallied"
                     ELSE "rejected_by_vote"
    <2>1. r = [old EXCEPT !.support = support, !.oppose = oppose, !.status = st]
        BY <1>4 DEF Advanced, TallyVotes
    <2>2. st \in {"expired", "tallied", "rejected_by_vote"}
        OBVIOUS
    <2>3. st = "tallied" => support + oppose # 0 /\ Passes(support, oppose, old.tier, n)
        OBVIOUS
    <2>4. st = "tallied" => support > 0 /\ 100 * support >= Lowest(old.tier) * (support + oppose)
        <3> HIDE DEF support, oppose, st, old
        <3> QED
            BY <1>2, <2>3, PassesLowest
    <2> HIDE DEF r, old, support, oppose, st
    <2>5. /\ r \in SipRows /\ r.status = st /\ r.support = support /\ r.oppose = oppose
          /\ r.key = old.key /\ r.value = old.value /\ r.tier = old.tier
        BY <1>1, <1>2, <2>1, <2>2 DEF SipRows, LifecycleStatus
    <2>6. RowFits(r)
        <3>1. old.key # None => old.key \in Parameters /\ old.tier = Seed[old.key].tier /\ old.tier # 3
            BY <1>1, <1>4 DEF RowFits
        <3>2. \/ 100 * r.support >= Lowest(r.tier) * (r.support + r.oppose) /\ r.support > 0
              \/ r.status # "tallied"
            BY <2>4, <2>5
        <3> QED
            BY <2>2, <2>5, <3>1, <3>2 DEF RowFits
    <2> QED
        BY <1>4, <2>2, <2>5, <2>6 DEF r, old
<1>5. CASE old.status = "owner_review"
    <2>1. CASE owner[s] = "accepted"
        <3>1. r = [old EXCEPT !.status = "implementing"] /\ s \in accepted
            BY <1>5, <2>1 DEF Advanced, OwnerDecision, AnswersFit
        <3> HIDE DEF r, old
        <3>2. /\ r \in SipRows /\ r.status = "implementing" /\ r.key = old.key /\ r.value = old.value
              /\ r.tier = old.tier /\ r.support = old.support /\ r.oppose = old.oppose
              /\ r.approved = old.approved
            BY <1>1, <3>1, StatusOnly DEF LifecycleStatus
        <3>3. RowFits(r)
            BY <1>1, <1>5, <3>2 DEF RowFits
        <3> QED
            BY <1>5, <3>1, <3>2, <3>3 DEF r, old
    <2>2. CASE owner[s] = "rejected"
        <3>1. r = [old EXCEPT !.status = "rejected_by_owner"]
            BY <1>5, <2>2 DEF Advanced, OwnerDecision
        <3> HIDE DEF r, old
        <3>2. /\ r \in SipRows /\ r.status = "rejected_by_owner" /\ r.key = old.key /\ r.value = old.value
              /\ r.tier = old.tier /\ r.support = old.support /\ r.oppose = old.oppose
              /\ r.approved = old.approved
            BY <1>1, <3>1, StatusOnly DEF LifecycleStatus
        <3>3. RowFits(r)
            BY <1>1, <1>5, <3>2 DEF RowFits
        <3> QED
            BY <1>5, <3>1, <3>2, <3>3 DEF r, old
    <2>3. CASE owner[s] \notin {"accepted", "rejected"}
        <3>1. r = old
            BY <1>5, <2>3 DEF Advanced, OwnerDecision
        <3> QED
            BY <1>1, <1>5, <3>1
    <2> QED
        BY <2>1, <2>2, <2>3
<1>6. CASE /\ ~(old.status = "debate" /\ s \in due) /\ ~(old.status = "voting" /\ s \in due)
           /\ old.status # "owner_review"
    <2>1. r = old
        BY <1>6 DEF Advanced
    <2> QED
        BY <1>1, <2>1
<1> QED
    BY <1>3, <1>4, <1>5, <1>6

LEMMA BeginPassStep == ASSUME GovernanceInv, BeginPass PROVE GovernanceInv'
<1> USE DEF GovernanceInv
<1>1. PICK n \in Reachable :
          LET sips == [s \in Sips |-> Advanced(s, n)]
          IN  work' = [phase |-> "implement", sips |-> sips, values |-> value, stage |-> n,
                       read |-> {s \in Sips : sip[s].status # "none"},
                       todo |-> {s \in Sips : sips[s].status = "implementing"}]
    BY DEF BeginPass
<1>2. UNCHANGED <<sip, due, vote, owner, value, stage, cycle, accepted, calls, failures>>
    BY DEF BeginPass
<1>3. n \in Stages
    BY <1>1 DEF Reachable, GovernanceTypes, Stages
<1> DEFINE sips == [s \in Sips |-> Advanced(s, n)]
           read == {s \in Sips : sip[s].status # "none"}
           todo == {s \in Sips : sips[s].status = "implementing"}
<1>4. /\ sips \in [Sips -> SipRows]
      /\ \A s \in Sips : /\ RowFits(sips[s])
                         /\ sips[s].key = sip[s].key /\ sips[s].value = sip[s].value
                         /\ sip[s].status = "none" => sips[s].status = "none"
                         /\ sips[s].status = "implementing" =>
                                sip[s].status = "owner_review" /\ s \in accepted
    BY <1>3, AdvancedFits
<1>5. work' = [phase |-> "implement", sips |-> sips, values |-> value, stage |-> n,
               read |-> read, todo |-> todo]
    BY <1>1
<1>6. /\ read \subseteq Sips /\ todo \subseteq Sips
      /\ \A s \in Sips : s \in todo <=> sips[s].status = "implementing"
      /\ \A s \in Sips : s \in read <=> sip[s].status # "none"
    OBVIOUS
<1> HIDE DEF sips, read, todo
<1>7. work' \in GenesisPasses
    BY <1>3, <1>4, <1>5, <1>6 DEF GenesisPasses, RowTypes
<1>8. GovernanceTypes' /\ RowTypes'
    BY <1>2, <1>7 DEF GovernanceTypes, RowTypes
<1>9. RowsFit' /\ AnswersFit' /\ WeightsAddUp'
    BY <1>2 DEF RowsFit, AnswersFit, WeightsAddUp
<1>10. ChangesFit'
    <2>1. work'.values = value /\ value' = value
        BY <1>2, <1>5
    <2>2. \A p \in Parameters : value[p] \in Bounds(p)
        BY DEF GovernanceTypes
    <2>3. WeightsFit(value)
        BY DEF WeightsFit, WeightsAddUp
    <2> QED
        BY <2>1, <2>2, <2>3 DEF ChangesFit
<1>11. PassFits'
    <2>1. /\ work'.sips = sips /\ work'.read = read /\ work'.todo = todo
          /\ work'.phase = "implement" /\ sip' = sip /\ accepted' = accepted
        BY <1>2, <1>5
    <2> QED
        BY <1>4, <1>6, <1>10, <2>1 DEF PassFits
<1> QED
    BY <1>8, <1>9, <1>11

\* A pass that is given up, or one that leaves a proposal tallied.
LEMMA GiveUpStep ==
    ASSUME GovernanceInv,
           \/ \E s \in Sips : ImplementFails(s) \/ ReviewFails(s)
           \/ AbandonPass
    PROVE  GovernanceInv'
<1> USE DEF GovernanceInv
<1>1. UNCHANGED <<sip, due, vote, owner, value, stage, cycle, accepted, calls>>
    BY DEF ImplementFails, ReviewFails, AbandonPass
<1>2. failures' \in 0 .. MaxFailures
    <2>1. failures' = failures \/ (failures < MaxFailures /\ failures' = failures + 1)
        BY DEF ImplementFails, ReviewFails, AbandonPass
    <2> QED
        BY <2>1, FailureCounts DEF GovernanceTypes
<1>3. work' = NoWork \/ (work # NoWork /\ work'.todo \subseteq work.todo /\
                         work' = [work EXCEPT !.todo = work'.todo] /\ work'.phase = "review")
    <2>1. CASE work' = NoWork
        BY <2>1
    <2>2. CASE work' # NoWork
        <3>1. PICK s \in Sips : ReviewFails(s)
            BY <2>2 DEF ImplementFails, AbandonPass
        <3>2. work # NoWork /\ work.phase = "review" /\ work' = [work EXCEPT !.todo = @ \ {s}]
            BY <3>1 DEF ReviewFails, NoWork
        <3> DEFINE todo == work.todo \ {s}
        <3>3. work \in GenesisPasses /\ work' = [work EXCEPT !.todo = todo] /\ todo \subseteq work.todo
            BY <3>2 DEF RowTypes
        <3> HIDE DEF todo
        <3>4. work'.todo = todo /\ work'.phase = "review"
            BY <3>2, <3>3 DEF GenesisPasses
        <3> QED
            BY <3>2, <3>3, <3>4
    <2> QED
        BY <2>1, <2>2
<1>4. GovernanceTypes'
    BY <1>1, <1>2 DEF GovernanceTypes
<1>5. RowsFit' /\ AnswersFit' /\ WeightsAddUp'
    BY <1>1 DEF RowsFit, AnswersFit, WeightsAddUp
<1>6. RowTypes' /\ PassFits'
    <2>1. CASE work' = NoWork
        BY <1>1, <2>1 DEF RowTypes, PassFits
    <2>2. CASE work' # NoWork
        <3>1. /\ work \in GenesisPasses /\ work' = [work EXCEPT !.todo = work'.todo]
              /\ work # NoWork /\ work'.todo \subseteq work.todo /\ work'.phase = "review"
            BY <1>3, <2>2 DEF RowTypes
        <3> DEFINE todo == work'.todo
        <3>2. work' = [work EXCEPT !.todo = todo] /\ todo \subseteq work.todo
            BY <3>1
        <3> HIDE DEF todo
        <3>3. /\ work' \in GenesisPasses /\ work'.todo = todo
              /\ work'.phase = work.phase /\ work'.sips = work.sips /\ work'.values = work.values
              /\ work'.read = work.read /\ work'.stage = work.stage
            BY <3>1, <3>2 DEF GenesisPasses
        <3>4. RowTypes'
            BY <1>1, <3>3 DEF RowTypes
        <3>5. ChangesFit'
            BY <1>1, <3>1, <3>3 DEF PassFits, ChangesFit
        <3>6. \A s \in Sips : work.sips[s].status # "implementing"
            BY <3>1, <3>3 DEF PassFits
        <3> QED
            BY <1>1, <3>1, <3>2, <3>3, <3>4, <3>5, <3>6 DEF PassFits
    <2> QED
        BY <2>1, <2>2
<1> QED
    BY <1>4, <1>5, <1>6

\* A value that the registry still takes replaces one of the pass: the weights
\* are checked with it, and what is not a weight does not move their sum.
LEMMA ImplementStep ==
    ASSUME GovernanceInv, NEW s \in Sips, ImplementSip(s)
    PROVE  GovernanceInv'
<1> USE DEF GovernanceInv
<1> DEFINE p == work.sips[s]
           applies == /\ Valid(p.key, p.value, work.values)
                      /\ WeightsHold(p.key, p.value, work.values)
           todo == work.todo \ {s}
           st == IF p.key = None \/ applies THEN "implemented" ELSE "expired"
           row == [p EXCEPT !.status = st]
           sips == [work.sips EXCEPT ![s] = row]
           values == IF p.key # None /\ applies THEN [work.values EXCEPT ![p.key] = p.value]
                     ELSE work.values
<1>1. /\ work.phase = "implement" /\ s \in work.todo
      /\ work' = [work EXCEPT !.todo = @ \ {s},
                 !.sips[s].status = IF p.key = None \/ applies THEN "implemented" ELSE "expired",
                 !.values = IF p.key # None /\ applies THEN [@ EXCEPT ![p.key] = p.value] ELSE @]
      /\ UNCHANGED <<sip, due, vote, owner, value, stage, cycle, accepted, calls, failures>>
    BY DEF ImplementSip
<1>2. work # NoWork /\ work \in GenesisPasses
    BY <1>1 DEF NoWork, RowTypes
<1>3. work' = [work EXCEPT !.todo = todo, !.sips = sips, !.values = values]
    BY <1>1, <1>2 DEF GenesisPasses
<1>4. /\ p \in SipRows /\ RowFits(p) /\ p.status = "implementing"
      /\ sip[s].status = "owner_review" /\ s \in accepted /\ s \in work.read
      /\ p.key = sip[s].key /\ p.value = sip[s].value
    BY <1>1, <1>2 DEF PassFits, GenesisPasses
<1>5. /\ row \in SipRows /\ row.status = st /\ row.key = p.key /\ row.value = p.value
      /\ row.tier = p.tier
    <2>1. st \in LifecycleStatus
        BY DEF LifecycleStatus
    <2> HIDE DEF p, st
    <2> QED
        BY <1>4, <2>1, StatusOnly
<1>6. RowFits(row)
    <2> HIDE DEF p, row, applies
    <2> QED
        BY <1>4, <1>5 DEF RowFits
<1>7. ASSUME p.key # None, applies
      PROVE  /\ p.key \in Parameters /\ Seed[p.key].tier # 3 /\ p.value \in Bounds(p.key)
             /\ p.value \in Int /\ st = "implemented"
             /\ values = [work.values EXCEPT ![p.key] = p.value]
    <2>1. p.key \in Parameters /\ Seed[p.key].tier # 3 /\ p.value \in Bounds(p.key)
        BY <1>7 DEF Valid
    <2>2. Seed \in [Parameters -> [value : Nat, min : Nat, max : Nat, tier : 1 .. 3,
                                   evaluation : BOOLEAN, weight : BOOLEAN]]
        BY GovernanceAssumption
    <2>3. p.value \in Int
        BY <2>1, <2>2 DEF Bounds
    <2> QED
        BY <1>7, <2>1, <2>3
<1>8. WeightsFit(values)
    <2>1. WeightsFit(work.values)
        BY <1>2 DEF PassFits, ChangesFit
    <2>2. CASE ~(p.key # None /\ applies)
        BY <2>1, <2>2
    <2>3. CASE p.key # None /\ applies
        <3> DEFINE k == p.key
        <3>1. /\ k \in Parameters /\ values = [work.values EXCEPT ![k] = p.value]
              /\ Seed[k].evaluation => Total(values) \in 99 .. 101
            BY <1>7, <2>3 DEF WeightsHold
        <3>2. CASE Seed[k].evaluation
            BY <3>1, <3>2 DEF WeightsFit
        <3>3. CASE ~Seed[k].evaluation
            <4>1. k \notin Weights
                BY <3>1, <3>3, GovernanceAssumption DEF Weights
            <4>2. work.values \in [Parameters -> Int]
                BY <1>2 DEF GenesisPasses
            <4>3. \A q \in Weights : values[q] = work.values[q]
                BY <3>1, <4>1, <4>2 DEF Weights
            <4> HIDE DEF values
            <4>4. Total(values) = Total(work.values)
                BY <4>3, TotalAgrees
            <4> QED
                BY <2>1, <4>3, <4>4 DEF WeightsFit
        <3> QED
            BY <3>2, <3>3
    <2> QED
        BY <2>2, <2>3
<1>9. /\ values \in [Parameters -> Int]
      /\ \A q \in Parameters : values[q] \in Bounds(q)
      /\ \A q \in Parameters : values[q] # work.values[q] =>
             /\ q = p.key /\ q # None /\ values[q] = p.value /\ st = "implemented"
             /\ Seed[q].tier # 3
    <2>1. work.values \in [Parameters -> Int] /\ \A q \in Parameters : work.values[q] \in Bounds(q)
        BY <1>2 DEF GenesisPasses, PassFits, ChangesFit
    <2>2. CASE ~(p.key # None /\ applies)
        BY <2>1, <2>2
    <2>3. CASE p.key # None /\ applies
        <3> HIDE DEF p, applies, st, values
        <3>1. /\ p.key \in Parameters /\ Seed[p.key].tier # 3 /\ p.value \in Bounds(p.key)
              /\ p.key # None /\ p.value \in Int /\ st = "implemented"
              /\ values = [work.values EXCEPT ![p.key] = p.value]
            BY <1>7, <2>3
        <3> QED
            BY <2>1, <3>1
    <2> QED
        BY <2>2, <2>3
<1>10. /\ sips \in [Sips -> SipRows] /\ sips[s] = row
       /\ \A t \in Sips : t # s => sips[t] = work.sips[t]
    <2> HIDE DEF row
    <2> QED
        BY <1>2, <1>5 DEF GenesisPasses
<1>11. todo \subseteq Sips /\ s \notin todo /\ todo \subseteq work.todo /\ st \in {"implemented", "expired"}
       /\ \A t \in work.todo : t = s \/ t \in todo
    BY <1>2 DEF GenesisPasses
<1> HIDE DEF p, applies, todo, st, row, sips, values
<1>13. /\ work' \in GenesisPasses /\ work'.todo = todo /\ work'.sips = sips /\ work'.values = values
       /\ work'.phase = work.phase /\ work'.read = work.read
    BY <1>2, <1>3, <1>9, <1>10, <1>11 DEF GenesisPasses
<1>14. GovernanceTypes' /\ RowTypes'
    BY <1>1, <1>13 DEF GovernanceTypes, RowTypes
<1>15. RowsFit' /\ AnswersFit' /\ WeightsAddUp'
    BY <1>1 DEF RowsFit, AnswersFit, WeightsAddUp
<1>16. ChangesFit'
    <2>1. ASSUME NEW q \in Parameters, values[q] # value[q]
          PROVE  /\ q # None /\ Seed[q].tier # 3
                 /\ \E t \in work.read : /\ sips[t].status = "implemented"
                                         /\ sip[t].status = "owner_review" /\ t \in accepted
                                         /\ sip[t].key = q /\ sip[t].value = values[q]
        <3>1. CASE values[q] # work.values[q]
            <4>1. q = p.key /\ values[q] = p.value /\ st = "implemented" /\ q # None /\ Seed[q].tier # 3
                BY <1>9, <3>1
            <4> QED
                BY <1>4, <1>5, <1>10, <4>1
        <3>2. CASE values[q] = work.values[q]
            <4>1. /\ q # None /\ Seed[q].tier # 3
                  /\ \E t \in work.read : /\ work.sips[t].status = "implemented"
                                          /\ sip[t].status = "owner_review" /\ t \in accepted
                                          /\ sip[t].key = q /\ sip[t].value = work.values[q]
                BY <1>2, <2>1, <3>2 DEF PassFits, ChangesFit
            <4>2. PICK t \in work.read : /\ work.sips[t].status = "implemented"
                                         /\ sip[t].status = "owner_review" /\ t \in accepted
                                         /\ sip[t].key = q /\ sip[t].value = work.values[q]
                BY <4>1
            <4>3. t # s /\ t \in Sips
                BY <1>2, <1>4, <4>2 DEF GenesisPasses, p
            <4>4. sips[t] = work.sips[t]
                BY <1>10, <4>3
            <4> QED
                BY <3>2, <4>1, <4>2, <4>4
        <3> QED
            BY <3>1, <3>2
    <2>2. \A q \in Parameters : work'.values[q] \in Bounds(q)
        BY <1>9, <1>13
    <2>3. WeightsFit(work'.values)
        BY <1>8, <1>13
    <2>4. ASSUME NEW q \in Parameters, work'.values[q] # value'[q]
          PROVE  /\ q # None /\ Seed[q].tier # 3
                 /\ \E t \in work'.read : /\ work'.sips[t].status = "implemented"
                                          /\ sip'[t].status = "owner_review" /\ t \in accepted'
                                          /\ sip'[t].key = q /\ sip'[t].value = work'.values[q]
        <3>1. values[q] # value[q]
            BY <1>1, <1>13, <2>4
        <3>2. q # None /\ Seed[q].tier # 3
            BY <2>1, <3>1
        <3>3. PICK t \in work.read : /\ sips[t].status = "implemented"
                                    /\ sip[t].status = "owner_review" /\ t \in accepted
                                    /\ sip[t].key = q /\ sip[t].value = values[q]
            BY <2>1, <3>1
        <3> QED
            BY <1>1, <1>13, <3>2, <3>3
    <2> QED
        BY <2>2, <2>3, <2>4 DEF ChangesFit
<1>17. PassFits'
    <2>1. /\ \A t \in Sips : RowFits(sips[t])
          /\ \A t \in work.read : /\ sip[t].status # "none"
                                  /\ sips[t].key = sip[t].key /\ sips[t].value = sip[t].value
        <3>1. work.read \subseteq Sips
            BY <1>2 DEF GenesisPasses
        <3>2. /\ \A t \in Sips : RowFits(work.sips[t])
              /\ \A t \in work.read : /\ sip[t].status # "none"
                                      /\ work.sips[t].key = sip[t].key
                                      /\ work.sips[t].value = sip[t].value
            BY <1>2 DEF PassFits
        <3>3. ASSUME NEW t \in Sips PROVE RowFits(sips[t])
            BY <1>6, <1>10, <3>2
        <3>4. ASSUME NEW t \in work.read
              PROVE  /\ sip[t].status # "none"
                     /\ sips[t].key = sip[t].key /\ sips[t].value = sip[t].value
            BY <1>4, <1>5, <1>10, <3>1, <3>2
        <3> QED
            BY <3>3, <3>4
    <2>2. \A t \in Sips : sips[t].status = "implementing" =>
              t \in todo /\ t \in work.read /\ sip[t].status = "owner_review" /\ t \in accepted
        <3>1. ASSUME NEW t \in Sips, sips[t].status = "implementing"
              PROVE  t # s
            BY <1>5, <1>10, <1>11, <3>1
        <3>2. \A t \in Sips : work.sips[t].status = "implementing" =>
                  t \in work.todo /\ t \in work.read /\ sip[t].status = "owner_review" /\ t \in accepted
            BY <1>2 DEF PassFits
        <3> QED
            BY <1>10, <1>11, <3>1, <3>2
    <2>3. \A t \in todo : sips[t].status = "implementing"
        BY <1>1, <1>2, <1>10, <1>11 DEF PassFits
    <2>4. work'.phase = "implement" /\ sip' = sip /\ accepted' = accepted
        BY <1>1, <1>13
    <2>5. /\ \A t \in Sips : RowFits(work'.sips[t])
          /\ \A t \in work'.read : /\ sip'[t].status # "none"
                                   /\ work'.sips[t].key = sip'[t].key
                                   /\ work'.sips[t].value = sip'[t].value
          /\ \A t \in Sips : work'.sips[t].status = "implementing" =>
                 /\ work'.phase = "implement" /\ t \in work'.todo /\ t \in work'.read
                 /\ sip'[t].status = "owner_review" /\ t \in accepted'
          /\ \A t \in work'.todo : work'.sips[t].status = "implementing"
        BY <1>13, <2>1, <2>2, <2>3, <2>4
    <2> QED
        BY <1>16, <2>4, <2>5 DEF PassFits
<1> QED
    BY <1>14, <1>15, <1>17

\* Nothing is left to implement when the review starts.
LEMMA BeginReviewStep == ASSUME GovernanceInv, BeginReview PROVE GovernanceInv'
<1> USE DEF GovernanceInv
<1>1. PICK some \in SUBSET {s \in Sips : work.sips[s].status = "tallied"} :
          work' = [work EXCEPT !.phase = "review", !.todo = some]
    BY DEF BeginReview
<1>2. /\ work.phase = "implement" /\ work.todo = {}
      /\ UNCHANGED <<sip, due, vote, owner, value, stage, cycle, accepted, calls, failures>>
    BY DEF BeginReview
<1>3. work # NoWork /\ work \in GenesisPasses
    BY <1>2 DEF NoWork, RowTypes
<1>4. /\ work' \in GenesisPasses /\ work'.phase = "review" /\ work'.todo = some
      /\ work'.sips = work.sips /\ work'.values = work.values /\ work'.read = work.read
    BY <1>1, <1>3 DEF GenesisPasses
<1>5. GovernanceTypes' /\ RowTypes'
    BY <1>2, <1>4 DEF GovernanceTypes, RowTypes
<1>6. RowsFit' /\ AnswersFit' /\ WeightsAddUp'
    BY <1>2 DEF RowsFit, AnswersFit, WeightsAddUp
<1>7. ChangesFit'
    BY <1>2, <1>3, <1>4 DEF PassFits, ChangesFit
<1>8. \A s \in Sips : work.sips[s].status # "implementing"
    BY <1>2, <1>3 DEF PassFits
<1>9. PassFits'
    BY <1>1, <1>2, <1>3, <1>4, <1>7, <1>8 DEF PassFits
<1> QED
    BY <1>5, <1>6, <1>9

\* Genesis ratifies what was tallied; what the pass has implemented stays.
LEMMA ReviewStep ==
    ASSUME GovernanceInv, NEW s \in Sips, NEW ratify \in BOOLEAN, ReviewSip(s, ratify)
    PROVE  GovernanceInv'
<1> USE DEF GovernanceInv
<1> DEFINE old == work.sips[s]
           st == IF ratify THEN "owner_review" ELSE "vetoed_by_genesis"
           row == [old EXCEPT !.approved = ratify, !.status = st]
           todo == work.todo \ {s}
           sips == [work.sips EXCEPT ![s] = row]
<1>1. /\ work.phase = "review" /\ s \in work.todo
      /\ work' = [work EXCEPT !.todo = @ \ {s}, !.sips[s].approved = ratify,
                              !.sips[s].status = IF ratify THEN "owner_review"
                                                 ELSE "vetoed_by_genesis"]
      /\ UNCHANGED <<sip, due, vote, owner, value, stage, cycle, accepted, calls, failures>>
    BY DEF ReviewSip
<1>2. work # NoWork /\ work \in GenesisPasses
    BY <1>1 DEF NoWork, RowTypes
<1>3. work' = [work EXCEPT !.todo = todo, !.sips = sips]
    BY <1>1, <1>2 DEF GenesisPasses
<1>4. old \in SipRows /\ RowFits(old) /\ old.status = "tallied"
    BY <1>1, <1>2 DEF PassFits, GenesisPasses
<1>5. /\ st \in {"owner_review", "vetoed_by_genesis"} /\ st \in LifecycleStatus
      /\ st = "owner_review" => ratify
    BY DEF LifecycleStatus
<1> HIDE DEF old, st
<1>6. /\ row \in SipRows /\ row.status = st /\ row.approved = ratify /\ row.key = old.key
      /\ row.value = old.value /\ row.tier = old.tier /\ row.support = old.support
      /\ row.oppose = old.oppose
    BY <1>4, <1>5 DEF SipRows
<1> HIDE DEF row
<1>7. RowFits(row)
    BY <1>4, <1>5, <1>6 DEF RowFits
<1>8. /\ sips \in [Sips -> SipRows] /\ sips[s] = row
      /\ \A t \in Sips : t # s => sips[t] = work.sips[t]
    BY <1>2, <1>6 DEF GenesisPasses
<1>9. todo \subseteq Sips /\ \A t \in todo : t \in work.todo /\ t # s
    BY <1>2 DEF GenesisPasses
<1> HIDE DEF sips, todo
<1>10. /\ work' \in GenesisPasses /\ work'.todo = todo /\ work'.sips = sips
       /\ work'.phase = "review" /\ work'.values = work.values /\ work'.read = work.read
    <2> DEFINE changed == [work EXCEPT !.todo = todo, !.sips = sips]
    <2>1. changed \in GenesisPasses
        BY <1>2, <1>8, <1>9 DEF GenesisPasses
    <2>2. /\ changed.todo = todo /\ changed.sips = sips /\ changed.phase = work.phase
          /\ changed.values = work.values /\ changed.read = work.read
        BY <1>2 DEF GenesisPasses
    <2> QED
        BY <1>1, <1>3, <2>1, <2>2
<1>11. GovernanceTypes' /\ RowTypes'
    BY <1>1, <1>10 DEF GovernanceTypes, RowTypes
<1>12. RowsFit' /\ AnswersFit' /\ WeightsAddUp'
    BY <1>1 DEF RowsFit, AnswersFit, WeightsAddUp
<1>13. work.read \subseteq Sips
    BY <1>2 DEF GenesisPasses
<1>14. ChangesFit'
    <2>1. ASSUME NEW t \in work.read, work.sips[t].status = "implemented"
          PROVE  sips[t].status = "implemented"
        BY <1>4, <1>8, <1>13, <2>1 DEF old
    <2>2. ChangesFit
        BY <1>2 DEF PassFits
    <2>3. /\ \A q \in Parameters : work'.values[q] \in Bounds(q)
          /\ WeightsFit(work'.values)
        BY <1>10, <2>2 DEF ChangesFit
    <2>4. ASSUME NEW q \in Parameters, work'.values[q] # value'[q]
          PROVE  /\ q # None /\ Seed[q].tier # 3
                 /\ \E t \in work'.read : /\ work'.sips[t].status = "implemented"
                                          /\ sip'[t].status = "owner_review" /\ t \in accepted'
                                          /\ sip'[t].key = q /\ sip'[t].value = work'.values[q]
        <3>1. work.values[q] # value[q]
            BY <1>1, <1>10, <2>4
        <3>2. q # None /\ Seed[q].tier # 3
            BY <2>2, <3>1 DEF ChangesFit
        <3>3. PICK t \in work.read : /\ work.sips[t].status = "implemented"
                                    /\ sip[t].status = "owner_review" /\ t \in accepted
                                    /\ sip[t].key = q /\ sip[t].value = work.values[q]
            BY <2>2, <3>1 DEF ChangesFit
        <3>4. sips[t].status = "implemented"
            BY <2>1, <3>3
        <3> QED
            BY <1>1, <1>10, <3>2, <3>3, <3>4
    <2> QED
        BY <2>3, <2>4 DEF ChangesFit
<1>15. PassFits'
    <2>1. /\ \A t \in Sips : RowFits(work.sips[t])
          /\ \A t \in work.read : /\ sip[t].status # "none"
                                  /\ work.sips[t].key = sip[t].key
                                  /\ work.sips[t].value = sip[t].value
          /\ \A t \in Sips : work.sips[t].status # "implementing"
          /\ \A t \in work.todo : work.sips[t].status = "tallied"
        BY <1>1, <1>2 DEF PassFits
    <2>2. \A t \in Sips : RowFits(sips[t])
        BY <1>7, <1>8, <2>1
    <2>3. \A t \in work.read : /\ sip[t].status # "none"
                               /\ sips[t].key = sip[t].key /\ sips[t].value = sip[t].value
        BY <1>6, <1>8, <1>13, <2>1 DEF old
    <2>4. \A t \in Sips : sips[t].status # "implementing"
        BY <1>5, <1>6, <1>8, <2>1
    <2>5. \A t \in todo : sips[t].status = "tallied"
        BY <1>8, <1>9, <2>1
    <2> QED
        <3>1. /\ work'.phase # "implement" /\ work'.sips = sips /\ work'.read = work.read
              /\ work'.todo = todo /\ sip' = sip
            BY <1>1, <1>10
        <3>2. \A t \in Sips : RowFits(work'.sips[t])
            BY <2>2, <3>1
        <3>3. \A t \in work'.read : /\ sip'[t].status # "none"
                                    /\ work'.sips[t].key = sip'[t].key
                                    /\ work'.sips[t].value = sip'[t].value
            BY <2>3, <3>1
        <3>4. \A t \in Sips : work'.sips[t].status # "implementing"
            BY <2>4, <3>1
        <3>5. \A t \in work'.todo : work'.sips[t].status =
                  IF work'.phase = "implement" THEN "implementing" ELSE "tallied"
            BY <2>5, <3>1
        <3> QED
            BY <1>14, <3>2, <3>3, <3>4, <3>5 DEF PassFits
<1> QED
    BY <1>11, <1>12, <1>15

\* What a pass read is written back as it holds it; what was proposed since stays.
LEMMA CommitStep == ASSUME GovernanceInv, CommitPass PROVE GovernanceInv'
<1> USE DEF GovernanceInv
<1>1. /\ work.phase = "review" /\ work.todo = {} /\ work' = NoWork
      /\ sip' = [s \in Sips |-> IF s \in work.read THEN work.sips[s] ELSE sip[s]]
      /\ due' = {s \in due : sip'[s].status = sip[s].status}
      /\ value' = work.values /\ stage' = work.stage
      /\ UNCHANGED <<vote, owner, cycle, accepted, calls, failures>>
    BY DEF CommitPass
<1>2. work # NoWork /\ work \in GenesisPasses
    BY <1>1 DEF NoWork, RowTypes
<1>3. ASSUME NEW s \in Sips
      PROVE  /\ sip'[s] \in SipRows /\ RowFits(sip'[s])
             /\ sip'[s].status \in LifecycleStatus \ {"implementing"}
    <2>1. sip[s] \in SipRows /\ RowFits(sip[s]) /\ sip[s].status # "implementing"
        BY DEF RowTypes, RowsFit, GovernanceTypes
    <2>2. work.sips[s] \in SipRows /\ RowFits(work.sips[s]) /\ work.sips[s].status # "implementing"
        BY <1>1, <1>2 DEF PassFits, GenesisPasses
    <2> QED
        BY <1>1, <2>1, <2>2 DEF SipRows
<1>4. sip' \in [Sips -> SipRows]
    BY <1>1, <1>3
<1>5. value' \in [Parameters -> Int] /\ \A p \in Parameters : value'[p] \in Bounds(p)
    BY <1>1, <1>2 DEF GenesisPasses, PassFits, ChangesFit
<1>6. due' \subseteq Sips /\ stage' \in Stages
    BY <1>1, <1>2 DEF GovernanceTypes, GenesisPasses
<1>7. GovernanceTypes' /\ RowTypes'
    BY <1>1, <1>3, <1>4, <1>5, <1>6 DEF GovernanceTypes, RowTypes
<1>8. WeightsAddUp'
    <2>1. WeightsFit(work.values)
        BY <1>2 DEF PassFits, ChangesFit
    <2> QED
        BY <1>1, <2>1 DEF WeightsAddUp, WeightsFit
<1>9. RowsFit' /\ AnswersFit' /\ PassFits'
    BY <1>1, <1>3 DEF RowsFit, AnswersFit, PassFits
<1> QED
    BY <1>7, <1>8, <1>9

\* Every step of the agents, of the owner and of Genesis keeps the invariant.
LEMMA GovernanceStep == ASSUME GovernanceInv, [GovernanceNext]_vars PROVE GovernanceInv'
<1>1. CASE GovernanceNext
    BY <1>1, ProposeStep, VotesStep, OwnerStep, BeginPassStep, GiveUpStep, ImplementStep,
       BeginReviewStep, ReviewStep, CommitStep DEF GovernanceNext, GenesisStep
<1>2. CASE UNCHANGED vars
    BY <1>2, QuietGovernance DEF vars, GovernanceInv, GovernanceTypes, RowTypes
<1> QED
    BY <1>1, <1>2

\* Governance keeps its inductive invariant, whatever the proposals, the votes and
\* the passes that fail.
THEOREM GovernanceInvariant == GovernanceSpec => []GovernanceInv
<1>1. GovernanceInit => GovernanceInv
    BY GovernanceStart
<1>2. GovernanceInv /\ [GovernanceNext]_vars => GovernanceInv'
    BY GovernanceStep
<1> QED
    BY <1>1, <1>2, PTL DEF GovernanceSpec

\* The type invariant of governance.
THEOREM GovernanceTypesHold == GovernanceSpec => []GovernanceTypes
<1>1. GovernanceInv => GovernanceTypes
    BY DEF GovernanceInv
<1> QED
    BY <1>1, GovernanceInvariant, PTL

\* The evaluation weights still add up to one, within a hundredth, after any
\* number of passes has changed them.
THEOREM WeightsStayWhole == GovernanceSpec => []WeightsAddUp
<1>1. GovernanceInv => WeightsAddUp
    BY DEF GovernanceInv
<1> QED
    BY <1>1, GovernanceInvariant, PTL

\* What a step that changes a parameter was preceded by.
ApprovedChange ==
    \A p \in Parameters : value'[p] # value[p] =>
        /\ Seed[p].tier # 3
        /\ \E s \in Sips :
            /\ sip'[s].status = "implemented" /\ sip[s].status = "owner_review"
            /\ sip[s].key = p /\ value'[p] = sip[s].value
            /\ sip[s].approved /\ s \in accepted
            /\ sip[s].support > 0
            /\ 100 * sip[s].support >=
                 (IF Seed[p].tier = 2 THEN StructuralAt[1] ELSE PassAt[1])
                    * (sip[s].support + sip[s].oppose)

\* Only the commit of a pass writes the registry, and it writes what the pass found
\* accepted by the owner when it read the proposals.
LEMMA ChangeIsApproved == ASSUME GovernanceInv, [GovernanceNext]_vars PROVE ApprovedChange
<1> USE DEF GovernanceInv
<1>1. CASE CommitPass
    <2>1. /\ work.phase = "review" /\ value' = work.values
          /\ sip' = [s \in Sips |-> IF s \in work.read THEN work.sips[s] ELSE sip[s]]
        BY <1>1 DEF CommitPass
    <2>2. work # NoWork /\ work \in GenesisPasses
        BY <2>1 DEF NoWork, RowTypes
    <2> SUFFICES ASSUME NEW p \in Parameters, value'[p] # value[p]
                 PROVE  /\ Seed[p].tier # 3
                        /\ \E s \in Sips :
                            /\ sip'[s].status = "implemented" /\ sip[s].status = "owner_review"
                            /\ sip[s].key = p /\ value'[p] = sip[s].value
                            /\ sip[s].approved /\ s \in accepted
                            /\ sip[s].support > 0
                            /\ 100 * sip[s].support >=
                                 (IF Seed[p].tier = 2 THEN StructuralAt[1] ELSE PassAt[1])
                                    * (sip[s].support + sip[s].oppose)
        BY DEF ApprovedChange
    <2>3. p # None /\ Seed[p].tier # 3
        BY <2>1, <2>2 DEF PassFits, ChangesFit
    <2>4. PICK s \in work.read : /\ work.sips[s].status = "implemented"
                                /\ sip[s].status = "owner_review" /\ s \in accepted
                                /\ sip[s].key = p /\ sip[s].value = work.values[p]
        BY <2>1, <2>2 DEF PassFits, ChangesFit
    <2>5. s \in Sips /\ sip'[s] = work.sips[s]
        BY <2>1, <2>2, <2>4 DEF GenesisPasses
    <2>6. RowFits(sip[s])
        BY <2>5 DEF RowsFit
    <2>7. sip[s].approved /\ sip[s].support > 0 /\ sip[s].tier = Seed[p].tier
        BY <2>3, <2>4, <2>6 DEF RowFits
    <2>8. 100 * sip[s].support >= Lowest(Seed[p].tier) * (sip[s].support + sip[s].oppose)
        BY <2>4, <2>6, <2>7 DEF RowFits
    <2> QED
        BY <2>1, <2>3, <2>4, <2>5, <2>7, <2>8 DEF Lowest
<1>2. CASE UNCHANGED value
    BY <1>2 DEF ApprovedChange
<1>3. CommitPass \/ UNCHANGED value
    BY DEF GovernanceNext, GenesisStep, vars, ProposeSip, VoteOnSip, CommitVote, Elapse,
           OwnerDecides, BeginPass, ImplementSip, ImplementFails, BeginReview, ReviewSip,
           ReviewFails, AbandonPass
<1> QED
    BY <1>1, <1>2, <1>3

\* A parameter changes only to the value of a proposal that passed its vote, that
\* Genesis ratified and that the owner has accepted, and never if it is forbidden.
THEOREM ChangesApproved == GovernanceSpec => ApprovedChangesOnly
<1>1. GovernanceInv /\ [GovernanceNext]_vars => [ApprovedChange]_vars
    BY ChangeIsApproved
<1>2. ApprovedChangesOnly <=> [][ApprovedChange]_vars
    BY DEF ApprovedChangesOnly, ApprovedChange
<1> QED
    BY <1>1, <1>2, GovernanceInvariant, PTL DEF GovernanceSpec

-------------------------------------------------------------------------------
(* Colony: the rows of agents and what Genesis holds *)

AgentRows == [status : {"none", "initializing", "active", "hibernating", "frozen", "terminated"},
              spec : Names \union {Nobody}, name : Names \union {Nobody}, took : BOOLEAN,
              oriented : BOOLEAN,
              line : Agents \union {Nobody}, clock : {"running", "out", "again"},
              seasoned : BOOLEAN, cooling : BOOLEAN]
Steps == {"idle", "spawn", "orient", "evaluate", "judge", "parked", "allocate", "reproduce"}
GenesisRows == [step : Steps, wave : Nat, todo : SUBSET (Names \union Agents), failed : BOOLEAN,
                judged : [Agents -> Evaluations], dying : SUBSET Agents,
                parked : Agents \union {Nobody}]

Alive(a) == agent[a].status \notin {"none", "terminated"}
Born(line) == {a \in Agents : agent[a].line = line}

\* The boot works on names of its wave; a batch judges living agents, and those it
\* sentences are those it buries.
GenesisFits ==
    /\ genesis \in GenesisRows
    /\ genesis.step \in {"spawn", "orient"} =>
           genesis.wave \in DOMAIN Waves /\ genesis.todo \subseteq Names
    /\ genesis.step = "spawn" => genesis.todo # {}
    /\ genesis.step = "judge" =>
           \A a \in genesis.todo : a \in Agents /\ Alive(a) /\ genesis.judged[a] = "none"
    /\ \A a \in Agents : genesis.judged[a] # "none" => Alive(a)
    /\ \A a \in Agents : genesis.judged[a] = "terminated" <=> a \in genesis.dying

\* A founder with a founder's name that nobody else had when it came by it.
First(a) == agent[a].spec # Nobody /\ agent[a].name # Nobody /\ ~agent[a].took

\* Founders were born, and no two came first by the same name.
NamesFit ==
    /\ \A a \in Agents : agent[a].spec # Nobody => agent[a].status # "none"
    /\ \A a, b \in Agents : First(a) /\ First(b) /\ agent[a].name = agent[b].name => a = b

\* Names, dynasties and the agent that thinks belong to agents that were born.
AgentsFit ==
    /\ NamesFit
    /\ \A a \in Agents : IF agent[a].status = "none" THEN agent[a].line = Nobody
                         ELSE agent[a].line \in Agents /\ agent[agent[a].line].status # "none"
    /\ thinking # Nobody => agent[thinking].status # "none"
    /\ \A line \in Agents : dynasty[line].living <= Cardinality(Born(line))

\* The inductive invariant.
ColonyInv ==
    /\ ColonyTypes /\ GenesisFits /\ AgentsFit /\ LivingCounted /\ VerdictsAreCarriedOut

-------------------------------------------------------------------------------
(* Colony: steps that neither bear nor bury anybody *)

\* A session that has written no agent yet.
Fresh(g) ==
    g \in GenesisRows /\ g.dying = {} /\ \A a \in Agents : g.judged[a] = "none"

\* Agents may change what they do, and the buried may rise.
Stirs ==
    \A a \in Agents :
        /\ agent'[a].line = agent[a].line
        /\ agent'[a].status = "none" <=> agent[a].status = "none"
        /\ agent'[a].status = "terminated" => agent[a].status = "terminated"
SameNames ==
    \A a \in Agents : /\ agent'[a].spec = agent[a].spec /\ agent'[a].name = agent[a].name
                      /\ agent'[a].took = agent[a].took
Moves == Stirs /\ SameNames

LEMMA IdleFits == Fresh(Idle) /\ Idle.step = "idle" /\ Idle.todo = {}
<1> DEFINE j == [a \in Agents |-> "none"]
<1>1. j \in [Agents -> Evaluations] /\ \A a \in Agents : j[a] = "none"
    BY DEF Evaluations
<1>2. Idle = [step |-> "idle", wave |-> 0, todo |-> {}, failed |-> FALSE, judged |-> j,
              dying |-> {}, parked |-> Nobody]
    BY DEF Idle
<1> HIDE DEF j
<1>3. /\ Idle \in GenesisRows /\ Idle.dying = {} /\ Idle.judged = j /\ Idle.todo = {}
      /\ Idle.step = "idle"
    BY <1>1, <1>2 DEF GenesisRows, Steps
<1> QED
    BY <1>1, <1>3 DEF Fresh

LEMMA IdleIsFresh ==
    ASSUME NEW x \in Steps
    PROVE  LET g == [Idle EXCEPT !.step = x] IN Fresh(g) /\ g.step = x /\ g.todo = {}
<1> DEFINE g == [Idle EXCEPT !.step = x]
<1>1. /\ Idle \in GenesisRows /\ Idle.dying = {} /\ Idle.todo = {}
      /\ \A a \in Agents : Idle.judged[a] = "none"
    BY IdleFits DEF Fresh
<1>2. /\ g \in GenesisRows /\ g.dying = {} /\ g.todo = {} /\ g.step = x
      /\ g.judged = Idle.judged
    BY <1>1 DEF GenesisRows
<1> QED
    BY <1>1, <1>2 DEF Fresh

\* A set of naturals has a least one.
LEMMA LeastExists ==
    ASSUME NEW S, S \subseteq Nat, S # {}
    PROVE  \E v \in S : \A u \in S : v <= u
<1>1. PICK v \in S : \A u \in S : ~(<<u, v>> \in OpToRel(<, Nat))
    BY NatLessThanWellFounded, WFMin, Zenon
<1>2. ASSUME NEW u \in S PROVE v <= u
    <2>1. <<u, v>> \notin OpToRel(<, Nat) /\ u \in Nat /\ v \in Nat
        BY <1>1
    <2> QED
        BY <2>1 DEF OpToRel
<1> QED
    BY <1>2

\* The next wave is one of the founders' waves, or the boot is over.
LEMMA NextWave ==
    ASSUME NEW w \in Nat \ {0}
    PROVE  LET g == FromWave(w) IN
           /\ Fresh(g) /\ g.step \in {"spawn", "evaluate"}
           /\ g.step = "spawn" =>
                  g.wave \in DOMAIN Waves /\ g.todo \subseteq Names /\ g.todo # {}
<1> DEFINE g == FromWave(w)
           ready == {v \in w .. Len(Waves) : Ready(v)}
           v == CHOOSE v \in ready : \A u \in ready : v <= u
<1>1. /\ Waves \in Seq(SUBSET Names) /\ Len(Waves) \in Nat /\ DOMAIN Waves = 1 .. Len(Waves)
      /\ \A i \in DOMAIN Waves : Waves[i] \subseteq Names /\ Waves[i] # {}
    BY ColonyAssumption
<1>2. CASE ready = {}
    <2>1. g = [Idle EXCEPT !.step = "evaluate"] /\ "evaluate" \in Steps
        BY <1>2 DEF FromWave, Steps
    <2> QED
        BY <2>1, IdleIsFresh
<1>3. CASE ready # {}
    <2>1. g = [Idle EXCEPT !.step = "spawn", !.wave = v, !.todo = Waves[v]]
        BY <1>3 DEF FromWave
    <2>2. ready \subseteq Nat
        BY <1>1
    <2>3. \E u \in ready : \A t \in ready : u <= t
        BY <1>3, <2>2, LeastExists
    <2>4. v \in DOMAIN Waves
        <3>1. v \in ready
            BY <2>3
        <3> QED
            BY <1>1, <3>1
    <2> HIDE DEF v, g, ready
    <2>5. Waves[v] \subseteq Names /\ Waves[v] # {} /\ v \in Nat
        BY <1>1, <2>4
    <2>6. /\ Idle \in GenesisRows /\ Idle.dying = {}
          /\ \A a \in Agents : Idle.judged[a] = "none"
        BY IdleFits DEF Fresh
    <2>7. /\ g \in GenesisRows /\ g.dying = {} /\ g.judged = Idle.judged /\ g.step = "spawn"
          /\ g.wave = v /\ g.todo = Waves[v]
        BY <2>1, <2>5, <2>6 DEF GenesisRows, Steps
    <2> QED
        BY <2>4, <2>5, <2>6, <2>7 DEF Fresh, g
<1> QED
    BY <1>2, <1>3

\* Whoever lives goes on living, so that a batch under way still holds.
LEMMA HeldFits ==
    ASSUME GenesisFits, genesis' = genesis, Stirs
    PROVE  GenesisFits'
BY DEF GenesisFits, Stirs, Alive

\* A session that has written nothing asks nothing of the agents.
LEMMA FreshFits ==
    ASSUME Fresh(genesis'), genesis'.step \notin {"spawn", "orient", "judge"}
    PROVE  GenesisFits'
BY DEF GenesisFits, Fresh

\* The books hold: a dynasty has the members it had, unless one rose.
LEMMA StirsKeepBooks ==
    ASSUME ColonyTypes, LivingCounted, VerdictsAreCarriedOut, Stirs, agent' \in [Agents -> AgentRows],
           UNCHANGED <<dynasty, verdict, graves>>
    PROVE  LivingCounted' /\ VerdictsAreCarriedOut'
<1>1. \A a \in Agents : graves[a] \in 0 .. 2 /\ graves'[a] = graves[a]
    BY DEF ColonyTypes, Graves
<1>2. VerdictsAreCarriedOut'
    BY DEF VerdictsAreCarriedOut, Stirs
<1>3. ASSUME NEW a \in Agents, agent[a].status = "terminated"
      PROVE  graves[a] > 0
    BY <1>3 DEF VerdictsAreCarriedOut
<1>4. ASSUME NEW a \in Risen PROVE a \in Risen'
    <2>1. a \in Agents /\ graves[a] > (IF agent[a].status = "terminated" THEN 1 ELSE 0)
        BY <1>4 DEF Risen
    <2>2. graves'[a] > (IF agent'[a].status = "terminated" THEN 1 ELSE 0)
        BY <1>1, <2>1 DEF Stirs
    <2> QED
        BY <2>1, <2>2 DEF Risen
<1>5. ASSUME NEW line \in Agents, \A a \in Risen' : agent'[a].line # line
      PROVE  dynasty'[line].living = Cardinality(Living(line)')
    <2>1. \A a \in Risen : agent[a].line # line
        BY <1>4, <1>5 DEF Stirs, Risen
    <2>2. dynasty[line].living = Cardinality(Living(line))
        BY <2>1 DEF LivingCounted
    <2>3. ASSUME NEW a \in Agents, agent[a].line = line, agent'[a].status # "terminated"
          PROVE  agent[a].status # "terminated"
        <3>1. agent'[a].line = line
            BY <2>3 DEF Stirs
        <3>2. a \notin Risen'
            BY <1>5, <3>1
        <3>3. ~(graves'[a] > 0)
            BY <2>3, <3>2 DEF Risen
        <3> QED
            BY <1>1, <1>3, <3>3
    <2>4. Living(line)' = Living(line)
        BY <2>3 DEF Living, Stirs
    <2> QED
        BY <2>2, <2>4
<1> QED
    BY <1>2, <1>5 DEF LivingCounted

LEMMA StirsKeepAgents ==
    ASSUME AgentsFit, Stirs, NamesFit', agent' \in [Agents -> AgentRows], UNCHANGED dynasty,
           thinking' \in Agents \union {Nobody}, thinking' # Nobody => agent[thinking'].status # "none"
    PROVE  AgentsFit'
<1>1. \A line \in Agents : Born(line)' = Born(line)
    BY DEF Born, Stirs
<1>2. \A line \in Agents : dynasty'[line].living <= Cardinality(Born(line)')
    BY <1>1 DEF AgentsFit
<1>3. \A a \in Agents : IF agent'[a].status = "none" THEN agent'[a].line = Nobody
                        ELSE agent'[a].line \in Agents /\ agent'[agent'[a].line].status # "none"
    BY DEF AgentsFit, Stirs
<1>4. thinking' # Nobody => agent'[thinking'].status # "none"
    BY DEF Stirs
<1> QED
    BY <1>2, <1>3, <1>4 DEF AgentsFit

\* Names stay as they are.
LEMMA NamesKept == ASSUME NamesFit, Moves PROVE NamesFit'
BY DEF NamesFit, First, Moves, Stirs, SameNames

\* What such a step has to show for the invariant.
LEMMA StirsKeep ==
    ASSUME ColonyInv, Stirs, NamesFit', agent' \in [Agents -> AgentRows], GenesisFits',
           UNCHANGED <<dynasty, verdict, graves>>, order' \subseteq Agents,
           thinking' \in Agents \union {Nobody}, thinking' # Nobody => agent[thinking'].status # "none",
           upsets' \in 0 .. MaxUpsets, births' \in 0 .. MaxBirths
    PROVE  ColonyInv'
<1>1. ColonyTypes'
    <2>1. genesis' \in GenesisRows
        BY DEF GenesisFits
    <2> QED
        BY <2>1 DEF ColonyInv, ColonyTypes, GenesisRows, Steps, AgentRows
<1> QED
    BY <1>1, StirsKeepBooks, StirsKeepAgents DEF ColonyInv

LEMMA MovesKeep ==
    ASSUME ColonyInv, Moves, agent' \in [Agents -> AgentRows], GenesisFits',
           UNCHANGED <<dynasty, verdict, graves>>, order' \subseteq Agents,
           thinking' \in Agents \union {Nobody}, thinking' # Nobody => agent[thinking'].status # "none",
           upsets' \in 0 .. MaxUpsets, births' \in 0 .. MaxBirths
    PROVE  ColonyInv'
<1>1. Stirs /\ NamesFit'
    BY NamesKept DEF Moves, ColonyInv, AgentsFit
<1> QED
    BY <1>1, StirsKeep

-------------------------------------------------------------------------------
(* Colony: the steps *)

LEMMA ColonyStart == ASSUME ColonyInit PROVE ColonyInv
<1>1. /\ \A a \in Agents : agent[a] = Unborn /\ dynasty[a] = NoDynasty /\ verdict[a] = "none"
                           /\ graves[a] = 0
      /\ order = {} /\ genesis = Idle /\ thinking = Nobody /\ upsets = 0 /\ births = 0
    BY DEF ColonyInit
<1>2. /\ Unborn \in AgentRows /\ Unborn.status = "none" /\ Unborn.spec = Nobody
      /\ Unborn.line = Nobody
    BY DEF Unborn, AgentRows
<1>3. IsFiniteSet(Agents) /\ Cardinality(Agents) \in Nat /\ MaxUpsets \in Nat /\ MaxBirths \in Nat
    BY ColonyAssumption, FS_CardinalityType
<1>4. NoDynasty \in DynastyRows /\ NoDynasty.living = 0
    <2>1. 0 \in 0 .. Cardinality(Agents)
        BY <1>3
    <2> QED
        BY <2>1 DEF NoDynasty, DynastyRows
<1>5. Fresh(genesis) /\ genesis.step = "idle"
    BY <1>1, IdleFits
<1>6. GenesisFits
    BY <1>5 DEF GenesisFits, Fresh
<1>7. ColonyTypes
    <2>1. agent \in [Agents -> AgentRows] /\ dynasty \in [Agents -> DynastyRows]
        BY <1>1, <1>2, <1>4 DEF ColonyInit
    <2>2. verdict \in [Agents -> Evaluations] /\ graves \in [Agents -> Graves]
        BY DEF ColonyInit, Evaluations, Graves
    <2>3. genesis \in GenesisRows
        BY <1>5 DEF Fresh
    <2>4. upsets \in 0 .. MaxUpsets /\ births \in 0 .. MaxBirths
        BY <1>1, <1>3
    <2> QED
        BY <1>1, <2>1, <2>2, <2>3, <2>4 DEF ColonyTypes, GenesisRows, Steps, AgentRows
<1>8. \A line \in Agents : Born(line) = {} /\ Living(line) = {}
    BY <1>1, <1>2, ColonyAssumption DEF Born, Living
<1>9. AgentsFit
    <2>1. \A line \in Agents : dynasty[line].living <= Cardinality(Born(line))
        BY <1>1, <1>4, <1>8, FS_EmptySet
    <2> QED
        BY <1>1, <1>2, <2>1 DEF AgentsFit, NamesFit, First
<1>10. LivingCounted
    BY <1>1, <1>4, <1>8, FS_EmptySet DEF LivingCounted
<1>11. VerdictsAreCarriedOut
    BY <1>1, <1>2 DEF VerdictsAreCarriedOut
<1> QED
    BY <1>6, <1>7, <1>9, <1>10, <1>11 DEF ColonyInv

LEMMA UpsetCounts ==
    ASSUME ColonyInv, upsets < MaxUpsets, upsets' = upsets + 1
    PROVE  upsets' \in 0 .. MaxUpsets
<1>1. upsets \in 0 .. MaxUpsets /\ MaxUpsets \in Nat
    BY ColonyAssumption DEF ColonyInv, ColonyTypes
<1> QED
    BY <1>1

\* Steps of Genesis that leave every agent as it is.
LEMMA GenesisOnly ==
    ASSUME ColonyInv, GenesisFits', upsets' \in 0 .. MaxUpsets,
           UNCHANGED <<agent, dynasty, verdict, graves, order, thinking, births>>
    PROVE  ColonyInv'
<1>1. Moves /\ agent' \in [Agents -> AgentRows]
    BY DEF Moves, Stirs, SameNames, ColonyInv, ColonyTypes, AgentRows
<1> QED
    BY <1>1, MovesKeep DEF ColonyInv, ColonyTypes, AgentsFit

LEMMA BootStep == ASSUME ColonyInv, BeginBoot \/ EndWave PROVE ColonyInv'
<1>1. PICK w \in Nat \ {0} : genesis' = FromWave(w)
    <2>1. CASE BeginBoot
        BY <2>1 DEF BeginBoot
    <2>2. CASE EndWave
        <3>1. genesis.wave \in Nat
            BY DEF ColonyInv, GenesisFits, GenesisRows
        <3> QED
            BY <2>2, <3>1 DEF EndWave
    <2> QED
        BY <2>1, <2>2
<1>2. UNCHANGED <<agent, dynasty, verdict, graves, order, thinking, upsets, births>>
    BY DEF BeginBoot, EndWave
<1>3. GenesisFits'
    BY <1>1, NextWave DEF GenesisFits, Fresh
<1> QED
    BY <1>2, <1>3, GenesisOnly DEF ColonyInv, ColonyTypes

\* Whoever is due is active when the batch begins.
LEMMA BeginEvaluationsStep == ASSUME ColonyInv, BeginEvaluations PROVE ColonyInv'
<1> DEFINE waiting == {a \in Agents : Due(a)}
<1>1. /\ genesis' = IF waiting = {} THEN [Idle EXCEPT !.step = "reproduce"]
                    ELSE [Idle EXCEPT !.step = "judge", !.todo = waiting]
      /\ UNCHANGED <<agent, dynasty, verdict, graves, order, thinking, upsets, births>>
    BY DEF BeginEvaluations
<1>2. waiting \subseteq Agents /\ \A a \in waiting : Alive(a)
    BY DEF Due, Alive
<1> HIDE DEF waiting
<1>3. CASE waiting = {}
    <2>1. Fresh(genesis') /\ genesis'.step = "reproduce"
        BY <1>1, <1>3, IdleIsFresh DEF Steps
    <2> QED
        BY <1>1, <2>1, FreshFits, GenesisOnly DEF ColonyInv, ColonyTypes
<1>4. CASE waiting # {}
    <2>1. genesis' = [Idle EXCEPT !.step = "judge", !.todo = waiting]
        BY <1>1, <1>4
    <2>2. /\ Idle \in GenesisRows /\ Idle.dying = {} /\ \A a \in Agents : Idle.judged[a] = "none"
        BY IdleFits DEF Fresh
    <2>3. /\ genesis' \in GenesisRows /\ genesis'.step = "judge" /\ genesis'.todo = waiting
          /\ genesis'.dying = {} /\ genesis'.judged = Idle.judged
        BY <1>2, <2>1, <2>2 DEF GenesisRows, Steps
    <2>4. GenesisFits'
        BY <1>1, <1>2, <2>2, <2>3 DEF GenesisFits, Alive
    <2> QED
        BY <1>1, <2>4, GenesisOnly DEF ColonyInv, ColonyTypes
<1> QED
    BY <1>3, <1>4

\* The verdict and the death of one agent go together; the others stay to be judged.
LEMMA DecisionStep == ASSUME ColonyInv, ExecuteDecision PROVE ColonyInv'
<1> USE DEF ColonyInv
<1> DEFINE a == CHOOSE a \in genesis.todo : TRUE
           on == [genesis EXCEPT !.todo = @ \ {a}]
<1>1. PICK final \in Finals(a), spoken \in BOOLEAN :
          /\ genesis' = IF final = "terminated" /\ spoken
                        THEN RunAsyncSafely(Decided(on, a, final), a)
                        ELSE Decided(on, a, final)
          /\ IF final = "terminated" /\ ChargeWaits(a)
             THEN upsets < MaxUpsets /\ upsets' = upsets + 1 ELSE UNCHANGED upsets
    BY DEF ExecuteDecision
<1>2. /\ genesis.step = "judge" /\ genesis.todo # {}
      /\ UNCHANGED <<agent, dynasty, verdict, graves, order, thinking, births>>
    BY DEF ExecuteDecision
<1>3. /\ a \in genesis.todo /\ a \in Agents /\ Alive(a) /\ genesis.judged[a] = "none"
      /\ a \notin genesis.dying
    BY <1>2 DEF GenesisFits
<1>4. final \in {"survived", "probation", "terminated"}
    BY <1>1 DEF Finals, Final
<1>5. upsets' \in 0 .. MaxUpsets
    BY <1>1, UpsetCounts DEF ColonyTypes
<1> HIDE DEF a
<1> DEFINE todo == genesis.todo \ {a}
           judged == [genesis.judged EXCEPT ![a] = final]
           dying == IF final = "terminated" THEN genesis.dying \union {a} ELSE genesis.dying
           g == Decided(on, a, final)
<1>6. genesis \in GenesisRows
    BY DEF GenesisFits
<1>7. g = [genesis EXCEPT !.todo = todo, !.judged = judged, !.dying = dying]
    BY <1>6 DEF Decided, GenesisRows
<1>8. todo \subseteq genesis.todo /\ todo \subseteq Names \union Agents /\ a \notin todo
    BY <1>6 DEF GenesisRows
<1>9. /\ judged \in [Agents -> Evaluations] /\ judged[a] = final
      /\ \A b \in Agents : b # a => judged[b] = genesis.judged[b]
    <2>1. final \in Evaluations /\ genesis.judged \in [Agents -> Evaluations]
        BY <1>4, <1>6 DEF GenesisRows, Evaluations
    <2> QED
        BY <1>3, <2>1
<1>10. /\ dying \subseteq Agents
       /\ a \in dying <=> final = "terminated"
       /\ \A b \in Agents : b # a => (b \in dying <=> b \in genesis.dying)
    BY <1>3, <1>6 DEF GenesisRows
<1> HIDE DEF todo, judged, dying, g
<1>11. /\ g \in GenesisRows /\ g.todo = todo /\ g.judged = judged /\ g.dying = dying
       /\ g.step = "judge"
    BY <1>2, <1>6, <1>7, <1>8, <1>9, <1>10 DEF GenesisRows
<1>12. genesis' \in {g, [g EXCEPT !.step = "parked", !.parked = a]}
    BY <1>1 DEF RunAsyncSafely, g
<1>13. /\ genesis' \in GenesisRows /\ genesis'.todo = todo /\ genesis'.judged = judged
       /\ genesis'.dying = dying /\ genesis'.step \in {"judge", "parked"}
    BY <1>3, <1>11, <1>12 DEF GenesisRows, Steps
<1>14. \A b \in todo : b \in Agents /\ Alive(b) /\ judged[b] = "none"
    BY <1>2, <1>8, <1>9 DEF GenesisFits
<1>15. \A b \in Agents : judged[b] # "none" => Alive(b)
    BY <1>3, <1>9 DEF GenesisFits
<1>16. \A b \in Agents : judged[b] = "terminated" <=> b \in dying
    BY <1>9, <1>10 DEF GenesisFits
<1>17. GenesisFits'
    BY <1>2, <1>13, <1>14, <1>15, <1>16 DEF GenesisFits, Alive
<1> QED
    BY <1>2, <1>5, <1>17, GenesisOnly

\* A batch that is lost, and the ends of the cycle.
LEMMA GivenUpStep ==
    ASSUME ColonyInv, EvaluateBatchFails \/ GenerateLeaderboard \/ RestartGenesis
    PROVE  ColonyInv'
<1>1. UNCHANGED <<agent, dynasty, verdict, graves, order, thinking, births>>
    BY DEF EvaluateBatchFails, GenerateLeaderboard, RestartGenesis
<1>2. upsets' \in 0 .. MaxUpsets
    BY UpsetCounts DEF EvaluateBatchFails, GenerateLeaderboard, RestartGenesis, ColonyInv, ColonyTypes
<1>3. genesis' = Idle \/ genesis' = [Idle EXCEPT !.step = "reproduce"]
    BY DEF EvaluateBatchFails, GenerateLeaderboard, RestartGenesis
<1>4. Fresh(genesis') /\ genesis'.step \notin {"spawn", "orient", "judge"}
    <2>1. CASE genesis' = Idle
        BY <2>1, IdleFits
    <2>2. CASE genesis' = [Idle EXCEPT !.step = "reproduce"]
        BY <2>2, IdleIsFresh DEF Steps
    <2> QED
        BY <1>3, <2>1, <2>2
<1> QED
    BY <1>1, <1>2, <1>4, FreshFits, GenesisOnly

\* Agents of a set, all born, are told what to do.
LEMMA StatusMoves ==
    ASSUME ColonyTypes, NEW st \in {"active", "hibernating", "frozen"}, NEW S \in SUBSET Agents,
           \A a \in S : agent[a].status # "none",
           agent' = [a \in Agents |-> IF a \in S THEN [agent[a] EXCEPT !.status = st] ELSE agent[a]]
    PROVE  Moves /\ agent' \in [Agents -> AgentRows]
<1>1. agent \in [Agents -> AgentRows]
    BY DEF ColonyTypes, AgentRows
<1>2. ASSUME NEW a \in Agents
      PROVE  /\ agent'[a] \in AgentRows /\ agent'[a].name = agent[a].name
             /\ agent'[a].line = agent[a].line /\ agent'[a].spec = agent[a].spec
             /\ agent'[a].took = agent[a].took
             /\ agent'[a].status = IF a \in S THEN st ELSE agent[a].status
    <2>1. agent[a] \in AgentRows
        BY <1>1
    <2>2. CASE a \in S
        <3>1. agent'[a] = [agent[a] EXCEPT !.status = st]
            BY <2>2
        <3> QED
            BY <2>1, <2>2, <3>1 DEF AgentRows
    <2>3. CASE a \notin S
        BY <2>1, <2>3
    <2> QED
        BY <2>2, <2>3
<1>3. agent' \in [Agents -> AgentRows]
    BY <1>2
<1>4. Moves
    BY <1>2 DEF Moves, Stirs, SameNames
<1> QED
    BY <1>3, <1>4

\* What the other processes, the wake check and the Warden do to agents.
LEMMA OthersStep ==
    ASSUME ColonyInv, StartThinking \/ EndThinking \/ OrderEnds \/ FreezeAllAgents \/ WakeAgents
    PROVE  ColonyInv'
<1> USE DEF ColonyInv
<1>1. ASSUME UNCHANGED agent PROVE Moves /\ agent' \in [Agents -> AgentRows]
    BY <1>1 DEF Moves, Stirs, SameNames, ColonyTypes, AgentRows
<1>2. UNCHANGED <<dynasty, verdict, graves, genesis, births>>
    BY DEF StartThinking, EndThinking, OrderEnds, FreezeAllAgents, WakeAgents
<1>3. upsets' \in 0 .. MaxUpsets
    BY UpsetCounts DEF StartThinking, EndThinking, OrderEnds, FreezeAllAgents, WakeAgents, ColonyTypes
<1>4. /\ Moves /\ agent' \in [Agents -> AgentRows] /\ order' \subseteq Agents
      /\ thinking' \in Agents \union {Nobody}
      /\ thinking' # Nobody => agent[thinking'].status # "none"
    <2>1. CASE StartThinking
        <3>1. UNCHANGED <<agent, order>> /\ thinking' \in Active
            BY <2>1 DEF StartThinking
        <3> QED
            BY <1>1, <3>1 DEF Active, ColonyTypes
    <2>2. CASE EndThinking
        <3>1. /\ thinking \in Agents /\ agent[thinking].status # "none" /\ thinking' = Nobody
              /\ order' \in {order, order \union {thinking}}
              /\ UNCHANGED agent \/ agent' = [agent EXCEPT ![thinking].status = "hibernating"]
            BY <2>2 DEF EndThinking, AgentsFit, ColonyTypes
        <3>2. CASE UNCHANGED agent
            BY <1>1, <3>1, <3>2 DEF ColonyTypes
        <3>3. CASE agent' = [agent EXCEPT ![thinking].status = "hibernating"]
            <4>1. agent' = [a \in Agents |-> IF a \in {thinking}
                                             THEN [agent[a] EXCEPT !.status = "hibernating"]
                                             ELSE agent[a]]
                BY <3>1, <3>3 DEF ColonyTypes
            <4>2. Moves /\ agent' \in [Agents -> AgentRows]
                BY <3>1, <4>1, StatusMoves
            <4> QED
                BY <3>1, <4>2 DEF ColonyTypes
        <3> QED
            BY <3>1, <3>2, <3>3
    <2>3. CASE OrderEnds
        BY <1>1, <2>3 DEF OrderEnds, ColonyTypes, AgentsFit
    <2>4. CASE FreezeAllAgents
        <3>1. /\ agent' = [a \in Agents |-> IF a \in Active THEN [agent[a] EXCEPT !.status = "frozen"]
                                             ELSE agent[a]]
              /\ UNCHANGED <<order, thinking>>
            BY <2>4 DEF FreezeAllAgents
        <3>2. Active \subseteq Agents /\ \A a \in Active : agent[a].status # "none"
            BY DEF Active
        <3>3. Moves /\ agent' \in [Agents -> AgentRows]
            BY <3>1, <3>2, StatusMoves
        <3> QED
            BY <3>1, <3>3 DEF ColonyTypes, AgentsFit
    <2>5. CASE WakeAgents
        <3>1. PICK woken \in SUBSET {a \in Agents : agent[a].status = "hibernating"} :
                  agent' = [a \in Agents |-> IF a \in woken THEN [agent[a] EXCEPT !.status = "active"]
                                             ELSE agent[a]]
            BY <2>5 DEF WakeAgents
        <3>2. Moves /\ agent' \in [Agents -> AgentRows]
            BY <3>1, StatusMoves
        <3> QED
            BY <2>5, <3>2 DEF WakeAgents, ColonyTypes, AgentsFit
    <2> QED
        BY <2>1, <2>2, <2>3, <2>4, <2>5
<1>5. GenesisFits'
    BY <1>2, <1>4, HeldFits DEF Moves
<1>6. births' \in 0 .. MaxBirths
    BY <1>2 DEF ColonyTypes
<1> QED
    BY <1>2, <1>3, <1>4, <1>5, <1>6, MovesKeep

LEMMA ClockStep == ASSUME ColonyInv, ClockRunsOut PROVE ColonyInv'
<1>1. PICK a \in Agents : agent' = [agent EXCEPT ![a].clock = "out"]
    BY DEF ClockRunsOut
<1>2. UNCHANGED <<dynasty, verdict, graves, order, genesis, thinking, upsets, births>>
    BY DEF ClockRunsOut
<1>3. agent \in [Agents -> AgentRows]
    BY DEF ColonyInv, ColonyTypes, AgentRows
<1> DEFINE row == [agent[a] EXCEPT !.clock = "out"]
<1>4. agent' = [agent EXCEPT ![a] = row]
    BY <1>1
<1>5. /\ row \in AgentRows /\ row.name = agent[a].name /\ row.line = agent[a].line
      /\ row.spec = agent[a].spec /\ row.took = agent[a].took /\ row.status = agent[a].status
    <2>1. agent[a] \in AgentRows
        BY <1>3
    <2> QED
        BY <2>1 DEF AgentRows
<1> HIDE DEF row
<1>6. Moves /\ agent' \in [Agents -> AgentRows]
    BY <1>3, <1>4, <1>5 DEF Moves, Stirs, SameNames
<1>7. GenesisFits'
    BY <1>2, <1>6, HeldFits DEF ColonyInv, Moves
<1> QED
    BY <1>2, <1>6, <1>7, MovesKeep DEF ColonyInv, ColonyTypes, AgentsFit

\* The boot goes on to the next founder, or ends.
LEMMA OrientationFits ==
    ASSUME GenesisFits, genesis.step = "orient", NEW failed \in BOOLEAN,
           genesis' = AfterOrientation(failed), Stirs
    PROVE  GenesisFits'
<1> DEFINE todo == genesis.todo \ {CHOOSE n \in genesis.todo : TRUE}
<1>1. genesis' = IF todo # {} THEN [genesis EXCEPT !.todo = todo, !.failed = failed]
                 ELSE IF failed THEN [Idle EXCEPT !.step = "evaluate"]
                 ELSE [genesis EXCEPT !.todo = {}]
    BY DEF AfterOrientation
<1>2. todo \subseteq genesis.todo
    OBVIOUS
<1> HIDE DEF todo
<1>3. CASE genesis' = [Idle EXCEPT !.step = "evaluate"]
    <2>1. Fresh(genesis') /\ genesis'.step = "evaluate"
        BY <1>3, IdleIsFresh DEF Steps
    <2> QED
        BY <2>1, FreshFits
<1>4. CASE genesis' # [Idle EXCEPT !.step = "evaluate"]
    <2>1. genesis \in GenesisRows
        BY DEF GenesisFits
    <2>2. /\ genesis' \in GenesisRows /\ genesis'.step = "orient" /\ genesis'.wave = genesis.wave
          /\ genesis'.todo \subseteq genesis.todo /\ genesis'.judged = genesis.judged
          /\ genesis'.dying = genesis.dying
        <3>1. CASE genesis' = [genesis EXCEPT !.todo = todo, !.failed = failed]
            BY <1>2, <2>1, <3>1 DEF GenesisRows
        <3>2. CASE genesis' = [genesis EXCEPT !.todo = {}]
            BY <2>1, <3>2 DEF GenesisRows
        <3> QED
            BY <1>1, <1>4, <3>1, <3>2
    <2> QED
        BY <2>2 DEF GenesisFits, Stirs, Alive
<1> QED
    BY <1>3, <1>4

\* A founder who gets the name it asks for takes it over or is the first to bear it.
LEMMA ChoiceKeepsNames ==
    ASSUME NamesFit, NEW a \in Agents, agent[a].status # "none", agent[a].spec # Nobody,
           agent \in [Agents -> AgentRows], NEW n \in Names \union {Nobody}, MarkCompleted(a, n)
    PROVE  Stirs /\ NamesFit' /\ agent' \in [Agents -> AgentRows]
<1> DEFINE chosen == ResolveDisplayName(a, n)
           row == [chosen EXCEPT !.status = "active", !.oriented = TRUE]
<1>1. agent[a] \in AgentRows
    OBVIOUS
<1>2. /\ chosen \in AgentRows /\ chosen.spec = agent[a].spec /\ chosen.line = agent[a].line
      /\ \/ chosen.name = agent[a].name /\ chosen.took = agent[a].took
         \/ chosen.name = n /\ (chosen.took <=> Bearers(n) # {})
    <2>1. CASE chosen = agent[a]
        BY <1>1, <2>1
    <2>2. CASE chosen = [agent[a] EXCEPT !.name = n, !.took = Bearers(n) # {}]
        BY <1>1, <2>2 DEF AgentRows
    <2> QED
        BY <2>1, <2>2 DEF ResolveDisplayName
<1> HIDE DEF chosen
<1>3. /\ row \in AgentRows /\ row.status = "active" /\ row.spec = chosen.spec
      /\ row.line = chosen.line /\ row.name = chosen.name /\ row.took = chosen.took
    BY <1>2 DEF AgentRows
<1>4. agent' = [agent EXCEPT ![a] = row]
    BY DEF MarkCompleted, chosen
<1> HIDE DEF row
<1>5. /\ agent' \in [Agents -> AgentRows] /\ agent'[a] = row
      /\ \A b \in Agents \ {a} : agent'[b] = agent[b]
    BY <1>3, <1>4
<1>6. Stirs
    BY <1>2, <1>3, <1>5 DEF Stirs
<1>7. ASSUME NEW b \in Agents \ {a}, First(a)', First(b)', agent'[a].name = agent'[b].name
      PROVE  FALSE
    <2>1. First(b) /\ agent[b].name = row.name /\ ~row.took /\ row.name # Nobody
        BY <1>5, <1>7 DEF First
    <2>2. CASE chosen.name = agent[a].name /\ chosen.took = agent[a].took
        <3>1. First(a) /\ agent[a].name = agent[b].name
            BY <1>3, <2>1, <2>2 DEF First
        <3> QED
            BY <1>7, <2>1, <3>1 DEF NamesFit
    <2>3. CASE chosen.name = n /\ (chosen.took <=> Bearers(n) # {})
        <3>1. b \in Bearers(n)
            BY <1>3, <2>1, <2>3 DEF Bearers, First
        <3> QED
            BY <1>3, <2>1, <2>3, <3>1
    <2> QED
        BY <1>2, <2>2, <2>3
<1>8. ASSUME NEW b \in Agents, NEW c \in Agents, First(b)', First(c)', agent'[b].name = agent'[c].name
      PROVE  b = c
    <2>1. CASE b # a /\ c # a
        <3>1. First(b) /\ First(c) /\ agent[b].name = agent[c].name
            BY <1>5, <1>8, <2>1 DEF First
        <3> QED
            BY <3>1 DEF NamesFit
    <2>2. CASE b = a \/ c = a
        BY <1>7, <1>8, <2>2
    <2> QED
        BY <2>1, <2>2
<1>9. \A b \in Agents : agent'[b].spec # Nobody => agent'[b].status # "none"
    BY <1>3, <1>5 DEF NamesFit
<1> QED
    BY <1>5, <1>6, <1>8, <1>9 DEF NamesFit

LEMMA OrientStep == ASSUME ColonyInv, OrientFounder PROVE ColonyInv'
<1> USE DEF ColonyInv
<1>1. genesis.step = "orient" /\ UNCHANGED <<dynasty, verdict, graves, order, thinking, births>>
    BY DEF OrientFounder
<1>2. genesis.failed \in BOOLEAN
    BY DEF GenesisFits, GenesisRows
<1> DEFINE n == CHOOSE n \in genesis.todo : TRUE
           unoriented == {a \in Existing(n) : ~agent[a].oriented}
<1>3. \/ genesis' = Idle /\ UNCHANGED agent /\ (UNCHANGED upsets \/ \E a \in unoriented : ChoiceRaises(a))
      \/ genesis' = AfterOrientation(genesis.failed) /\ UNCHANGED <<agent, upsets>>
      \/ \E a \in unoriented, succeeds \in BOOLEAN :
             OrientAgent(a, succeeds) /\ genesis' = AfterOrientation(genesis.failed \/ ~succeeds)
    BY DEF OrientFounder
<1>4. \/ genesis' = Idle
      \/ \E failed \in BOOLEAN : genesis' = AfterOrientation(failed)
    BY <1>2, <1>3
<1>5. unoriented \subseteq Agents /\ \A a \in unoriented : agent[a].spec # Nobody
    BY DEF Existing, Bearers
<1>6. upsets' \in 0 .. MaxUpsets
    BY <1>3, UpsetCounts DEF OrientAgent, ChoiceRaises, ColonyTypes
<1>7. agent \in [Agents -> AgentRows] /\ NamesFit
    BY DEF ColonyTypes, AgentRows, AgentsFit
<1> HIDE DEF n, unoriented
<1>8. Stirs /\ NamesFit' /\ agent' \in [Agents -> AgentRows]
    <2>1. CASE UNCHANGED agent
        <3>1. Moves
            BY <2>1 DEF Moves, Stirs, SameNames
        <3> QED
            BY <1>7, <2>1, <3>1, NamesKept DEF Moves
    <2>2. ASSUME NEW a \in unoriented, NEW m \in Names \union {Nobody}, MarkCompleted(a, m)
          PROVE  Stirs /\ NamesFit' /\ agent' \in [Agents -> AgentRows]
        <3>1. a \in Agents /\ agent[a].spec # Nobody /\ agent[a].status # "none"
            BY <1>5, <1>7 DEF NamesFit
        <3> QED
            BY <1>7, <2>2, <3>1, ChoiceKeepsNames
    <2> QED
        BY <1>3, <2>1, <2>2 DEF OrientAgent
<1>9. GenesisFits'
    <2>1. CASE genesis' = Idle
        BY <2>1, IdleFits, FreshFits
    <2>2. ASSUME NEW failed \in BOOLEAN, genesis' = AfterOrientation(failed) PROVE GenesisFits'
        BY <1>1, <1>8, <2>2, OrientationFits
    <2> QED
        BY <1>4, <2>1, <2>2
<1> QED
    BY <1>1, <1>6, <1>8, <1>9, StirsKeep DEF ColonyTypes, AgentsFit

\* Somebody is born into a dynasty, that of its parent or one of its own.
LEMMA BirthKeeps ==
    ASSUME ColonyInv, NEW s \in Agents, agent[s].status = "none",
           NEW l \in Agents, l = s \/ agent[l].status # "none",
           agent' \in [Agents -> AgentRows],
           agent'[s].line = l, agent'[s].status \notin {"none", "terminated"},
           agent'[s].spec # Nobody => \A a \in Agents : ~(agent[a].spec # Nobody
                                                           /\ agent[a].name = agent'[s].name),
           \A a \in Agents \ {s} : /\ agent'[a].spec = agent[a].spec /\ agent'[a].name = agent[a].name
                                   /\ agent'[a].took = agent[a].took /\ agent'[a].line = agent[a].line
                                   /\ agent'[a].status = agent[a].status,
           \A line \in Agents : dynasty'[line].status \in {"none", "active", "extinct"},
           dynasty' \in [Agents -> [living : Nat, status : {"none", "active", "extinct"}]],
           \A line \in Agents \ {l} : dynasty'[line] = dynasty[line],
           dynasty'[l].living = (IF l = s THEN 0 ELSE dynasty[l].living) + 1,
           UNCHANGED <<verdict, graves, order, thinking>>,
           upsets' \in 0 .. MaxUpsets, births' \in 0 .. MaxBirths, GenesisFits'
    PROVE  ColonyInv'
<1> USE DEF ColonyInv
<1> DEFINE base == IF l = s THEN 0 ELSE dynasty[l].living
<1>1. IsFiniteSet(Agents) /\ Cardinality(Agents) \in Nat /\ Nobody \notin Agents
    BY ColonyAssumption, FS_CardinalityType
<1>2. ASSUME NEW S, S \subseteq Agents
      PROVE  /\ IsFiniteSet(S) /\ Cardinality(S) \in Nat /\ Cardinality(S) <= Cardinality(Agents)
             /\ \A a \in Agents \ S : Cardinality(S \union {a}) = Cardinality(S) + 1
    BY <1>1, <1>2, FS_Subset, FS_CardinalityType, FS_AddElement
<1>3. agent[s].line = Nobody
    BY DEF AgentsFit
<1>4. \A a \in Agents : agent[a].line # s
    BY <1>1 DEF AgentsFit
<1>5. /\ Born(l) \subseteq Agents /\ Living(l) \subseteq Born(l) /\ s \notin Born(l)
      /\ Born(l)' = Born(l) \union {s} /\ Living(l)' = Living(l) \union {s}
    BY <1>1, <1>3 DEF Born, Living
<1>6. ASSUME NEW line \in Agents \ {l}
      PROVE  Born(line)' = Born(line) /\ Living(line)' = Living(line)
    BY <1>1, <1>3, <1>6 DEF Born, Living
<1>7. base \in Nat /\ base <= Cardinality(Born(l))
    <2>1. CASE l = s
        BY <1>2, <1>5, <2>1
    <2>2. CASE l # s
        <3>1. dynasty[l].living \in Nat /\ dynasty[l].living <= Cardinality(Born(l))
            BY <1>1 DEF ColonyTypes, DynastyRows, AgentsFit
        <3> QED
            BY <2>2, <3>1
    <2> QED
        BY <2>1, <2>2
<1>8. (\A a \in Risen : agent[a].line # l) => base = Cardinality(Living(l))
    <2>1. CASE l = s
        <3>1. Living(l) = {}
            BY <1>4, <2>1 DEF Living
        <3> QED
            BY <2>1, <3>1, FS_EmptySet
    <2>2. CASE l # s
        BY <2>2 DEF LivingCounted
    <2> QED
        BY <2>1, <2>2
<1>9. dynasty'[l].living = base + 1
    OBVIOUS
<1> HIDE DEF base
<1>10. dynasty'[l].living <= Cardinality(Born(l)')
    <2>1. Cardinality(Born(l)') = Cardinality(Born(l)) + 1 /\ Cardinality(Born(l)) \in Nat
        BY <1>2, <1>5
    <2> QED
        BY <1>7, <1>9, <2>1
<1>11. \A line \in Agents : dynasty'[line].living <= Cardinality(Born(line)')
    BY <1>6, <1>10 DEF AgentsFit
<1>12. dynasty' \in [Agents -> DynastyRows]
    <2>1. ASSUME NEW line \in Agents PROVE dynasty'[line].living \in 0 .. Cardinality(Agents)
        <3>1. Born(line)' \subseteq Agents
            BY DEF Born
        <3>2. Cardinality(Born(line)') \in Nat /\ Cardinality(Born(line)') <= Cardinality(Agents)
            BY <1>2, <3>1
        <3>3. dynasty'[line].living \in Nat
            OBVIOUS
        <3> QED
            BY <1>1, <1>11, <3>2, <3>3
    <2> QED
        BY <2>1 DEF DynastyRows
<1>13. ColonyTypes'
    <2>1. genesis' \in GenesisRows
        BY DEF GenesisFits
    <2> QED
        BY <1>12, <2>1 DEF ColonyTypes, GenesisRows, Steps, AgentRows
<1>14. AgentsFit'
    <2>1. \A a \in Agents : agent'[a].spec # Nobody => agent'[a].status # "none"
        BY DEF AgentsFit, NamesFit
    <2>2. \A a, b \in Agents : First(a)' /\ First(b)' /\ agent'[a].name = agent'[b].name => a = b
        BY DEF AgentsFit, NamesFit, First
    <2>3. \A a \in Agents : IF agent'[a].status = "none" THEN agent'[a].line = Nobody
                            ELSE agent'[a].line \in Agents /\ agent'[agent'[a].line].status # "none"
        BY <1>4 DEF AgentsFit
    <2>4. thinking' # Nobody => agent'[thinking'].status # "none"
        BY DEF AgentsFit, ColonyTypes
    <2> QED
        BY <1>11, <2>1, <2>2, <2>3, <2>4 DEF AgentsFit, NamesFit
<1>15. ASSUME NEW line \in Agents, \A a \in Risen' : agent'[a].line # line
       PROVE  dynasty'[line].living = Cardinality(Living(line)')
    <2>1. \A a \in Risen : agent[a].line # line
        BY <1>1, <1>3, <1>15 DEF Risen
    <2>2. CASE line = l
        <3>1. Cardinality(Living(l)') = Cardinality(Living(l)) + 1
            BY <1>2, <1>5
        <3> QED
            BY <1>8, <1>9, <2>1, <2>2, <3>1
    <2>3. CASE line # l
        BY <1>6, <2>1, <2>3 DEF LivingCounted
    <2> QED
        BY <2>2, <2>3
<1>16. LivingCounted'
    BY <1>15 DEF LivingCounted
<1>17. VerdictsAreCarriedOut'
    BY DEF VerdictsAreCarriedOut
<1> QED
    BY <1>13, <1>14, <1>16, <1>17

\* A slot is a row nobody has used.
LEMMA SlotIsFree ==
    ASSUME Slots # {}
    PROVE  Slot \in Agents /\ agent[Slot].status = "none"
<1>1. Slot \in Slots
    BY DEF Slot
<1> QED
    BY <1>1 DEF Slots

\* A founder is spawned under a name that nobody bears, dead or alive.
LEMMA SpawnStep == ASSUME ColonyInv, SpawnFounder PROVE ColonyInv'
<1> USE DEF ColonyInv
<1> DEFINE n == CHOOSE n \in genesis.todo : TRUE
           todo == genesis.todo \ {n}
           s == Slot
<1>1. /\ genesis.step = "spawn"
      /\ IF Existing(n) = {} /\ Slots # {}
         THEN /\ agent' = [agent EXCEPT ![s] = Founder(n, s)]
              /\ dynasty' = [dynasty EXCEPT ![s] = [living |-> 1, status |-> "active"]]
         ELSE UNCHANGED <<agent, dynasty>>
      /\ genesis' = IF LookupRaises(n) THEN Idle
                    ELSE IF todo # {} THEN [genesis EXCEPT !.todo = todo]
                    ELSE [genesis EXCEPT !.step = "orient", !.todo = Waves[genesis.wave]]
      /\ UNCHANGED <<verdict, graves, order, thinking, upsets, births>>
    BY DEF SpawnFounder
<1>2. /\ genesis \in GenesisRows /\ genesis.todo \subseteq Names /\ genesis.todo # {}
      /\ genesis.wave \in DOMAIN Waves /\ Waves[genesis.wave] \subseteq Names
    BY <1>1 DEF GenesisFits, Names
<1>3. n \in Names /\ todo \subseteq Names
    BY <1>2
<1> HIDE DEF n, todo
<1>4. ASSUME ~LookupRaises(n)
      PROVE
      /\ genesis' \in GenesisRows /\ genesis'.step \in {"spawn", "orient"}
      /\ genesis'.wave = genesis.wave /\ genesis'.todo \subseteq Names
      /\ genesis'.step = "spawn" => genesis'.todo # {}
      /\ genesis'.judged = genesis.judged /\ genesis'.dying = genesis.dying
    <2>1. CASE todo # {}
        <3>1. genesis' = [genesis EXCEPT !.todo = todo]
            BY <1>1, <1>4, <2>1
        <3> QED
            BY <1>1, <1>2, <1>3, <2>1, <3>1 DEF GenesisRows
    <2>2. CASE todo = {}
        <3>1. genesis' = [genesis EXCEPT !.step = "orient", !.todo = Waves[genesis.wave]]
            BY <1>1, <1>4, <2>2
        <3> QED
            BY <1>2, <3>1 DEF GenesisRows, Steps
    <2> QED
        BY <2>1, <2>2
<1>5. ASSUME \A a \in Agents : Alive(a) => agent'[a].status \notin {"none", "terminated"}
      PROVE  GenesisFits'
    <2>1. CASE LookupRaises(n)
        BY <1>1, <2>1, IdleFits, FreshFits
    <2>2. CASE ~LookupRaises(n)
        BY <1>2, <1>4, <1>5, <2>2 DEF GenesisFits, Alive
    <2> QED
        BY <2>1, <2>2
<1>6. CASE UNCHANGED <<agent, dynasty>>
    <2>1. GenesisFits'
        BY <1>5, <1>6 DEF Alive
    <2>2. upsets' \in 0 .. MaxUpsets
        BY <1>1 DEF ColonyTypes
    <2> QED
        BY <1>1, <1>6, <2>1, <2>2, GenesisOnly
<1>7. CASE Existing(n) = {} /\ Slots # {}
    <2> DEFINE row == Founder(n, s)
               book == [living |-> 1, status |-> "active"]
    <2>1. s \in Agents /\ agent[s].status = "none"
        BY <1>7, SlotIsFree
    <2>2. agent' = [agent EXCEPT ![s] = row] /\ dynasty' = [dynasty EXCEPT ![s] = book]
        BY <1>1, <1>7
    <2>3. /\ row \in AgentRows /\ row.status = "initializing" /\ row.name = n /\ row.line = s
        BY <1>3, <2>1 DEF Founder, Unborn, AgentRows
    <2>4. book.living = 1 /\ book.status = "active"
          /\ book \in [living : Nat, status : {"none", "active", "extinct"}]
        OBVIOUS
    <2> HIDE DEF row, book, s
    <2>5. agent \in [Agents -> AgentRows]
        BY DEF ColonyTypes, AgentRows
    <2>6. dynasty \in [Agents -> [living : Nat, status : {"none", "active", "extinct"}]]
        <3>1. 0 .. Cardinality(Agents) \subseteq Nat
            BY ColonyAssumption, FS_CardinalityType
        <3> QED
            BY <3>1 DEF ColonyTypes, DynastyRows
    <2>7. /\ agent' \in [Agents -> AgentRows] /\ agent'[s] = row
          /\ \A a \in Agents \ {s} : agent'[a] = agent[a]
        BY <2>1, <2>2, <2>3, <2>5
    <2>8. /\ dynasty' \in [Agents -> [living : Nat, status : {"none", "active", "extinct"}]]
          /\ dynasty'[s].living = 1
          /\ \A line \in Agents \ {s} : dynasty'[line] = dynasty[line]
        BY <2>1, <2>2, <2>4, <2>6
    <2>9. \A a \in Agents : ~(agent[a].spec # Nobody /\ agent[a].name = n)
        BY <1>3, <1>7, ColonyAssumption DEF Existing, Bearers
    <2>10. \A a \in Agents : Alive(a) => agent'[a].status \notin {"none", "terminated"}
        BY <2>1, <2>7 DEF Alive
    <2>11. GenesisFits'
        BY <1>5, <2>10
    <2>12. upsets' \in 0 .. MaxUpsets /\ births' \in 0 .. MaxBirths
        BY <1>1 DEF ColonyTypes
    <2>13. \A line \in Agents : dynasty'[line].status \in {"none", "active", "extinct"}
        BY <2>8
    <2>14. dynasty'[s].living = (IF s = s THEN 0 ELSE dynasty[s].living) + 1
        BY <2>8
    <2> QED
        BY <1>1, <2>1, <2>3, <2>7, <2>8, <2>9, <2>11, <2>12, <2>13, <2>14, BirthKeeps
<1> QED
    BY <1>1, <1>6, <1>7

\* A child takes its place in the dynasty of its parent, dead or alive.
LEMMA ReproduceStep == ASSUME ColonyInv, CheckAndReproduce PROVE ColonyInv'
<1> USE DEF ColonyInv
<1>1. /\ genesis' = Idle /\ UNCHANGED <<verdict, graves, order, thinking, upsets>>
      /\ \/ UNCHANGED <<agent, dynasty, births>>
         \/ \E parent \in EligibleCandidates, n \in Suggested : BuildOffspring(parent, n)
    BY DEF CheckAndReproduce
<1>2. GenesisFits'
    BY <1>1, IdleFits, FreshFits
<1>3. upsets' \in 0 .. MaxUpsets
    BY <1>1 DEF ColonyTypes
<1>4. CASE UNCHANGED <<agent, dynasty, births>>
    BY <1>1, <1>2, <1>3, <1>4, GenesisOnly
<1>5. ASSUME NEW parent \in EligibleCandidates, NEW n \in Suggested, BuildOffspring(parent, n)
      PROVE  ColonyInv'
    <2> DEFINE s == Slot
               l == agent[parent].line
               child == [Unborn EXCEPT !.status = "active", !.name = n, !.line = l]
               cooling == agent[parent].cooling \/ agent[parent].status = "active"
               old == [agent[parent] EXCEPT !.cooling = cooling]
               book == [dynasty[l] EXCEPT !.living = @ + 1]
    <2>1. /\ Slots # {} /\ births < MaxBirths /\ births' = births + 1
          /\ agent' = [agent EXCEPT ![s] = child,
                          ![parent].cooling = @ \/ agent[parent].status = "active"]
          /\ dynasty' = [dynasty EXCEPT ![l].living = @ + 1]
        BY <1>5 DEF BuildOffspring, RecordBirth
    <2>2. s \in Agents /\ agent[s].status = "none"
        BY <2>1, SlotIsFree
    <2>3. parent \in Agents /\ agent[parent].status # "none" /\ parent # s
        BY <2>2 DEF EligibleCandidates
    <2>4. l \in Agents /\ agent[l].status # "none" /\ l # s
        BY <2>2, <2>3 DEF AgentsFit
    <2>5. agent \in [Agents -> AgentRows]
        BY DEF ColonyTypes, AgentRows
    <2>6. dynasty \in [Agents -> [living : Nat, status : {"none", "active", "extinct"}]]
        <3>1. 0 .. Cardinality(Agents) \subseteq Nat
            BY ColonyAssumption, FS_CardinalityType
        <3> QED
            BY <3>1 DEF ColonyTypes, DynastyRows
    <2> HIDE DEF l, s
    <2>7. /\ child \in AgentRows /\ child.status = "active" /\ child.line = l /\ child.spec = Nobody
        BY <2>4, ColonyAssumption DEF Unborn, AgentRows
    <2>8. /\ old \in AgentRows /\ old.spec = agent[parent].spec /\ old.name = agent[parent].name
          /\ old.took = agent[parent].took
          /\ old.line = agent[parent].line /\ old.status = agent[parent].status
        <3>1. agent[parent] \in AgentRows /\ cooling \in BOOLEAN
            BY <2>3, <2>5 DEF AgentRows
        <3> HIDE DEF cooling
        <3> QED
            BY <3>1 DEF AgentRows
    <2>9. /\ book \in [living : Nat, status : {"none", "active", "extinct"}]
          /\ book.living = dynasty[l].living + 1
        BY <2>4, <2>6
    <2>10. agent' = [agent EXCEPT ![s] = child, ![parent] = old]
        BY <2>1, <2>2, <2>3, <2>5
    <2>11. dynasty' = [dynasty EXCEPT ![l] = book]
        BY <2>1, <2>4, <2>6
    <2> HIDE DEF child, old, book, cooling
    <2>12. /\ agent' \in [Agents -> AgentRows] /\ agent'[s] = child /\ agent'[parent] = old
           /\ \A a \in Agents \ {s, parent} : agent'[a] = agent[a]
        BY <2>2, <2>3, <2>5, <2>7, <2>8, <2>10
    <2>13. \A a \in Agents \ {s} : /\ agent'[a].spec = agent[a].spec /\ agent'[a].name = agent[a].name
                                   /\ agent'[a].took = agent[a].took /\ agent'[a].line = agent[a].line
                                   /\ agent'[a].status = agent[a].status
        BY <2>8, <2>12
    <2>14. /\ dynasty' \in [Agents -> [living : Nat, status : {"none", "active", "extinct"}]]
           /\ dynasty'[l].living = (IF l = s THEN 0 ELSE dynasty[l].living) + 1
           /\ \A line \in Agents \ {l} : dynasty'[line] = dynasty[line]
        BY <2>4, <2>6, <2>9, <2>11
    <2>15. \A line \in Agents : dynasty'[line].status \in {"none", "active", "extinct"}
        BY <2>14
    <2>16. births' \in 0 .. MaxBirths
        <3>1. births \in 0 .. MaxBirths /\ MaxBirths \in Nat
            BY ColonyAssumption DEF ColonyTypes
        <3> QED
            BY <2>1, <3>1
    <2> QED
        BY <1>1, <1>2, <1>3, <2>2, <2>4, <2>7, <2>12, <2>13, <2>14, <2>15, <2>16, BirthKeeps
<1> QED
    BY <1>1, <1>4, <1>5

\* The batch commits: verdicts, graves and the books of dynasties change together.
LEMMA CommitBatchStep == ASSUME ColonyInv, CommitBatch PROVE ColonyInv'
<1> USE DEF ColonyInv
<1>1. /\ agent' = [a \in Agents |-> Evaluated(a)]
      /\ dynasty' = [line \in Agents |-> RecordDeaths(line)]
      /\ verdict' = [a \in Agents |-> IF genesis.judged[a] = "none" THEN verdict[a]
                                      ELSE genesis.judged[a]]
      /\ graves' = [a \in Agents |-> Memorials(a)]
      /\ order' = order \ genesis.dying
      /\ genesis' = [Idle EXCEPT !.step = "allocate"]
      /\ UNCHANGED <<thinking, upsets, births>>
    BY DEF CommitBatch
<1>2. GenesisFits'
    <2>1. Fresh(genesis') /\ genesis'.step = "allocate"
        BY <1>1, IdleIsFresh DEF Steps
    <2> QED
        BY <2>1, FreshFits
<1>3. /\ genesis.judged \in [Agents -> Evaluations] /\ genesis.dying \subseteq Agents
      /\ \A a \in Agents : genesis.judged[a] # "none" => Alive(a)
      /\ \A a \in Agents : genesis.judged[a] = "terminated" <=> a \in genesis.dying
    BY DEF GenesisFits, GenesisRows
<1>4. /\ agent \in [Agents -> AgentRows] /\ verdict \in [Agents -> Evaluations]
      /\ dynasty \in [Agents -> DynastyRows]
      /\ \A a \in Agents : graves[a] \in 0 .. 2
    BY DEF ColonyTypes, AgentRows, Graves
<1>5. ASSUME NEW a \in Agents
      PROVE  /\ agent'[a] \in AgentRows /\ agent'[a].spec = agent[a].spec
             /\ agent'[a].name = agent[a].name /\ agent'[a].took = agent[a].took
             /\ agent'[a].line = agent[a].line
             /\ agent'[a].status = IF a \in genesis.dying THEN "terminated" ELSE agent[a].status
    <2>1. agent[a] \in AgentRows /\ agent'[a] = Evaluated(a)
        BY <1>1, <1>4
    <2>2. CASE a \in genesis.dying
        <3>1. agent'[a] = [agent[a] EXCEPT !.status = "terminated", !.seasoned = TRUE]
            BY <1>3, <2>1, <2>2 DEF Evaluated
        <3> QED
            BY <2>1, <2>2, <3>1 DEF AgentRows
    <2>3. CASE a \notin genesis.dying /\ genesis.judged[a] = "survived"
        <3>1. agent'[a] = [agent[a] EXCEPT !.clock = "running", !.seasoned = TRUE]
            BY <2>1, <2>3 DEF Evaluated
        <3> QED
            BY <2>1, <2>3, <3>1 DEF AgentRows
    <2>4. CASE a \notin genesis.dying /\ genesis.judged[a] = "probation"
        <3>1. agent'[a] = [agent[a] EXCEPT !.clock = "again", !.seasoned = TRUE]
            BY <2>1, <2>4 DEF Evaluated
        <3> QED
            BY <2>1, <2>4, <3>1 DEF AgentRows
    <2>5. CASE a \notin genesis.dying /\ genesis.judged[a] \notin {"survived", "probation"}
        <3>1. agent'[a] = agent[a]
            BY <2>1, <2>5 DEF Evaluated
        <3> QED
            BY <2>1, <2>5, <3>1
    <2> QED
        BY <2>2, <2>3, <2>4, <2>5
<1>6. ASSUME NEW a \in Agents
      PROVE  /\ graves'[a] \in 0 .. 2 /\ graves'[a] >= graves[a]
             /\ a \in genesis.dying => graves'[a] > 0 /\ (graves[a] > 0 => graves'[a] > 1)
    BY <1>1, <1>4 DEF Memorials
<1>7. ASSUME NEW a \in genesis.dying PROVE a \in Agents /\ Alive(a)
    BY <1>3, <1>7
<1>8. agent' \in [Agents -> AgentRows]
    BY <1>1, <1>5
<1>9. IsFiniteSet(Agents) /\ Cardinality(Agents) \in Nat
    BY ColonyAssumption, FS_CardinalityType
<1> DEFINE dead(line) == {a \in genesis.dying : agent[a].line = line}
<1>10. ASSUME NEW line \in Agents
       PROVE  /\ dynasty'[line] \in DynastyRows
              /\ dynasty'[line].living <= dynasty[line].living
              /\ dynasty[line].living = Cardinality(Living(line)) =>
                     dynasty'[line].living = Cardinality(Living(line)')
    <2> DEFINE d == Cardinality(dead(line))
               living == dynasty[line].living
               left == IF d > living THEN 0 ELSE living - d
               st == IF left = 0 THEN "extinct" ELSE dynasty[line].status
    <2>1. dead(line) \subseteq Living(line) /\ Living(line) \subseteq Agents
        BY <1>7 DEF Living, Alive
    <2>2. Living(line)' = Living(line) \ dead(line)
        BY <1>3, <1>5 DEF Living
    <2>3. /\ IsFiniteSet(Living(line)) /\ IsFiniteSet(dead(line))
          /\ Cardinality(Living(line)) \in Nat /\ d \in Nat /\ d <= Cardinality(Living(line))
        BY <1>9, <2>1, FS_Subset, FS_CardinalityType
    <2>4. Cardinality(Living(line)') = Cardinality(Living(line)) - d
        <3>1. Living(line) \intersect dead(line) = dead(line)
            BY <2>1
        <3> HIDE DEF dead
        <3> QED
            BY <2>2, <2>3, <3>1, FS_Difference
    <2>5. /\ dynasty[line] \in DynastyRows /\ living \in 0 .. Cardinality(Agents)
          /\ dynasty[line].status \in {"none", "active", "extinct"}
        BY <1>4 DEF DynastyRows
    <2>6. dynasty'[line] = IF d = 0 THEN dynasty[line] ELSE [living |-> left, status |-> st]
        BY <1>1 DEF RecordDeaths
    <2> HIDE DEF d, living
    <2>7. left \in 0 .. Cardinality(Agents) /\ left <= living
        BY <1>9, <2>3, <2>5
    <2>8. living = Cardinality(Living(line)) => left = Cardinality(Living(line)) - d
        BY <2>3, <2>5
    <2>9. st \in {"none", "active", "extinct"}
        BY <2>5
    <2> HIDE DEF left, st
    <2>10. CASE d = 0
        <3>1. dynasty'[line] = dynasty[line] /\ Cardinality(Living(line)') = Cardinality(Living(line))
            BY <2>3, <2>4, <2>6, <2>10
        <3> QED
            BY <1>9, <2>5, <3>1 DEF living
    <2>11. CASE d # 0
        <3>1. dynasty'[line] = [living |-> left, status |-> st]
            BY <2>6, <2>11
        <3>2. dynasty'[line] \in DynastyRows /\ dynasty'[line].living = left
            BY <2>7, <2>9, <3>1 DEF DynastyRows
        <3> QED
            BY <2>4, <2>7, <2>8, <3>2 DEF living
    <2> QED
        BY <2>10, <2>11
<1>11. dynasty' \in [Agents -> DynastyRows]
    BY <1>1, <1>10
<1>12. ColonyTypes'
    <2>1. genesis' \in GenesisRows
        BY <1>2 DEF GenesisFits
    <2>2. verdict' \in [Agents -> Evaluations]
        BY <1>1, <1>3, <1>4
    <2>3. graves' \in [Agents -> Graves]
        BY <1>1, <1>6 DEF Graves
    <2> QED
        BY <1>1, <1>8, <1>11, <2>1, <2>2, <2>3 DEF ColonyTypes, GenesisRows, Steps, AgentRows
<1>13. AgentsFit'
    <2>1. \A a \in Agents : agent'[a].status = "none" <=> agent[a].status = "none"
        BY <1>5, <1>7 DEF Alive
    <2>2. \A line \in Agents : Born(line)' = Born(line)
        BY <1>5 DEF Born
    <2>3. ASSUME NEW line \in Agents PROVE dynasty'[line].living <= Cardinality(Born(line)')
        <3>1. Born(line) \subseteq Agents
            BY DEF Born
        <3>2. Cardinality(Born(line)) \in Nat
            BY <1>9, <3>1, FS_Subset, FS_CardinalityType
        <3>3. dynasty[line].living <= Cardinality(Born(line)) /\ dynasty[line].living \in Int
            BY <1>4, <1>9 DEF AgentsFit, DynastyRows
        <3>4. dynasty'[line].living <= dynasty[line].living /\ dynasty'[line].living \in Int
            BY <1>9, <1>10 DEF DynastyRows
        <3> QED
            BY <2>2, <3>2, <3>3, <3>4
    <2>4. \A a \in Agents : agent'[a].spec # Nobody => agent'[a].status # "none"
        BY <1>5, <2>1 DEF AgentsFit, NamesFit
    <2>5. \A a, b \in Agents : First(a)' /\ First(b)' /\ agent'[a].name = agent'[b].name => a = b
        BY <1>5 DEF AgentsFit, NamesFit, First
    <2>6. \A a \in Agents : IF agent'[a].status = "none" THEN agent'[a].line = Nobody
                            ELSE agent'[a].line \in Agents /\ agent'[agent'[a].line].status # "none"
        BY <1>5, <2>1 DEF AgentsFit
    <2>7. thinking' # Nobody => agent'[thinking'].status # "none"
        BY <1>1, <2>1 DEF AgentsFit, ColonyTypes
    <2> QED
        BY <2>3, <2>4, <2>5, <2>6, <2>7 DEF AgentsFit, NamesFit
<1>14. ASSUME NEW a \in Risen PROVE a \in Risen' /\ agent'[a].line = agent[a].line
    <2>1. a \in Agents /\ graves[a] > (IF agent[a].status = "terminated" THEN 1 ELSE 0)
        BY <1>14 DEF Risen
    <2>2. graves[a] > 0
        BY <1>4, <2>1
    <2>3. graves'[a] > (IF agent'[a].status = "terminated" THEN 1 ELSE 0)
        BY <1>4, <1>5, <1>6, <2>1, <2>2
    <2> QED
        BY <1>5, <2>1, <2>3 DEF Risen
<1>15. LivingCounted'
    <2>1. ASSUME NEW line \in Agents, \A a \in Risen' : agent'[a].line # line
          PROVE  dynasty'[line].living = Cardinality(Living(line)')
        <3>1. \A a \in Risen : agent[a].line # line
            BY <1>14, <2>1
        <3> QED
            BY <1>10, <3>1 DEF LivingCounted
    <2> QED
        BY <2>1 DEF LivingCounted
<1>16. VerdictsAreCarriedOut'
    <2>1. ASSUME NEW a \in Agents, verdict'[a] = "terminated" PROVE graves'[a] > 0
        <3>1. a \in genesis.dying \/ verdict[a] = "terminated"
            BY <1>1, <1>3, <2>1
        <3>2. verdict[a] = "terminated" => graves[a] > 0
            BY DEF VerdictsAreCarriedOut
        <3> QED
            BY <1>4, <1>6, <3>1, <3>2
    <2>2. ASSUME NEW a \in Agents, agent'[a].status = "terminated" PROVE verdict'[a] = "terminated"
        <3>1. CASE a \in genesis.dying
            BY <1>1, <1>3, <3>1
        <3>2. CASE a \notin genesis.dying
            <4>1. agent[a].status = "terminated" /\ genesis.judged[a] = "none"
                BY <1>3, <1>5, <2>2, <3>2 DEF Alive
            <4> QED
                BY <1>1, <4>1 DEF VerdictsAreCarriedOut
        <3> QED
            BY <3>1, <3>2
    <2> QED
        BY <2>1, <2>2 DEF VerdictsAreCarriedOut
<1> QED
    BY <1>2, <1>12, <1>13, <1>15, <1>16

\* Every step of Genesis, of the agents and of the Warden keeps the invariant.
LEMMA ColonyStep == ASSUME ColonyInv, [ColonyNext]_colonyVars PROVE ColonyInv'
<1>1. CASE ColonyNext
    BY <1>1, BootStep, SpawnStep, OrientStep, BeginEvaluationsStep, DecisionStep, CommitBatchStep,
       GivenUpStep, ReproduceStep, OthersStep, ClockStep DEF ColonyNext, GenesisNext
<1>2. CASE UNCHANGED colonyVars
    <2>1. UNCHANGED <<agent, dynasty, verdict, graves, order, genesis, thinking, upsets, births>>
        BY <1>2 DEF colonyVars
    <2>2. GenesisFits' /\ upsets' \in 0 .. MaxUpsets
        BY <2>1 DEF ColonyInv, ColonyTypes, GenesisFits, Alive
    <2> QED
        BY <2>1, <2>2, GenesisOnly
<1> QED
    BY <1>1, <1>2

\* The colony keeps its inductive invariant, whatever fails, restarts or rises.
THEOREM ColonyInvariant == ColonySpec => []ColonyInv
<1>1. ColonyInit => ColonyInv
    BY ColonyStart
<1>2. ColonyInv /\ [ColonyNext]_colonyVars => ColonyInv'
    BY ColonyStep
<1> QED
    BY <1>1, <1>2, PTL DEF ColonySpec

\* The type invariant of the colony.
THEOREM ColonyTypesHold == ColonySpec => []ColonyTypes
<1>1. ColonyInv => ColonyTypes
    BY DEF ColonyInv
<1> QED
    BY <1>1, ColonyInvariant, PTL

\* However often the colony is booted and whoever founders name themselves after, one
\* founder at most bears a name without having taken it over from another.
THEOREM OneBearerEver == ColonySpec => []OneBearer
<1>1. ColonyInv => OneBearer
    <2> SUFFICES ASSUME ColonyInv, NEW n \in Names
                 PROVE  Cardinality({a \in Bearers(n) : ~agent[a].took}) <= 1
        BY DEF OneBearer
    <2> DEFINE S == {a \in Bearers(n) : ~agent[a].took}
    <2>1. \A a, b \in S : a = b
        BY DEF Bearers, First, ColonyInv, AgentsFit, NamesFit
    <2> HIDE DEF S
    <2>2. S = {} \/ \E a \in S : S = {a}
        BY <2>1
    <2>3. ASSUME S = {} PROVE Cardinality(S) <= 1
        BY <2>3, FS_EmptySet
    <2>4. ASSUME NEW a \in S, S = {a} PROVE Cardinality(S) <= 1
        <3>1. Cardinality(S) = 1
            BY <2>4, FS_Singleton
        <3> QED
            BY <3>1
    <2> QED
        BY <2>2, <2>3, <2>4 DEF S
<1> QED
    BY <1>1, ColonyInvariant, PTL

\* living_members is the number of living members of a dynasty nobody of which rose
\* from the dead.
THEOREM BooksOfDynasties == ColonySpec => []LivingCounted
<1>1. ColonyInv => LivingCounted
    BY DEF ColonyInv
<1> QED
    BY <1>1, ColonyInvariant, PTL

\* Nobody is sentenced without being buried, nor terminated without a sentence.
THEOREM VerdictsMatchDeaths == ColonySpec => []VerdictsAreCarriedOut
<1>1. ColonyInv => VerdictsAreCarriedOut
    BY DEF ColonyInv
<1> QED
    BY <1>1, ColonyInvariant, PTL

===============================================================================
