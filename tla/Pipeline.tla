------------------------------ MODULE Pipeline ------------------------------
(***************************************************************************)
(* What agents hand to each other and to themselves: opportunities of the  *)
(* scouts, plans of the strategists, verdicts of the critics, and the      *)
(* results of archive queries and tool consultations that wait in a table  *)
(* for the next cycle of the agent that asked.                             *)
(*                                                                         *)
(* The agents process runs one thinking cycle at a time: it assembles the  *)
(* context (three transactions for the waiting results), calls the model,  *)
(* acts.  The hourly maintenance of Genesis reads and writes the same      *)
(* tables meanwhile.  A commit may fail, either process may die, an agent  *)
(* may be terminated, frozen or put to sleep in the middle of its cycle.   *)
(*                                                                         *)
(* The model may name any opportunity or plan there is, not only those it  *)
(* was shown: the handlers look ids up and check no status.                *)
(***************************************************************************)
EXTENDS Integers, FiniteSets

CONSTANTS
    Agents,
    Type,           \* Type[a]: scout, strategist, critic or operator
    Opportunities, Plans,
    Results,        \* rows of archive_query_results and tool_consult_results
    Nobody,         \* no agent, no opportunity
    MaxAttempts,    \* MAX_ATTEMPTS and MAX_ATTEMPTS_ARCHIVE_QUERY, both 3
    PerCycle,       \* rows of a table that one cycle takes: archive 10, consult 5
    Verdicts,       \* approved, rejected, revision_requested
    MaxFailures     \* bound: failed commits and deaths of a process

ASSUME PipelineAssumption ==
    /\ Type \in [Agents -> {"scout", "strategist", "critic", "operator"}]
    /\ MaxAttempts \in Nat \ {0} /\ MaxFailures \in Nat
    /\ PerCycle \in [{"archive", "consult"} -> Nat]
    /\ \A t \in {"archive", "consult"} : PerCycle[t] > MaxAttempts
    /\ Verdicts \subseteq {"approved", "rejected", "revision_requested"}

VARIABLES
    opportunity, \* Opportunity.status; a new one past its expires_at is "lapsed"
    plan,        \* Plan: status, critic_agent_id and submitted_at
    result,      \* a row: which table, status, owner, attempt_count
    newer,       \* pairs of rows: the first was requested after the second
    age,         \* of a row: "new", "stale" (6 hours) or "old" (24 hours)
    shown,       \* prompts a row's text went into, counted up to 2
    cut,         \* rows marked delivered whose text reached no prompt
    cycle,       \* the thinking cycle in progress
    cleaning,    \* what the hourly maintenance has read
    away,        \* agents that get no turn: terminated, frozen, asleep, over budget
    failures

pipelineVars ==
    <<opportunity, plan, result, newer, age, shown, cut, cycle, cleaning, away, failures>>

NoCycle == [agent |-> Nobody, step |-> "idle", rows |-> {}]
NoCleaning == [step |-> "idle", opps |-> {}, stale |-> {}, old |-> {}]
NoPlan == [status |-> "none", critic |-> Nobody, submittedAt |-> Nobody]

PipelineTypes ==
    /\ opportunity \in [Opportunities -> {"none", "new", "lapsed", "converted", "expired"}]
    /\ plan \in [Plans -> [status : {"none", "draft", "submitted"} \union Verdicts,
                           critic : Agents \union {Nobody},
                           submittedAt : {Nobody}]]
    /\ result \in [Results -> [table : {"none", "archive", "consult"},
                               status : {"none", "pending", "delivered", "failed", "deleted"},
                               owner : Agents \union {Nobody},
                               attempts : 0 .. MaxAttempts]]
    /\ age \in [Results -> {"new", "stale", "old"}]
    /\ shown \in [Results -> 0 .. 2]
    /\ newer \subseteq Results \X Results
    /\ cut \subseteq Results /\ away \subseteq Agents
    /\ cycle.rows \subseteq Results
    /\ failures \in 0 .. MaxFailures

PipelineInit ==
    /\ opportunity = [o \in Opportunities |-> "none"]
    /\ plan = [p \in Plans |-> NoPlan]
    /\ result = [r \in Results |-> [table |-> "none", status |-> "none", owner |-> Nobody, attempts |-> 0]]
    /\ age = [r \in Results |-> "new"]
    /\ shown = [r \in Results |-> 0]
    /\ newer = {} /\ cut = {} /\ away \in SUBSET Agents
    /\ cycle = NoCycle /\ cleaning = NoCleaning
    /\ failures = 0

-----------------------------------------------------------------------------
(* Context assembly: the results that wait for the agent. *)

PendingOf(a) == {r \in Results : result[r].status = "pending" /\ result[r].owner = a}

(* A transaction that commits, or fails and leaves its rows as they were. *)
Commits(new) ==
    \/ result' = new /\ UNCHANGED failures
    \/ /\ failures < MaxFailures
       /\ failures' = failures + 1
       /\ UNCHANGED result

WithStatus(rows, s) ==
    [r \in Results |-> IF r \in rows /\ result[r].status # "deleted"
                       THEN [result[r] EXCEPT !.status = s] ELSE result[r]]

(* The pre-flip pass: what was tried too often is failed. *)
CapAttempts(a) == WithStatus({r \in PendingOf(a) : result[r].attempts >= MaxAttempts}, "failed")

Waiting(a, t) == {r \in PendingOf(a) : result[r].table = t /\ result[r].attempts < MaxAttempts}

(* The newest first, and no more than the table's limit.                      *)
Consumable(a) ==
    UNION {{r \in Waiting(a, t) : Cardinality({q \in Waiting(a, t) : <<q, r>> \in newer}) < PerCycle[t]} :
               t \in {"archive", "consult"}}

StartCycle(a) ==
    /\ cycle = NoCycle /\ a \notin away
    /\ Commits(CapAttempts(a))
    /\ cycle' = [agent |-> a, step |-> IF Consumable(a) = {} THEN "think" ELSE "consume", rows |-> {}]
    /\ UNCHANGED <<opportunity, plan, newer, age, shown, cut, cleaning, away>>

AttemptedRendered(rows, rendered) ==
    [r \in Results |-> IF r \in rendered THEN [result[r] EXCEPT !.attempts = @ + 1] ELSE result[r]]

(* The attempt is counted whether or not the row can be rendered. *)
Attempted(rows, rendered) ==
    [r \in Results |-> IF r \in rows THEN [result[r] EXCEPT !.attempts = @ + 1] ELSE result[r]]
ConsumeResults ==
    /\ cycle.step = "consume"
    /\ \E rendered \in SUBSET Consumable(cycle.agent) :
        /\ Commits(Attempted(Consumable(cycle.agent), rendered))
        /\ cycle' = IF failures' # failures \/ rendered = {}
                    THEN [cycle EXCEPT !.step = "think"]
                    ELSE [cycle EXCEPT !.step = "mark", !.rows = rendered]
    /\ UNCHANGED <<opportunity, plan, newer, age, shown, cut, cleaning, away>>

MarkOrShowAnyway ==
    /\ cycle.step = "mark"
    /\ Commits(WithStatus(cycle.rows, "delivered"))
    /\ cycle' = [cycle EXCEPT !.step = "think"]
    /\ UNCHANGED <<opportunity, plan, newer, age, shown, cut, cleaning, away>>

(* By id only: whatever became of the row since it was read. *)
MarkDelivered ==
    /\ cycle.step = "mark"
    /\ Commits(WithStatus(cycle.rows, "delivered"))
    /\ cycle' = [cycle EXCEPT !.step = "think", !.rows = IF failures' # failures THEN {} ELSE @]
    /\ UNCHANGED <<opportunity, plan, newer, age, shown, cut, cleaning, away>>

(* The prompt is trimmed from its end until it fits its budget. *)
CallModel ==
    /\ cycle.step = "think"
    /\ \E kept \in SUBSET cycle.rows :
        /\ shown' = [r \in Results |-> IF r \in kept /\ shown[r] < 2 THEN shown[r] + 1 ELSE shown[r]]
        /\ cut' = cut \union (cycle.rows \ kept)
    /\ cycle' = [cycle EXCEPT !.step = "act", !.rows = {}]
    /\ UNCHANGED <<opportunity, plan, result, newer, age, cleaning, away, failures>>

-----------------------------------------------------------------------------
(* One action, committed with the record of the cycle. *)

EndCycle == cycle' = NoCycle
Acting(t) == cycle.step = "act" /\ Type[cycle.agent] = t

BroadcastOpportunity(o) ==
    /\ Acting("scout") /\ opportunity[o] = "none"
    /\ opportunity' = [opportunity EXCEPT ![o] = "new"]
    /\ EndCycle
    /\ UNCHANGED <<plan, result, newer, age, shown, cut, cleaning, away, failures>>

(* submitted_at stays NULL; the opportunity is converted whatever its status. *)
ProposePlan(p, o) ==
    /\ Acting("strategist") /\ plan[p].status = "none"
    /\ plan' = [plan EXCEPT ![p].status = "submitted"]
    /\ IF o = Nobody THEN UNCHANGED opportunity
       ELSE /\ opportunity[o] # "none"
            /\ opportunity' = [opportunity EXCEPT ![o] = "converted"]
    /\ EndCycle
    /\ UNCHANGED <<result, newer, age, shown, cut, cleaning, away, failures>>

CriticVerdict(p, v) ==
    /\ Acting("critic") /\ plan[p].status # "none"
    /\ plan' = [plan EXCEPT ![p].status = v, ![p].critic = cycle.agent]
    /\ EndCycle
    /\ UNCHANGED <<opportunity, result, newer, age, shown, cut, cleaning, away, failures>>

Ask(r, table, s) ==
    /\ result[r].status = "none"
    /\ result' = [result EXCEPT ![r].table = table, ![r].status = s, ![r].owner = cycle.agent]
    /\ newer' = {e \in newer : r \notin {e[1], e[2]}}
                    \union {<<r, q>> : q \in Waiting(cycle.agent, table)}
    /\ EndCycle
    /\ UNCHANGED <<opportunity, plan, age, shown, cut, cleaning, away, failures>>

(* The query runs at once; only its result waits. *)
QueryArchive(r) ==
    /\ Acting("strategist") \/ Acting("critic")
    /\ \E s \in {"pending", "failed"} : Ask(r, "archive", s)

ConsultTool(r) == cycle.step = "act" /\ Ask(r, "consult", "pending")

(* A trade, a message, idleness, a failed call, an answer that does not       *)
(* validate, an aborted cycle: nothing of the pipeline changes.               *)
ActElsewhere ==
    /\ cycle.step = "act"
    /\ EndCycle
    /\ UNCHANGED <<opportunity, plan, result, newer, age, shown, cut, cleaning, away, failures>>

-----------------------------------------------------------------------------
(* The hourly maintenance, one transaction per task. *)

Stale == {o \in Opportunities : opportunity[o] = "lapsed"}

ExpireStaleOpportunities ==
    /\ cleaning = NoCleaning
    /\ cleaning' = [NoCleaning EXCEPT !.step = "expire", !.opps = Stale]
    /\ UNCHANGED <<opportunity, plan, result, newer, age, shown, cut, cycle, away, failures>>

Consults == {r \in Results : result[r].table = "consult"}

PruneConsultResults ==
    [step |-> "prune", opps |-> {},
     stale |-> {r \in Consults : result[r].status = "pending" /\ age[r] # "new"},
     old |-> {r \in Consults : result[r].status \in {"delivered", "failed"} /\ age[r] = "old"}]

(* A NULL submitted_at is older than nothing. *)
CleanupStalePlans ==
    [p \in Plans |->
        IF plan[p].status = "submitted" /\ plan[p].critic = Nobody /\ plan[p].submittedAt # Nobody
        THEN [plan[p] EXCEPT !.status = "draft"] ELSE plan[p]]

(* An absolute write: an opportunity converted meanwhile reads expired. The   *)
(* next tasks begin at once.                                                  *)
CommitExpired ==
    /\ cleaning.step = "expire"
    /\ opportunity' = [o \in Opportunities |-> IF o \in cleaning.opps THEN "expired" ELSE opportunity[o]]
    /\ plan' = CleanupStalePlans
    /\ cleaning' = PruneConsultResults
    /\ UNCHANGED <<result, newer, age, shown, cut, cycle, away, failures>>

CommitPruned ==
    /\ cleaning.step = "prune"
    /\ Commits([r \in Results |-> IF r \in cleaning.old THEN [result[r] EXCEPT !.status = "deleted"]
                                  ELSE WithStatus(cleaning.stale, "failed")[r]])
    /\ cleaning' = NoCleaning
    /\ UNCHANGED <<opportunity, plan, newer, age, shown, cut, cycle, away>>

-----------------------------------------------------------------------------
Lapse(o) ==
    /\ opportunity[o] = "new"
    /\ opportunity' = [opportunity EXCEPT ![o] = "lapsed"]
    /\ UNCHANGED <<plan, result, newer, age, shown, cut, cycle, cleaning, away, failures>>

Older(r) ==
    /\ result[r].table = "consult" /\ age[r] # "old"
    /\ age' = [age EXCEPT ![r] = IF @ = "new" THEN "stale" ELSE "old"]
    /\ UNCHANGED <<opportunity, plan, result, newer, shown, cut, cycle, cleaning, away, failures>>

(* A row that nobody will read again: its place is free for a new one.        *)
Forget(r) ==
    /\ result[r].status \in {"delivered", "failed", "deleted"}
    /\ r \notin cycle.rows \union cleaning.stale \union cleaning.old
    /\ result' = [result EXCEPT ![r] = [table |-> "none", status |-> "none", owner |-> Nobody, attempts |-> 0]]
    /\ newer' = {e \in newer : r \notin {e[1], e[2]}}
    /\ age' = [age EXCEPT ![r] = "new"]
    /\ shown' = [shown EXCEPT ![r] = 0]
    /\ cut' = cut \ {r}
    /\ UNCHANGED <<opportunity, plan, cycle, cleaning, away, failures>>

(* Terminated, frozen, hibernating, not oriented or without the budget for    *)
(* its next call: some of them come back, a terminated or frozen one does not.*)
Deactivate(a) ==
    /\ a \notin away
    /\ away' = away \union {a}
    /\ UNCHANGED <<opportunity, plan, result, newer, age, shown, cut, cycle, cleaning, failures>>

Activate(a) ==
    /\ a \in away
    /\ away' = away \ {a}
    /\ UNCHANGED <<opportunity, plan, result, newer, age, shown, cut, cycle, cleaning, failures>>

AgentsDie ==
    /\ failures < MaxFailures /\ cycle # NoCycle
    /\ failures' = failures + 1
    /\ cut' = IF cycle.step = "think" THEN cut \union cycle.rows ELSE cut
    /\ cycle' = NoCycle
    /\ UNCHANGED <<opportunity, plan, result, newer, age, shown, cleaning, away>>

GenesisDies ==
    /\ failures < MaxFailures /\ cleaning # NoCleaning
    /\ failures' = failures + 1
    /\ cleaning' = NoCleaning
    /\ UNCHANGED <<opportunity, plan, result, newer, age, shown, cut, cycle, away>>

Proceed == ConsumeResults \/ MarkDelivered \/ CallModel

Maintain == ExpireStaleOpportunities \/ CommitExpired \/ CommitPruned

Act ==
    \/ \E o \in Opportunities : BroadcastOpportunity(o)
    \/ \E p \in Plans, o \in Opportunities \union {Nobody} : ProposePlan(p, o)
    \/ \E p \in Plans, v \in Verdicts : CriticVerdict(p, v)
    \/ \E r \in Results : QueryArchive(r) \/ ConsultTool(r)
    \/ ActElsewhere

Passing == (\E o \in Opportunities : Lapse(o)) \/ (\E r \in Results : Older(r))

PipelineNext ==
    \/ \E a \in Agents : StartCycle(a) \/ Deactivate(a) \/ Activate(a)
    \/ \E r \in Results : Forget(r)
    \/ Proceed \/ Act \/ Maintain \/ Passing \/ AgentsDie \/ GenesisDies

(* The scheduler starts an agent again and again, unless the agent is away    *)
(* again and again or for good; a call returns; time passes for every row.    *)
PipelineFairness ==
    /\ \A a \in Agents : []<>(a \in away) \/ []<><<StartCycle(a)>>_pipelineVars
    /\ WF_pipelineVars(Proceed \/ Act)
    /\ WF_pipelineVars(Maintain)
    /\ \A r \in Results : WF_pipelineVars(Older(r))

PipelineSpec == PipelineInit /\ [][PipelineNext]_pipelineVars /\ PipelineFairness

-----------------------------------------------------------------------------
(* "used exactly once": a result goes into at most one prompt, and one that   *)
(* is marked delivered went into one, waits for it in the cycle that marked   *)
(* it, or was cut off on the way (trimmed, or the process died).              *)
ShownOnce ==
    \A r \in Results :
        /\ shown[r] < 2
        /\ result[r].status = "delivered" => shown[r] = 1 \/ r \in cut \/ r \in cycle.rows
        /\ result[r].status = "pending" => shown[r] = 0

(* No result waits for ever, rendered or not, whatever is requested after it, *)
(* except that of an archive query whose agent is away again and again or for *)
(* good: the maintenance prunes consultations only.                           *)
Stranded(r) == result[r].table = "archive" /\ result[r].owner \in away

ResultsSettle ==
    \A r \in Results :
        (result[r].status = "pending" ~> result[r].status # "pending") \/ []<>Stranded(r)

(* "Plans submitted > 24h ago with no critic action -> back to draft"         *)
(* (maintenance.py:143): a plan nobody reviews does not stay submitted.       *)
StalePlansReturn ==
    \A p \in Plans : plan[p].status = "submitted" ~> plan[p].status # "submitted"

=============================================================================
