---------------------------------- MODULE Mind ----------------------------------
(***************************************************************************)
(* The inside of an agent's thinking cycle (ThinkingCycle.run): choose the *)
(* kind of cycle and the model, assemble the prompt, call the model,       *)
(* validate its answer and have it repaired once, act or reflect, record.  *)
(* AgentCycles has the cycle as one call and one charge; here are the      *)
(* calls and what an agent learns: what it studied, the changes of its     *)
(* genome, its tools.                                                      *)
(*                                                                         *)
(* A cycle is one transaction: what it writes is seen when it commits, and *)
(* an insert that violates a constraint spoils it although the handler     *)
(* catches the error.  Meanwhile Genesis evaluates the agent.              *)
(***************************************************************************)
EXTENDS Integers, Sequences, FiniteSets, FiniteSetsExt

CONSTANTS
    Role,             \* scout, strategist, critic or operator
    Roles,
    Models, Price,    \* Price[m]: what one answer of model m costs
    MaxRetries,       \* of a call
    RetryTax,         \* retry_tax_multiplier
    ReflectEvery, ReviewEvery,
    StudyCooldown,    \* reflections between two studies of one resource
    Textbooks, Entries,
    ToolNames, RunCost, SandboxCap,
    Scheduled,        \* tools the genome's tool_schedule names; no code writes one
    MaxChanges,       \* changes of the genome per evaluation period
    MaxCycles, MaxEvaluations    \* bounds

ASSUME MindAssumption ==
    /\ Models = {"haiku", "sonnet"} /\ Price \in [Models -> Nat \ {0}]
    /\ Roles = {"scout", "strategist", "critic", "operator"} /\ Role \in Roles
    /\ {MaxRetries, StudyCooldown, RunCost, SandboxCap, MaxChanges} \subseteq Nat
    /\ {MaxCycles, MaxEvaluations} \subseteq Nat
    /\ Scheduled \subseteq ToolNames /\ IsFiniteSet(Scheduled)
    /\ {RetryTax, ReflectEvery, ReviewEvery} \subseteq Nat \ {0}

VARIABLES
    count,            \* Agent.cycle_count
    period,           \* Agent.evaluation_count
    studies,          \* StudyHistory: resources with the cycle they were read in
    learned,          \* what only the agent's own cycles write
    cycle,            \* the cycle in progress
    intel,            \* rows about what agents claimed in the Agora
    changes,          \* changes of the genome since the last evaluation
    unpaid            \* a finished cycle was charged less than its calls cost

mindVars == <<count, period, studies, learned, cycle, intel, changes, unpaid>>

Resources == Textbooks \union Entries
Nothing == "nothing"
Answers == {"garbled", "misshapen", "foreign", "insane", "fit"}

StudyRows == Resources \X Nat

\* One mutations_applied entry per version of the genome, with its period.
GenomeTags == Seq(Nat)

\* What the runs of the day cost, up to the cap.
SandboxDay == 0..SandboxCap

Learned ==
    [reflected : BOOLEAN, tags : GenomeTags, tools : SUBSET ToolNames, sandbox : SandboxDay]

\* The tracking of an offer never names the message that made it.
IntelClaims == [message : {0}, outcome : {"none", "pending", "expired"}]

\* A challenge names a message that exists.
Challenges ==
    [target : {1}, outcome : {"none", "pending", "challenger_right", "challenger_wrong",
                              "inconclusive"}]

Resting == [pc |-> "rest"]

MindTypes ==
    /\ count \in 0..MaxCycles /\ period \in 0..MaxEvaluations
    /\ studies \subseteq StudyRows
    /\ learned \in Learned
    /\ intel \in [keyed : BOOLEAN, claim : IntelClaims, challenge : Challenges]
    /\ changes \in Nat /\ unpaid \in BOOLEAN

MindInit ==
    /\ count = 0 /\ period = 0 /\ studies = {}
    /\ learned = [reflected |-> FALSE, tags |-> <<>>,
                  tools |-> {}, sandbox |-> 0]
    \* keyed: the table was made by the models, with its foreign key, and not by
    \* the migration of an older database.
    /\ intel \in [keyed : BOOLEAN, claim : {[message |-> 0, outcome |-> "none"]},
                  challenge : {[target |-> 1, outcome |-> "none"]}]
    /\ cycle = Resting
    /\ changes = 0 /\ unpaid = FALSE

committed == <<count, studies, learned, intel, changes, unpaid>>

-------------------------------------------------------------------------------
(* Phase 0: the kind of the cycle and its model *)

IsReview(n) == n > 0 /\ n % ReviewEvery = 0
IsReflection(n) == n > 0 /\ n % ReflectEvery = 0 /\ ~IsReview(n)

\* A short budget renames every cycle but the reflection.
Kind(n, short) ==
    CASE IsReflection(n) -> "reflection"
      [] ~IsReflection(n) /\ short -> "survival"
      [] IsReview(n) /\ ~short -> "strategic_review"
      [] OTHER -> "normal"

\* select_model for an agent; routing may be switched off.
SelectModel(kind, pendingTrade, crisis, routed) ==
    IF \/ ~routed \/ crisis \/ kind = "retry"
       \/ Role = "operator" /\ pendingTrade
       \/ Role \in {"critic", "strategist"} /\ kind = "normal"
    THEN "sonnet" ELSE "haiku"

\* The agent's row is read once, here.
BeginThought ==
    /\ cycle.pc = "rest" /\ count < MaxCycles
    /\ \E short, pendingTrade, crisis, routed \in BOOLEAN :
        LET kind == Kind(count, short)
        IN cycle' = [pc |-> "observe", kind |-> kind, period |-> period,
                     model |-> SelectModel(kind, pendingTrade, crisis, routed),
                     attempt |-> 0, cost |-> 0, spent |-> 0, free |-> 0, repaired |-> FALSE,
                     answer |-> Nothing, study |-> {}, learned |-> learned,
                     changed |-> 0, posts |-> {}, spoiled |-> FALSE]
    /\ UNCHANGED <<committed, period>>

-------------------------------------------------------------------------------
(* Phase 1: the prompt.  A reflection comes with something to read. *)

ReadSince(r, n) == {s \in studies : s[1] = r /\ s[2] >= n}

OnCooldown(r) == ReadSince(r, count - StudyCooldown * ReflectEvery) # {}

\* The newest entry of the archive that mentions the weakness, if any does.
FindArchiveFallback == {Nothing} \union {r \in Entries : ~OnCooldown(r)}

\* The textbook for the weakest metric of the last scorecard, if there is a
\* scorecard, if the metric has a book and if its file can be found.
SelectForReflection == {r \in Textbooks : ~OnCooldown(r)} \union FindArchiveFallback

\* The study is recorded whether or not the text fits the prompt.
RecordStudy(r) == IF r = Nothing THEN {} ELSE {<<r, count>>}

\* The scheduled tools the agent has run before the call.  What they cost is
\* neither entered nor charged.
PreCompute == {runs * RunCost : runs \in 0..Cardinality(Scheduled \intersect learned.tools)}

\* Any part of the prompt may fail and is left out.
AssembleContext ==
    /\ cycle.pc = "observe"
    /\ \E r \in IF cycle.kind = "reflection" THEN SelectForReflection ELSE {Nothing} :
       \E free \in PreCompute :
        cycle' = [cycle EXCEPT !.pc = "call", !.study = RecordStudy(r), !.free = free]
    /\ UNCHANGED <<committed, period>>

-------------------------------------------------------------------------------
(* Phases 2 and 3: calls and validation *)

\* Rate limits, server errors and lost connections are tried again; any other
\* error, and the last attempt, end the call.
CallModel ==
    /\ cycle.pc = "call"
    /\ \/ \E answer \in Answers :
            cycle' = [cycle EXCEPT !.pc = "validate", !.answer = answer,
                                   !.cost = Price[cycle.model], !.spent = Price[cycle.model]]
       \/ /\ cycle.attempt < MaxRetries
          /\ cycle' = [cycle EXCEPT !.attempt = @ + 1]
       \/ cycle' = [cycle EXCEPT !.pc = "fail"]
    /\ UNCHANGED <<committed, period>>

\* A reflection is only checked for its shape.
Passed(kind, answer) ==
    answer \in IF kind = "reflection" THEN {"fit", "foreign", "insane"} ELSE {"fit"}

Retryable(answer) == answer \in {"garbled", "misshapen"}

Reflects == IsReview(count) \/ IsReflection(count)

Validate ==
    /\ cycle.pc = "validate"
    /\ cycle' = [cycle EXCEPT !.pc =
            CASE Passed(cycle.kind, cycle.answer) -> IF Reflects THEN "reflect" ELSE "act"
              [] Retryable(cycle.answer) /\ ~cycle.repaired -> "repair"
              [] OTHER -> "fail",
                              !.answer = Nothing]
    /\ UNCHANGED <<committed, period>>

\* Mutant: the repair replaces the cost instead of adding to it.
RepairedAtItsPrice(answer) ==
    [cycle EXCEPT !.pc = "validate", !.repaired = TRUE, !.answer = answer,
                  !.cost = Price["sonnet"], !.spent = @ + Price["sonnet"]]

\* The repair is charged more than once.
Repaired(answer) ==
    [cycle EXCEPT !.pc = "validate", !.repaired = TRUE, !.answer = answer,
                  !.cost = @ + RetryTax * Price["sonnet"], !.spent = @ + Price["sonnet"]]

\* One attempt.  If it fails the first verdict stands.
CallRepair ==
    /\ cycle.pc = "repair"
    /\ \/ \E answer \in Answers : cycle' = Repaired(answer)
       \/ cycle' = [cycle EXCEPT !.pc = "fail"]
    /\ UNCHANGED <<committed, period>>

-------------------------------------------------------------------------------
(* Phase 4, reflections and reviews: process_reflection *)

\* The row of the reflection; the memories it makes are in Bonds.  A
\* strategic review is answered like a normal cycle: its action is dropped.
ProcessReflection ==
    /\ cycle.pc = "reflect"
    /\ cycle' = [cycle EXCEPT !.pc = "record", !.learned.reflected = TRUE]
    /\ UNCHANGED <<committed, period>>

-------------------------------------------------------------------------------
(* Phase 4, the actions that change what the agent is *)

ChangesIn(tags, p) == Cardinality({i \in DOMAIN tags : tags[i] = p})

\* modify_genome: the entry of the version that is changed.
WithChange(tags, p) == Append(tags, p)

\* Mutant: one change more.
ModifyGenomeOnceMore ==
    /\ cycle.pc = "act"
    /\ ChangesIn(learned.tags, cycle.period) <= MaxChanges
    /\ cycle' = [cycle EXCEPT !.pc = "record", !.changed = 1,
                              !.learned.tags = WithChange(@, cycle.period)]
    /\ UNCHANGED <<committed, period>>

\* The cap is counted in the period the agent's row named when the cycle began.
ModifyGenome ==
    /\ cycle.pc = "act"
    /\ ChangesIn(learned.tags, cycle.period) < MaxChanges
    /\ cycle' = [cycle EXCEPT !.pc = "record", !.changed = 1,
                              !.learned.tags = WithChange(@, cycle.period)]
    /\ UNCHANGED <<committed, period>>

\* The script is scanned, compiled and run with a time limit; what did not run
\* costs nothing.
RunCosts == {0, RunCost}

\* The sum of the day; beyond the cap it makes no difference.
WithRun(sandbox, cost) == Min({SandboxCap, sandbox + cost})

\* Each run is entered for the daily cap and charged at once; a tool under a
\* name the agent has already spoils the cycle.
ExecuteAnalysis ==
    /\ cycle.pc = "act"
    /\ learned.sandbox < SandboxCap
    /\ \E cost \in RunCosts, saved \in SUBSET ToolNames :
        /\ Cardinality(saved) <= 1 /\ (saved # {} => cost > 0)
        /\ cycle' = [cycle EXCEPT !.pc = "record",
                        !.learned.sandbox = WithRun(@, cost),
                        !.learned.tools = @ \union saved,
                        !.cost = @ + cost, !.spent = @ + cost,
                        !.spoiled = saved \intersect learned.tools # {}]
    /\ UNCHANGED <<committed, period>>

\* A saved tool runs without a look at the cap.
RunTool ==
    /\ cycle.pc = "act"
    /\ learned.tools # {}
    /\ \E cost \in RunCosts :
        cycle' = [cycle EXCEPT !.pc = "record", !.learned.sandbox = WithRun(@, cost),
                               !.cost = @ + cost, !.spent = @ + cost]
    /\ UNCHANGED <<committed, period>>

\* The post is published; its id never reaches the tracking row, which then
\* names message 0.
OfferIntel ==
    /\ cycle.pc = "act"
    /\ cycle' = [cycle EXCEPT !.pc = "record", !.spoiled = intel.keyed,
                              !.posts = {"claim"}]
    /\ UNCHANGED <<committed, period>>

\* Any message that exists can be challenged.
PoisonIntel ==
    /\ cycle.pc = "act" /\ intel.challenge.outcome = "none"
    /\ cycle' = [cycle EXCEPT !.pc = "record", !.posts = {"challenge"}]
    /\ UNCHANGED <<committed, period>>

\* Any other action, and one that is refused.
ActOtherwise ==
    /\ cycle.pc = "act"
    /\ cycle' = [cycle EXCEPT !.pc = "record"]
    /\ UNCHANGED <<committed, period>>

-------------------------------------------------------------------------------
(* Phase 5 *)

\* The row of the cycle, the count and the charge.
UpdateAgentStats(charge) ==
    /\ count' = count + 1
    /\ unpaid' = (unpaid \/ charge < cycle.spent)

Recorded ==
    /\ UpdateAgentStats(cycle.cost)
    /\ studies' = studies \union cycle.study
    /\ learned' = cycle.learned
    /\ intel' = [intel EXCEPT
            !.claim.outcome = IF "claim" \in cycle.posts THEN "pending" ELSE @,
            !.challenge.outcome = IF "challenge" \in cycle.posts THEN "pending" ELSE @]
    /\ changes' = changes + cycle.changed
    /\ cycle' = Resting

RecordThought ==
    /\ cycle.pc = "record" /\ ~cycle.spoiled
    /\ Recorded
    /\ UNCHANGED <<period>>

\* A failed cycle keeps what the assembly wrote.
RecordFailed ==
    /\ cycle.pc = "fail"
    /\ Recorded
    /\ UNCHANGED <<period>>

\* The record of a spoiled cycle raises: everything is rolled back, the count
\* and the charge as well.
Spoil ==
    /\ cycle.pc = "record" /\ cycle.spoiled
    /\ cycle' = Resting
    /\ UNCHANGED <<committed, period>>

\* The process dies or the database fails.
AbortThought ==
    /\ cycle.pc # "rest"
    /\ cycle' = Resting
    /\ UNCHANGED <<committed, period>>

\* The cap is of a day.
NextDay ==
    /\ learned.sandbox > 0 /\ cycle.pc = "rest"
    /\ learned' = [learned EXCEPT !.sandbox = 0]
    /\ UNCHANGED <<count, period, studies, cycle, intel, changes, unpaid>>

-------------------------------------------------------------------------------
(* Genesis *)

EvaluateMind ==
    /\ period < MaxEvaluations
    /\ period' = period + 1
    /\ changes' = 0
    /\ UNCHANGED <<count, studies, learned, cycle, intel, unpaid>>

\* Without prices every claim is inconclusive.
SettlePendingIntel(claim) == IF claim.outcome = "pending" THEN [claim EXCEPT !.outcome = "expired"]
                             ELSE claim

\* A challenge waits for the outcome of the claim it is about, which it looks
\* up by message.
SettleChallenge(challenge, claim) ==
    IF challenge.outcome # "pending" \/ claim.message # challenge.target
       \/ claim.outcome \in {"none", "pending"} THEN challenge
    ELSE [challenge EXCEPT !.outcome =
            CASE claim.outcome = "confirmed_useless" -> "challenger_right"
              [] claim.outcome = "confirmed_useful" -> "challenger_wrong"
              [] OTHER -> "inconclusive"]

\* Two days later, in one session of a Genesis cycle.
SettleIntel ==
    /\ "pending" \in {intel.claim.outcome, intel.challenge.outcome}
    /\ LET claim == SettlePendingIntel(intel.claim)
       IN  intel' = [intel EXCEPT !.claim = claim, !.challenge = SettleChallenge(@, claim)]
    /\ UNCHANGED <<count, period, studies, learned, cycle, changes, unpaid>>

ActInMind ==
    \/ ModifyGenome \/ ExecuteAnalysis \/ RunTool \/ OfferIntel \/ PoisonIntel \/ ActOtherwise

Thinks ==
    \/ BeginThought \/ AssembleContext \/ CallModel \/ Validate \/ CallRepair
    \/ ProcessReflection \/ ActInMind \/ RecordThought \/ RecordFailed \/ Spoil

MindNext == Thinks \/ AbortThought \/ NextDay \/ EvaluateMind \/ SettleIntel

MindSpec == MindInit /\ [][MindNext]_mindVars

-------------------------------------------------------------------------------
(* Properties *)

\* A cycle that is recorded, whether it failed or not, whatever was retried or
\* repaired, is charged no less than its calls and the script it chose to run
\* cost.  Scheduled tools are not part of this.
PaidIsCharged == ~unpaid

\* "Tracks execution costs and adds them to agent thinking tax": whatever a
\* cycle had run in the sandbox is part of its charge.
ScriptsAreTaxed == cycle.pc = "record" => cycle.cost >= cycle.spent + cycle.free

\* The cap on changes of the genome is counted in a period read at the start of
\* the cycle: an evaluation in between lets through one change, not more.
OneLateChange == changes <= MaxChanges + 1

\* What the description of the action says: at most MaxChanges per evaluation.
ChangesCapped == changes <= MaxChanges

\* The handlers catch the errors of their inserts and report success: a caught
\* error does not cost the cycle.
CaughtErrorsAreHarmless == ~(cycle.pc = "record" /\ cycle.spoiled)

===============================================================================
