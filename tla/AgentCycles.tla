------------------------------ MODULE AgentCycles ------------------------------
(***************************************************************************)
(* The thinking cycles of the agents.  Every ten seconds the agents        *)
(* process puts the agents that are due into a queue in Redis and then     *)
(* drains it, one OODA cycle at a time: gate on status and budget, think   *)
(* (an API call of seconds), act, record and charge.  Meanwhile Genesis    *)
(* terminates agents, wakes hibernating ones and resets the budgets once a *)
(* day, and the Warden freezes everyone.  Each process writes the rows it  *)
(* read some steps earlier.                                                *)
(*                                                                         *)
(* Only oriented agents are scheduled: the founders, who become active     *)
(* with their orientation.  Offspring are active without one.              *)
(*                                                                         *)
(* Time is counted in units of Floor, the shortest interval; ages stop at  *)
(* MaxAge.  Money is counted in cents.                                     *)
(***************************************************************************)
EXTENDS Integers, FiniteSetsExt

CONSTANTS
    Agents,
    Interval,           \* the base interval of each agent's role, 0 for critics
    Multipliers,        \* per cent, by market regime
    Floor, Cooldown,    \* min_cycle_interval_seconds, COOLDOWN_SECONDS
    WakeAfter,          \* the half hour after which a sleeper may be woken
    MaxAge,             \* bound: ages saturate here
    Budgets,            \* Budgets[a]: what a's thinking_budget_daily can be
    MinCost, MaxCost,   \* what the API calls of one cycle can cost, retry included
    ToolCost,           \* consult_tool_cost_usd
    MaxScript,          \* what a script can cost that runs to the sandbox's time limit
    LastWords,          \* LastWords[a]: what a's last words cost
    MaxFaults           \* bound: aborted cycles, restarts and outages of Redis

ASSUME CyclesAssumption ==
    /\ Interval \in [Agents -> Nat] /\ Multipliers \subseteq Nat
    /\ Floor \in Nat \ {0} /\ Cooldown \in Nat /\ WakeAfter \in Nat
    /\ MaxAge \in Nat /\ Cooldown <= MaxAge
    /\ \A a \in Agents, m \in Multipliers : (Interval[a] * m) \div 100 <= MaxAge
    /\ Budgets \in [Agents -> SUBSET (Nat \ {0})]
    /\ ToolCost \in Nat /\ MaxScript \in Nat /\ LastWords \in [Agents -> Nat]
    /\ MinCost \in Nat \ {0} /\ MaxCost \in Nat /\ MinCost <= MaxCost
    /\ MaxFaults \in Nat

VARIABLES
    status,             \* Agent.status
    oriented,           \* the agents with Agent.orientation_completed
    age,                \* time since Agent.last_cycle_at
    stamp,              \* time since agent:<id>:last_cycle_at in Redis
    used,               \* Agent.thinking_budget_used_today
    budget,             \* Agent.thinking_budget_daily
    redisUp,
    queue,              \* syndicate:cycle_queue in Redis
    runner,             \* the agents process
    genesis,            \* the Genesis process
    faults,
    late,               \* acts of an agent since it was last active
    limit               \* the highest budget since the last reset, and what Genesis
                        \* has charged since

vars == <<status, oriented, age, stamp, used, budget, redisUp, queue, runner, genesis,
          faults, late, limit>>
clock == <<age, stamp>>
money == <<used, budget, limit>>

Statuses == {"active", "hibernating", "frozen", "terminated"}

RunnerStates ==
    [pc : {"poll", "drain", "think", "act", "record"}, agent : Agents,
     cost : 0..(MaxCost + MaxScript)]

DailyBudgets ==
    {b \in [Agents -> UNION {Budgets[a] : a \in Agents}] : \A a \in Agents : b[a] \in Budgets[a]}

GenesisStates ==
    [pc : {"idle", "batch", "asleep", "wake"}, chosen : SUBSET Agents]

TypeOK ==
    /\ status \in [Agents -> Statuses] /\ oriented \subseteq Agents
    /\ age \in [Agents -> 0..MaxAge] /\ stamp \in [Agents -> 0..MaxAge]
    /\ used \in [Agents -> Nat]
    /\ budget \in DailyBudgets /\ limit \in [Agents -> Nat \ {0}]
    /\ redisUp \in BOOLEAN
    /\ queue \subseteq Agents
    /\ runner \in RunnerStates /\ genesis \in GenesisStates
    /\ faults \in 0..MaxFaults
    /\ late \in [Agents -> Nat]

Init ==
    /\ status \in [Agents -> {"active", "terminated"}] /\ oriented \in SUBSET Agents
    /\ age = [a \in Agents |-> MaxAge] /\ stamp = [a \in Agents |-> MaxAge]
    /\ used = [a \in Agents |-> 0]
    /\ budget \in DailyBudgets /\ limit = budget
    /\ redisUp = TRUE
    /\ queue = {}
    /\ runner \in [pc : {"poll"}, agent : Agents, cost : {0}]
    /\ genesis = [pc |-> "idle", chosen |-> {}]
    /\ faults = 0
    /\ late = [a \in Agents |-> 0]

-------------------------------------------------------------------------------
(* The scheduler: schedule_all_active and schedule_cycle *)

Fault == faults < MaxFaults /\ faults' = faults + 1

\* Mutant: the interval of the role as it is.
CycleIntervalUnadjusted(a, multiplier) == Interval[a]

\* get_adjusted_interval for the regime the database has now: the floor holds
\* for critics, too, and gives them a timer.
CycleInterval(a, multiplier) == Max({(Interval[a] * multiplier) \div 100, Floor})

\* Mutant: the cooldown is not enforced.
DueWithoutCooldown(a, multiplier) ==
    status[a] = "active" /\ a \in oriented /\ stamp[a] >= CycleInterval(a, multiplier)

\* The timer trusts Redis, the cooldown the database; an interval of 0 means on
\* demand only.
Due(a, multiplier) ==
    /\ status[a] = "active" /\ a \in oriented
    /\ CycleInterval(a, multiplier) > 0
    /\ stamp[a] >= CycleInterval(a, multiplier)
    /\ age[a] >= Cooldown

\* While Redis is down the timers read the database and what is enqueued goes
\* to a list of this scheduler object that get_next does not look at.
ScheduleAllActive ==
    /\ runner.pc = "poll"
    /\ \E multiplier \in [Agents -> Multipliers] :
        queue' = IF redisUp THEN queue \union {a \in Agents : Due(a, multiplier[a])}
                 ELSE queue
    /\ runner' = [runner EXCEPT !.pc = "drain"]
    /\ UNCHANGED <<status, oriented, clock, money, redisUp, genesis, faults, late>>

\* get_next finds nothing: sleep until the next poll.
EndDrain ==
    /\ runner.pc = "drain"
    /\ queue = {} \/ ~redisUp
    /\ runner' = [runner EXCEPT !.pc = "poll"]
    /\ UNCHANGED <<status, oriented, clock, money, redisUp, queue, genesis, faults, late>>

\* All entries have the priority of the timer.
GetNext(a) ==
    /\ runner.pc = "drain" /\ redisUp
    /\ a \in queue
    /\ queue' = queue \ {a}

-------------------------------------------------------------------------------
(* One thinking cycle *)

\* Mutant: the gate only asks whether anything is left.
MayThinkOnAnyRest(a, estimate) == status[a] = "active" /\ budget[a] - used[a] >= 0

\* Phase 0: the agent is still active and can pay the estimate.
MayThink(a, estimate) == status[a] = "active" /\ budget[a] - used[a] >= estimate

\* The estimate is a mean of earlier costs.
StartCycle ==
    \E a \in Agents, estimate \in MinCost..MaxCost :
        /\ GetNext(a)
        /\ runner' = [pc |-> IF MayThink(a, estimate) THEN "think" ELSE "drain",
                      agent |-> a, cost |-> 0]
        /\ UNCHANGED <<status, oriented, clock, money, redisUp, genesis, faults, late>>

\* Phases 1 to 3.  A failed call costs nothing, a rejected answer its price and
\* both end in a failed cycle; an accepted answer is acted on.
Think ==
    /\ runner.pc = "think"
    /\ \/ runner' = [runner EXCEPT !.pc = "record"]
       \/ \E cost \in MinCost..MaxCost, pc \in {"act", "record"} :
            runner' = [runner EXCEPT !.pc = pc, !.cost = cost]
    /\ UNCHANGED <<status, oriented, clock, money, redisUp, queue, genesis, faults, late>>

\* An act of the agent counts as late if the agent is no longer active.
Acted ==
    late' = [late EXCEPT ![runner.agent] =
                IF status[runner.agent] = "active" THEN 0 ELSE @ + 1]

\* Phase 4, every action but one.  A consulted tool is charged in a transaction
\* of its own, an analysis or a tool of the agent's own with the record.
Act ==
    /\ runner.pc = "act"
    /\ \/ /\ \E tool \in {0, ToolCost} : used' = [used EXCEPT ![runner.agent] = @ + tool]
          /\ runner' = [runner EXCEPT !.pc = "record"]
       \/ /\ \E script \in 0..MaxScript :
                runner' = [runner EXCEPT !.pc = "record", !.cost = @ + script]
          /\ UNCHANGED used
    /\ Acted
    /\ UNCHANGED <<status, oriented, clock, budget, redisUp, queue, genesis, faults, limit>>

\* The charge is an increment in SQL.
Charge == used' = [used EXCEPT ![runner.agent] = @ + runner.cost]

\* A cycle was recorded now.
Restarted(ages, a) == [ages EXCEPT ![a] = 0]

\* Phase 5: the row is charged and dated, the stamp follows if Redis answers.
Record ==
    /\ Charge
    /\ age' = Restarted(age, runner.agent)
    /\ stamp' = IF redisUp THEN Restarted(stamp, runner.agent) ELSE stamp
    /\ runner' = [runner EXCEPT !.pc = "drain", !.cost = 0]

\* Mutant: a cycle whose record fails repeats its action first.
RecordOrRepeat ==
    /\ runner.pc = "record"
    /\ \/ Record
       \/ runner' = [runner EXCEPT !.pc = "act"] /\ UNCHANGED <<clock, used>>
    /\ UNCHANGED <<status, oriented, budget, redisUp, queue, genesis, faults, late, limit>>

RecordCycle ==
    /\ runner.pc = "record"
    /\ Record
    /\ UNCHANGED <<status, oriented, budget, redisUp, queue, genesis, faults, late, limit>>

\* The action strategic_hibernate: the status is written with the record, over
\* whatever the row holds by then.
Hibernate ==
    /\ runner.pc = "act"
    /\ status' = [status EXCEPT ![runner.agent] = "hibernating"]
    /\ Record
    /\ Acted
    /\ UNCHANGED <<oriented, budget, redisUp, queue, genesis, faults, limit>>

\* The cycle raises or the process dies.  The rest of the queue stays in Redis;
\* the stamp may have been set already.
AbortCycle ==
    /\ runner.pc # "poll" /\ Fault
    /\ \/ UNCHANGED stamp
       \/ runner.pc = "record" /\ redisUp /\ stamp' = Restarted(stamp, runner.agent)
    /\ runner' = [runner EXCEPT !.pc = "poll", !.cost = 0]
    /\ UNCHANGED <<status, oriented, age, money, redisUp, queue, genesis, late>>

-------------------------------------------------------------------------------
(* Genesis: one cycle of its main loop, as far as agents' rows are concerned *)

\* Probation lowers a budget, a first or second rank raises it.
Rebudgeted ==
    /\ budget' \in DailyBudgets
    /\ \A a \in Agents : a \in genesis.chosen \/ status[a] = "terminated" => budget'[a] = budget[a]
    /\ limit' = [a \in Agents |-> IF budget'[a] > limit[a] THEN budget'[a] ELSE limit[a]]

\* _run_evaluations of a batch that condemns nobody, or of an empty one.
EvaluateWithoutVictims ==
    /\ genesis.pc = "idle"
    /\ Rebudgeted
    /\ genesis' = [genesis EXCEPT !.pc = "asleep"]
    /\ UNCHANGED <<status, oriented, clock, used, redisUp, queue, runner, faults, late>>

\* _run_evaluations reads the active agents and condemns some of them.  What
\* their last words cost is charged to them at once, whatever becomes of the
\* batch.
BeginEvaluations ==
    /\ genesis.pc = "idle"
    /\ \E condemned \in SUBSET {a \in Agents : status[a] = "active"} \ {{}} :
       \E speakers \in SUBSET condemned :
        LET Spoken(sums) == [a \in Agents |-> IF a \in speakers THEN sums[a] + LastWords[a]
                                              ELSE sums[a]]
        IN  /\ genesis' = [pc |-> "batch", chosen |-> condemned]
            /\ used' = Spoken(used) /\ limit' = Spoken(limit)
    /\ UNCHANGED <<status, oriented, clock, budget, redisUp, queue, runner, faults, late>>

CommitEvaluations ==
    /\ genesis.pc = "batch"
    /\ status' = [a \in Agents |-> IF a \in genesis.chosen THEN "terminated" ELSE status[a]]
    /\ Rebudgeted
    /\ genesis' = [pc |-> "asleep", chosen |-> {}]
    /\ UNCHANGED <<oriented, clock, used, redisUp, queue, runner, faults, late>>

\* Mutant: nobody is woken before the half hour.
ToWakeRested(known) ==
    {{a \in Agents : status[a] = "hibernating" /\ known /\ age[a] >= WakeAfter}}

\* Who is woken: the long asleep, in a known regime; if nobody is active and
\* nobody wakes, up to three of the rest.
ToWake(known) ==
    LET asleep == {a \in Agents : status[a] = "hibernating"}
        rested == {a \in asleep : known /\ age[a] >= WakeAfter}
    IN  IF rested # {} \/ \E a \in Agents : status[a] = "active" THEN {rested}
        ELSE IF Cardinality(asleep) <= 3 THEN {asleep} ELSE kSubset(3, asleep)

CheckHibernation ==
    /\ genesis.pc = "asleep"
    /\ \E known \in BOOLEAN : \E woken \in ToWake(known) :
        genesis' = [pc |-> IF woken = {} THEN "idle" ELSE "wake", chosen |-> woken]
    /\ UNCHANGED <<status, oriented, clock, money, redisUp, queue, runner, faults, late>>

CommitWake ==
    /\ genesis.pc = "wake"
    /\ status' = [a \in Agents |-> IF a \in genesis.chosen THEN "active" ELSE status[a]]
    /\ late' = [a \in Agents |-> IF a \in genesis.chosen THEN 0 ELSE late[a]]
    /\ genesis' = [pc |-> "idle", chosen |-> {}]
    /\ UNCHANGED <<oriented, clock, money, redisUp, queue, runner, faults>>

\* The budgets of active agents are reset at the first hourly maintenance of
\* a day, and at the first of this process.  Days are not counted here.
HourlyMaintenance ==
    /\ genesis.pc = "idle"
    /\ used' = [a \in Agents |-> IF status[a] = "active" THEN 0 ELSE used[a]]
    /\ limit' = [a \in Agents |-> IF status[a] = "active" THEN budget[a] ELSE limit[a]]
    /\ UNCHANGED <<status, oriented, clock, budget, redisUp, queue, runner, genesis, faults, late>>

RestartGenesis ==
    /\ Fault
    /\ genesis' = [pc |-> "idle", chosen |-> {}]
    /\ UNCHANGED <<status, oriented, clock, money, redisUp, queue, runner, late>>

-------------------------------------------------------------------------------
(* The rest of the world *)

\* A red alert: the Warden freezes whoever is active.
FreezeAllAgents ==
    /\ status' = [a \in Agents |-> IF status[a] = "active" THEN "frozen" ELSE status[a]]
    /\ UNCHANGED <<oriented, clock, money, redisUp, queue, runner, genesis, faults, late>>

Older(ages) == [a \in Agents |-> IF ages[a] < MaxAge THEN ages[a] + 1 ELSE MaxAge]

Tick ==
    /\ age' = Older(age) /\ stamp' = Older(stamp)
    /\ UNCHANGED <<status, oriented, money, redisUp, queue, runner, genesis, faults, late>>

RedisDown ==
    /\ redisUp /\ Fault
    /\ redisUp' = FALSE
    /\ UNCHANGED <<status, oriented, clock, money, queue, runner, genesis, late>>

RedisUp ==
    /\ ~redisUp
    /\ redisUp' = TRUE
    /\ UNCHANGED <<status, oriented, clock, money, queue, runner, genesis, faults, late>>

-------------------------------------------------------------------------------

Runner ==
    \/ ScheduleAllActive \/ EndDrain \/ StartCycle
    \/ Think \/ Act \/ RecordCycle \/ Hibernate

Genesis ==
    \/ EvaluateWithoutVictims \/ BeginEvaluations \/ CommitEvaluations
    \/ CheckHibernation \/ CommitWake

Next ==
    \/ Runner \/ AbortCycle
    \/ Genesis \/ HourlyMaintenance \/ RestartGenesis
    \/ FreezeAllAgents \/ Tick \/ RedisDown \/ RedisUp

\* Both processes loop for ever, time passes and an outage of Redis ends.
Fairness == WF_vars(Runner) /\ WF_vars(Genesis) /\ WF_vars(Tick) /\ WF_vars(RedisUp)

Spec == Init /\ [][Next]_vars /\ Fairness

-------------------------------------------------------------------------------
(* Properties *)

\* COOLDOWN_SECONDS separates the cycles of an agent although an entry of the
\* queue may be older than an aborted drain or a restart, and although the
\* timer and the cooldown read different clocks.
CooldownKept == runner.pc = "think" => age[runner.agent] >= Cooldown

\* The budget of a day can be overrun by one cycle and the one tool or script it
\* ran, never by two: the gate and the charge are an API call apart, evaluations
\* change the budget in between, and a day's reset may fall into the cycle.
OverrunBounded ==
    \A a \in Agents : \E run \in {ToolCost, MaxScript} : used[a] < limit[a] + MaxCost + run

\* An agent that was frozen, put to sleep or terminated acts at most once more.
OneLateAct == \A a \in Agents : status[a] # "active" => late[a] <= 1

\* The queue gives this agent its turn; the gate may still send it away.
Turn(a) == StartCycle /\ runner'.agent = a

\* Every oriented agent that stays active gets its turn again and again,
\* whatever is aborted.
AgentsThink ==
    \A a \in Agents : []<>(a \notin oriented \/ status[a] # "active") \/ []<><<Turn(a)>>_vars

\* "Schedule cycles for all active agents": also for the offspring, which are
\* active from their birth and never oriented.
ActiveAgentsThink ==
    \A a \in Agents : []<>(status[a] # "active") \/ []<><<Turn(a)>>_vars

\* A colony in which everybody sleeps is woken.
ColonyWakes ==
    LET Asleep == \E a \in Agents : status[a] = "hibernating"
        Awake == \E a \in Agents : status[a] = "active"
    IN  (Asleep /\ ~Awake) ~> (Awake \/ ~Asleep)

\* "permanently terminated": no step brings a dead agent back.
DeadStayDead ==
    [][\A a \in Agents : status[a] = "terminated" => status'[a] = "terminated"]_vars

===============================================================================
