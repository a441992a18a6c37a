-------------------------- MODULE AgentCyclesProofs --------------------------
(***************************************************************************)
(* Proofs about the agents' cycles, for any values of the constants.       *)
(*   - AgentCycles: its types, the cooldown, the overrun of a budget and   *)
(*     the acts of agents that are no longer active.                       *)
(*   - Mind, the inside of a cycle: its types, that what is spent is       *)
(*     charged, and the one change of the genome that may come late.       *)
(* The two share no state.                                                 *)
(***************************************************************************)
EXTENDS AgentCycles, Mind, FiniteSetTheorems, TLAPS

-------------------------------------------------------------------------------
(* AgentCycles *)

Busy == runner.pc \in {"think", "act", "record"}

\* Nobody is queued before the cooldown is over, and the agent whose cycle
\* will be dated is not in the queue.
QueueCooled ==
    /\ \A a \in queue : age[a] >= Cooldown
    /\ runner.pc = "think" => age[runner.agent] >= Cooldown
    /\ Busy => runner.agent \notin queue

\* What the agent can still be charged in this cycle.
ChargeBounded ==
    /\ OverrunBounded
    /\ \A a \in Agents : budget[a] <= limit[a]
    /\ runner.pc \in {"think", "act"} => used[runner.agent] < limit[runner.agent]
    /\ runner.pc \in {"think", "act"} => runner.cost <= MaxCost
    /\ runner.pc = "record" =>
            \E run \in {ToolCost, MaxScript} :
                used[runner.agent] + runner.cost < limit[runner.agent] + MaxCost + run

\* An agent that has acted late is not in the middle of a cycle.
LateActsOver ==
    \A a \in Agents :
        /\ status[a] = "active" => late[a] = 0
        /\ late[a] <= 1
        /\ late[a] = 1 => ~(runner.pc \in {"think", "act"} /\ runner.agent = a)

\* The inductive invariant: none of the three properties is inductive without
\* what its conjunct says of the cycle in progress.
CyclesInv == TypeOK /\ QueueCooled /\ ChargeBounded /\ LateActsOver

-------------------------------------------------------------------------------
(* Lemmas *)

\* Only agents are woken.
LEMMA ToWakeTypes ==
    ASSUME NEW known \in BOOLEAN, NEW woken \in ToWake(known)
    PROVE  woken \subseteq Agents
BY DEF ToWake, kSubset

\* Time does not make an age smaller, nor larger than its bound.
LEMMA OlderTypes ==
    ASSUME NEW ages \in [Agents -> 0..MaxAge]
    PROVE  /\ Older(ages) \in [Agents -> 0..MaxAge]
           /\ \A a \in Agents : Older(ages)[a] >= ages[a]
BY CyclesAssumption DEF Older

\* A budget is a positive number.
LEMMA DailyTypes ==
    ASSUME NEW b \in DailyBudgets
    PROVE  b \in [Agents -> Nat \ {0}]
BY CyclesAssumption DEF DailyBudgets

\* New budgets keep their types and stay within the limits, which only rise.
LEMMA RebudgetedKeeps ==
    ASSUME TypeOK, ChargeBounded, Rebudgeted
    PROVE  /\ budget' \in DailyBudgets
           /\ limit' \in [Agents -> Nat \ {0}]
           /\ \A a \in Agents : budget'[a] <= limit'[a] /\ limit[a] <= limit'[a]
<1>1. budget' \in DailyBudgets /\ budget' \in [Agents -> Nat \ {0}]
    BY DailyTypes DEF Rebudgeted
<1>2. limit \in [Agents -> Nat \ {0}]
    BY DEF TypeOK
<1>3. limit' = [a \in Agents |-> IF budget'[a] > limit[a] THEN budget'[a] ELSE limit[a]]
    BY DEF Rebudgeted
<1>4. limit' \in [Agents -> Nat \ {0}]
    BY <1>1, <1>2, <1>3
<1>5. \A a \in Agents : budget'[a] <= limit'[a] /\ limit[a] <= limit'[a]
    BY <1>1, <1>2, <1>3
<1> QED
    BY <1>1, <1>4, <1>5

\* Higher limits bound what lower ones did.
LEMMA HigherLimits ==
    ASSUME TypeOK, ChargeBounded, UNCHANGED <<used, runner>>,
           limit' \in [Agents -> Nat \ {0}],
           \A a \in Agents : budget'[a] <= limit'[a] /\ limit[a] <= limit'[a]
    PROVE  ChargeBounded'
<1>1. used \in [Agents -> Nat] /\ limit \in [Agents -> Nat \ {0}] /\ runner.agent \in Agents
      /\ runner.cost \in Nat
    BY CyclesAssumption DEF TypeOK, RunnerStates
<1>2. OverrunBounded'
    BY <1>1, CyclesAssumption DEF ChargeBounded, OverrunBounded
<1> QED
    BY <1>1, <1>2, CyclesAssumption DEF ChargeBounded

\* The record charges and dates the running agent and leaves its cycle.
LEMMA RecordKeeps ==
    ASSUME TypeOK, QueueCooled, ChargeBounded, LateActsOver,
           runner.pc \in {"act", "record"}, Record, UNCHANGED <<queue, budget, limit>>
    PROVE  /\ used' \in [Agents -> Nat]
           /\ age' \in [Agents -> 0..MaxAge] /\ stamp' \in [Agents -> 0..MaxAge]
           /\ runner' \in RunnerStates /\ runner'.pc = "drain"
           /\ runner'.agent = runner.agent
           /\ QueueCooled' /\ ChargeBounded'
<1> DEFINE r == runner.agent
<1>1. /\ r \in Agents /\ runner.cost \in Nat
      /\ used \in [Agents -> Nat] /\ limit \in [Agents -> Nat \ {0}]
      /\ age \in [Agents -> 0..MaxAge] /\ stamp \in [Agents -> 0..MaxAge]
    BY CyclesAssumption DEF TypeOK, RunnerStates
<1>2. /\ used' = [used EXCEPT ![r] = used[r] + runner.cost]
      /\ age' = [age EXCEPT ![r] = 0]
      /\ stamp' \in {stamp, [stamp EXCEPT ![r] = 0]}
      /\ runner' = [runner EXCEPT !.pc = "drain", !.cost = 0]
    BY DEF Record, Charge, Restarted
<1>3. /\ runner' \in RunnerStates /\ runner'.pc = "drain" /\ runner'.agent = r
    <2>1. runner' = [pc |-> "drain", agent |-> r, cost |-> 0]
        BY <1>2 DEF TypeOK, RunnerStates
    <2>2. 0 \in 0..(MaxCost + MaxScript)
        BY CyclesAssumption
    <2> QED
        BY <1>1, <2>1, <2>2 DEF RunnerStates
<1>4. /\ used' \in [Agents -> Nat]
      /\ age' \in [Agents -> 0..MaxAge] /\ stamp' \in [Agents -> 0..MaxAge]
    BY <1>1, <1>2, CyclesAssumption
<1>5. QueueCooled'
    <2>1. queue \subseteq Agents /\ r \notin queue
        BY DEF TypeOK, QueueCooled, Busy
    <2> QED
        BY <1>1, <1>2, <1>3, <2>1 DEF QueueCooled, Busy
<1>6. ChargeBounded'
    <2>1. \E run \in {ToolCost, MaxScript} : used[r] + runner.cost < limit[r] + MaxCost + run
        BY <1>1, CyclesAssumption DEF ChargeBounded
    <2> QED
        BY <1>1, <1>2, <1>3, <2>1 DEF ChargeBounded, OverrunBounded
<1> QED
    BY <1>3, <1>4, <1>5, <1>6

\* Fresh rows: nobody was charged or queued.
LEMMA InitCycles == Init => CyclesInv
<1> SUFFICES ASSUME Init PROVE CyclesInv
    OBVIOUS
<1>0. budget \in DailyBudgets /\ budget \in [Agents -> Nat \ {0}] /\ limit = budget
    BY DailyTypes DEF Init
<1>1. TypeOK
    <2>1. status \in [Agents -> Statuses] /\ oriented \subseteq Agents /\ runner \in RunnerStates
        BY CyclesAssumption DEF Init, Statuses, RunnerStates
    <2> QED
        BY <1>0, <2>1, CyclesAssumption DEF Init, TypeOK, GenesisStates
<1>2. QueueCooled
    BY DEF Init, QueueCooled, Busy
<1>3. ChargeBounded
    BY <1>0, CyclesAssumption DEF Init, ChargeBounded, OverrunBounded
<1>4. LateActsOver
    BY DEF Init, LateActsOver
<1> QED
    BY <1>1, <1>2, <1>3, <1>4 DEF CyclesInv

\* Every step of the processes, and of time, keeps the invariant.
LEMMA StepCycles == CyclesInv /\ [Next]_vars => CyclesInv'
<1> SUFFICES ASSUME TypeOK, QueueCooled, ChargeBounded, LateActsOver, [Next]_vars
             PROVE  CyclesInv'
    BY DEF CyclesInv
<1> USE DEF clock, money
<1>1. CASE ScheduleAllActive
    <2> USE <1>1 DEF ScheduleAllActive
    <2>1. TypeOK'
        BY CyclesAssumption DEF TypeOK, RunnerStates, GenesisStates, Statuses
    <2>2. QueueCooled'
        BY DEF TypeOK, QueueCooled, Busy, Due
    <2>3. ChargeBounded'
        BY CyclesAssumption DEF TypeOK, ChargeBounded, OverrunBounded
    <2>4. LateActsOver'
        BY DEF TypeOK, LateActsOver
    <2> QED
        BY <2>1, <2>2, <2>3, <2>4 DEF CyclesInv
<1>2. CASE EndDrain
    <2> USE <1>2 DEF EndDrain
    <2>1. TypeOK'
        BY CyclesAssumption DEF TypeOK, RunnerStates, GenesisStates, Statuses
    <2>2. QueueCooled'
        BY DEF TypeOK, QueueCooled, Busy
    <2>3. ChargeBounded'
        BY CyclesAssumption DEF TypeOK, ChargeBounded, OverrunBounded
    <2>4. LateActsOver'
        BY DEF TypeOK, LateActsOver
    <2> QED
        BY <2>1, <2>2, <2>3, <2>4 DEF CyclesInv
<1>3. CASE StartCycle
    <2>1. PICK a \in Agents, estimate \in MinCost..MaxCost :
            /\ a \in queue /\ queue' = queue \ {a}
            /\ runner' = [pc |-> IF MayThink(a, estimate) THEN "think" ELSE "drain",
                          agent |-> a, cost |-> 0]
        BY <1>3 DEF StartCycle, GetNext
    <2>2. UNCHANGED <<status, oriented, age, stamp, used, budget, redisUp, genesis, faults, late, limit>>
        BY <1>3 DEF StartCycle
    <2>3. /\ runner' \in RunnerStates /\ runner'.agent = a
          /\ runner'.pc \in {"think", "drain"}
          /\ runner'.pc = "think" => status[a] = "active" /\ budget[a] - used[a] >= estimate
          /\ runner'.cost = 0
        BY <2>1, CyclesAssumption DEF RunnerStates, MayThink
    <2>4. TypeOK'
        BY <2>1, <2>2, <2>3 DEF TypeOK
    <2>5. QueueCooled'
        BY <2>1, <2>2, <2>3 DEF QueueCooled, Busy
    <2>6. ChargeBounded'
        <3>1. /\ budget[a] \in Nat /\ used[a] \in Nat /\ limit[a] \in Nat /\ budget[a] <= limit[a]
              /\ estimate \in Nat \ {0}
            BY DailyTypes, CyclesAssumption DEF TypeOK, ChargeBounded
        <3>2. runner'.pc = "think" => used[a] < limit[a]
            BY <2>3, <3>1
        <3> QED
            BY <2>2, <2>3, <3>2, CyclesAssumption DEF ChargeBounded, OverrunBounded
    <2>7. LateActsOver'
        BY <2>2, <2>3 DEF TypeOK, LateActsOver
    <2> QED
        BY <2>4, <2>5, <2>6, <2>7 DEF CyclesInv
<1>4. CASE Think
    <2>1. runner.pc = "think" /\ runner \in RunnerStates /\ runner.agent \in Agents
        BY <1>4 DEF Think, TypeOK, RunnerStates
    <2>2. UNCHANGED <<status, oriented, age, stamp, used, budget, redisUp, queue, genesis, faults, late,
                      limit>>
        BY <1>4 DEF Think
    <2>3. /\ runner' \in RunnerStates /\ runner'.agent = runner.agent
          /\ runner'.pc \in {"act", "record"} /\ runner'.cost \in 0..MaxCost
        <3>1. /\ MinCost..MaxCost \subseteq 0..MaxCost
              /\ 0..MaxCost \subseteq 0..(MaxCost + MaxScript)
              /\ runner.cost \in 0..MaxCost
            BY <2>1, CyclesAssumption DEF RunnerStates, ChargeBounded
        <3>2. CASE runner' = [runner EXCEPT !.pc = "record"]
            BY <2>1, <3>1, <3>2 DEF RunnerStates
        <3>3. ASSUME NEW cost \in MinCost..MaxCost, NEW pc \in {"act", "record"},
                     runner' = [runner EXCEPT !.pc = pc, !.cost = cost]
              PROVE  /\ runner' \in RunnerStates /\ runner'.agent = runner.agent
                     /\ runner'.pc \in {"act", "record"} /\ runner'.cost \in 0..MaxCost
            <4>1. cost \in 0..MaxCost
                BY <3>1
            <4> QED
                BY <2>1, <3>1, <3>3, <4>1 DEF RunnerStates
        <3> QED
            BY <1>4, <3>2, <3>3 DEF Think
    <2>4. TypeOK'
        BY <2>2, <2>3 DEF TypeOK
    <2>5. QueueCooled'
        BY <2>1, <2>2, <2>3 DEF QueueCooled, Busy
    <2>6. ChargeBounded'
        BY <2>1, <2>2, <2>3, CyclesAssumption DEF TypeOK, ChargeBounded, OverrunBounded
    <2>7. LateActsOver'
        BY <2>1, <2>2, <2>3 DEF LateActsOver
    <2> QED
        BY <2>4, <2>5, <2>6, <2>7 DEF CyclesInv
<1>5. CASE Act
    <2>1. /\ runner.pc = "act" /\ runner \in RunnerStates /\ runner.agent \in Agents
          /\ runner.cost \in 0..MaxCost
          /\ used \in [Agents -> Nat] /\ limit \in [Agents -> Nat \ {0}]
        <3>1. runner.pc = "act" /\ runner \in RunnerStates
            BY <1>5 DEF Act, TypeOK
        <3>2. runner.cost \in Nat /\ runner.cost <= MaxCost
            BY <3>1, CyclesAssumption DEF RunnerStates, ChargeBounded
        <3> QED
            BY <3>1, <3>2, CyclesAssumption DEF TypeOK, RunnerStates
    <2>2. UNCHANGED <<status, oriented, age, stamp, budget, redisUp, queue, genesis, faults, limit>>
        BY <1>5 DEF Act
    <2>3. /\ runner' \in RunnerStates /\ runner'.agent = runner.agent /\ runner'.pc = "record"
          /\ used' \in [Agents -> Nat]
          /\ \A a \in Agents : a # runner.agent => used'[a] = used[a]
          /\ \E run \in {ToolCost, MaxScript} :
                used'[runner.agent] + runner'.cost <= used[runner.agent] + MaxCost + run
          /\ \E run \in {ToolCost, MaxScript} :
                used'[runner.agent] <= used[runner.agent] + run
        <3>1. CASE /\ \E tool \in {0, ToolCost} : used' = [used EXCEPT ![runner.agent] = @ + tool]
                   /\ runner' = [runner EXCEPT !.pc = "record"]
            BY <2>1, <3>1, CyclesAssumption DEF RunnerStates
        <3>2. CASE /\ \E script \in 0..MaxScript :
                        runner' = [runner EXCEPT !.pc = "record", !.cost = @ + script]
                   /\ UNCHANGED used
            <4>1. PICK script \in 0..MaxScript :
                    runner' = [runner EXCEPT !.pc = "record", !.cost = @ + script]
                BY <3>2
            <4>2. /\ runner.cost + script \in 0..(MaxCost + MaxScript)
                  /\ runner.cost + script <= MaxCost + MaxScript
                BY <2>1, CyclesAssumption
            <4>3. /\ runner' \in RunnerStates /\ runner'.agent = runner.agent
                  /\ runner'.pc = "record" /\ runner'.cost = runner.cost + script
                BY <2>1, <4>1, <4>2 DEF RunnerStates
            <4>4. used' = used /\ used[runner.agent] \in Nat /\ MaxScript \in Nat /\ MaxCost \in Nat
                BY <2>1, <3>2, CyclesAssumption
            <4>5. /\ used'[runner.agent] + runner'.cost <= used[runner.agent] + MaxCost + MaxScript
                  /\ used'[runner.agent] <= used[runner.agent] + MaxScript
                BY <2>1, <4>2, <4>3, <4>4
            <4> QED
                BY <2>1, <4>3, <4>4, <4>5
        <3> QED
            BY <1>5, <3>1, <3>2 DEF Act
    <2>4. /\ late' \in [Agents -> Nat]
          /\ \A a \in Agents : a # runner.agent => late'[a] = late[a]
          /\ late'[runner.agent] = IF status[runner.agent] = "active" THEN 0
                                  ELSE late[runner.agent] + 1
        <3>1. Acted
            BY <1>5 DEF Act
        <3> QED
            BY <2>1, <3>1 DEF Acted, TypeOK
    <2>5. TypeOK'
        BY <2>2, <2>3, <2>4 DEF TypeOK
    <2>6. QueueCooled'
        BY <2>1, <2>2, <2>3 DEF QueueCooled, Busy
    <2>7. ChargeBounded'
        BY <2>1, <2>2, <2>3, CyclesAssumption DEF RunnerStates, ChargeBounded, OverrunBounded
    <2>8. LateActsOver'
        BY <2>1, <2>2, <2>3, <2>4 DEF TypeOK, LateActsOver
    <2> QED
        BY <2>5, <2>6, <2>7, <2>8 DEF CyclesInv
<1>6. CASE RecordCycle
    <2> USE <1>6 DEF RecordCycle
    <2>1. TypeOK'
        BY RecordKeeps DEF TypeOK
    <2>2. QueueCooled'
        BY RecordKeeps
    <2>3. ChargeBounded'
        BY RecordKeeps
    <2>4. LateActsOver'
        BY RecordKeeps DEF LateActsOver
    <2> QED
        BY <2>1, <2>2, <2>3, <2>4 DEF CyclesInv
<1>7. CASE Hibernate
    <2> USE <1>7 DEF Hibernate
    <2>1. TypeOK'
        BY RecordKeeps DEF TypeOK, RunnerStates, Statuses, Acted
    <2>2. QueueCooled'
        BY RecordKeeps DEF TypeOK, RunnerStates
    <2>3. ChargeBounded'
        BY RecordKeeps DEF TypeOK, RunnerStates
    <2>4. LateActsOver'
        BY RecordKeeps DEF TypeOK, RunnerStates, LateActsOver, Acted
    <2> QED
        BY <2>1, <2>2, <2>3, <2>4 DEF CyclesInv
<1>8. CASE AbortCycle
    <2> USE <1>8 DEF AbortCycle
    <2>1. TypeOK'
        <3>1. 0 \in 0..(MaxCost + MaxScript) /\ 0 \in 0..MaxAge
            BY CyclesAssumption
        <3>2. runner' \in RunnerStates /\ runner.agent \in Agents
            BY <3>1 DEF TypeOK, RunnerStates
        <3>3. stamp' \in [Agents -> 0..MaxAge]
            BY <3>1, <3>2 DEF TypeOK, Restarted
        <3>4. faults' \in 0..MaxFaults
            BY CyclesAssumption DEF TypeOK, Fault
        <3> QED
            BY <3>2, <3>3, <3>4 DEF TypeOK
    <2>2. QueueCooled'
        BY DEF TypeOK, QueueCooled, Busy
    <2>3. ChargeBounded'
        BY CyclesAssumption DEF TypeOK, ChargeBounded, OverrunBounded
    <2>4. LateActsOver'
        BY DEF TypeOK, LateActsOver
    <2> QED
        BY <2>1, <2>2, <2>3, <2>4 DEF CyclesInv
<1>9. CASE BeginEvaluations
    <2>1. PICK condemned \in SUBSET Agents, speakers \in SUBSET Agents :
            /\ genesis' = [pc |-> "batch", chosen |-> condemned]
            /\ used' = [a \in Agents |-> IF a \in speakers THEN used[a] + LastWords[a] ELSE used[a]]
            /\ limit' = [a \in Agents |-> IF a \in speakers THEN limit[a] + LastWords[a]
                                          ELSE limit[a]]
        <3>1. PICK condemned \in SUBSET {a \in Agents : status[a] = "active"} \ {{}} :
              \E speakers \in SUBSET condemned :
                /\ genesis' = [pc |-> "batch", chosen |-> condemned]
                /\ used' = [a \in Agents |-> IF a \in speakers THEN used[a] + LastWords[a]
                                            ELSE used[a]]
                /\ limit' = [a \in Agents |-> IF a \in speakers THEN limit[a] + LastWords[a]
                                              ELSE limit[a]]
            BY <1>9 DEF BeginEvaluations
        <3>2. condemned \in SUBSET Agents /\ SUBSET condemned \subseteq SUBSET Agents
            OBVIOUS
        <3> QED
            BY <3>1, <3>2
    <2>2. UNCHANGED <<status, oriented, age, stamp, budget, redisUp, queue, runner, faults, late>>
        BY <1>9 DEF BeginEvaluations
    <2>3. /\ used \in [Agents -> Nat] /\ limit \in [Agents -> Nat \ {0}]
          /\ budget \in [Agents -> Nat \ {0}] /\ LastWords \in [Agents -> Nat]
          /\ runner.agent \in Agents /\ runner.cost \in Nat
        BY DailyTypes, CyclesAssumption DEF TypeOK, RunnerStates
    <2>4. /\ used' \in [Agents -> Nat] /\ limit' \in [Agents -> Nat \ {0}]
          /\ \A a \in Agents : /\ used'[a] - limit'[a] = used[a] - limit[a]
                               /\ limit[a] <= limit'[a]
        BY <2>1, <2>3
    <2>5. TypeOK'
        BY <2>1, <2>2, <2>4 DEF TypeOK, GenesisStates
    <2>6. QueueCooled'
        BY <2>2 DEF TypeOK, QueueCooled, Busy
    <2>7. ChargeBounded'
        <3>1. OverrunBounded'
            BY <2>3, <2>4, CyclesAssumption DEF ChargeBounded, OverrunBounded
        <3>2. \A a \in Agents : budget[a] <= limit'[a]
            BY <2>3, <2>4 DEF ChargeBounded
        <3>3. runner.pc = "record" =>
                \E run \in {ToolCost, MaxScript} :
                    used'[runner.agent] + runner.cost < limit'[runner.agent] + MaxCost + run
            BY <2>3, <2>4, CyclesAssumption DEF ChargeBounded
        <3>4. runner.pc \in {"think", "act"} => used'[runner.agent] < limit'[runner.agent]
            BY <2>3, <2>4 DEF ChargeBounded
        <3> QED
            BY <2>2, <3>1, <3>2, <3>3, <3>4 DEF ChargeBounded
    <2>8. LateActsOver'
        BY <2>2 DEF TypeOK, LateActsOver
    <2> QED
        BY <2>5, <2>6, <2>7, <2>8 DEF CyclesInv
<1>10. CASE EvaluateWithoutVictims \/ CommitEvaluations
    <2>1. Rebudgeted /\ UNCHANGED <<oriented, age, stamp, used, redisUp, queue, runner, faults, late>>
        BY <1>10 DEF EvaluateWithoutVictims, CommitEvaluations
    <2>2. /\ status' \in [Agents -> Statuses]
          /\ \A a \in Agents : status'[a] = "active" => status[a] = "active"
        BY <1>10 DEF EvaluateWithoutVictims, CommitEvaluations, TypeOK, Statuses
    <2>3. genesis' \in GenesisStates
        BY <1>10 DEF EvaluateWithoutVictims, CommitEvaluations, TypeOK, GenesisStates
    <2>4. TypeOK'
        BY <2>1, <2>2, <2>3, RebudgetedKeeps DEF TypeOK
    <2>5. QueueCooled'
        BY <2>1 DEF TypeOK, QueueCooled, Busy
    <2>6. ChargeBounded'
        BY <2>1, RebudgetedKeeps, HigherLimits
    <2>7. LateActsOver'
        BY <2>1, <2>2 DEF TypeOK, LateActsOver
    <2> QED
        BY <2>4, <2>5, <2>6, <2>7 DEF CyclesInv
<1>11. CASE CheckHibernation
    <2> USE <1>11 DEF CheckHibernation
    <2>1. TypeOK'
        BY ToWakeTypes DEF TypeOK, RunnerStates, GenesisStates, Statuses
    <2>2. QueueCooled'
        BY DEF TypeOK, QueueCooled, Busy
    <2>3. ChargeBounded'
        BY CyclesAssumption DEF TypeOK, ChargeBounded, OverrunBounded
    <2>4. LateActsOver'
        BY DEF TypeOK, LateActsOver
    <2> QED
        BY <2>1, <2>2, <2>3, <2>4 DEF CyclesInv
<1>12. CASE CommitWake
    <2> USE <1>12 DEF CommitWake
    <2>1. TypeOK'
        BY CyclesAssumption DEF TypeOK, RunnerStates, GenesisStates, Statuses
    <2>2. QueueCooled'
        BY DEF TypeOK, QueueCooled, Busy
    <2>3. ChargeBounded'
        BY CyclesAssumption DEF TypeOK, ChargeBounded, OverrunBounded
    <2>4. LateActsOver'
        BY DEF TypeOK, LateActsOver
    <2> QED
        BY <2>1, <2>2, <2>3, <2>4 DEF CyclesInv
<1>13. CASE HourlyMaintenance
    <2> USE <1>13 DEF HourlyMaintenance
    <2>1. budget \in [Agents -> Nat \ {0}]
        BY DailyTypes DEF TypeOK
    <2>2. TypeOK'
        BY <2>1 DEF TypeOK, RunnerStates, GenesisStates, Statuses
    <2>3. QueueCooled'
        BY DEF TypeOK, QueueCooled, Busy
    <2>4. ChargeBounded'
        BY <2>1, CyclesAssumption DEF TypeOK, ChargeBounded, OverrunBounded, RunnerStates
    <2>5. LateActsOver'
        BY DEF TypeOK, LateActsOver
    <2> QED
        BY <2>2, <2>3, <2>4, <2>5 DEF CyclesInv
<1>14. CASE RestartGenesis
    <2> USE <1>14 DEF RestartGenesis
    <2>1. TypeOK'
        BY CyclesAssumption DEF TypeOK, RunnerStates, GenesisStates, Statuses, Fault
    <2>2. QueueCooled'
        BY DEF TypeOK, QueueCooled, Busy
    <2>3. ChargeBounded'
        BY CyclesAssumption DEF TypeOK, ChargeBounded, OverrunBounded
    <2>4. LateActsOver'
        BY DEF TypeOK, LateActsOver
    <2> QED
        BY <2>1, <2>2, <2>3, <2>4 DEF CyclesInv
<1>15. CASE FreezeAllAgents
    <2> USE <1>15 DEF FreezeAllAgents
    <2>1. TypeOK'
        BY CyclesAssumption DEF TypeOK, RunnerStates, GenesisStates, Statuses
    <2>2. QueueCooled'
        BY DEF TypeOK, QueueCooled, Busy
    <2>3. ChargeBounded'
        BY CyclesAssumption DEF TypeOK, ChargeBounded, OverrunBounded
    <2>4. LateActsOver'
        BY DEF TypeOK, LateActsOver
    <2> QED
        BY <2>1, <2>2, <2>3, <2>4 DEF CyclesInv
<1>16. CASE Tick
    <2> USE <1>16 DEF Tick
    <2>1. TypeOK'
        BY OlderTypes DEF TypeOK
    <2>2. QueueCooled'
        BY OlderTypes, CyclesAssumption DEF TypeOK, QueueCooled, Busy, RunnerStates
    <2>3. ChargeBounded'
        BY CyclesAssumption DEF TypeOK, ChargeBounded, OverrunBounded
    <2>4. LateActsOver'
        BY DEF TypeOK, LateActsOver
    <2> QED
        BY <2>1, <2>2, <2>3, <2>4 DEF CyclesInv
<1>17. CASE RedisDown
    <2> USE <1>17 DEF RedisDown
    <2>1. TypeOK'
        <3>1. faults' \in 0..MaxFaults
            BY CyclesAssumption DEF TypeOK, Fault
        <3> QED
            BY <3>1 DEF TypeOK
    <2>2. QueueCooled'
        BY DEF TypeOK, QueueCooled, Busy
    <2>3. ChargeBounded'
        BY CyclesAssumption DEF TypeOK, ChargeBounded, OverrunBounded
    <2>4. LateActsOver'
        BY DEF TypeOK, LateActsOver
    <2> QED
        BY <2>1, <2>2, <2>3, <2>4 DEF CyclesInv
<1>18. CASE RedisUp
    <2> USE <1>18 DEF RedisUp
    <2>1. TypeOK'
        BY CyclesAssumption DEF TypeOK, RunnerStates, GenesisStates, Statuses
    <2>2. QueueCooled'
        BY DEF TypeOK, QueueCooled, Busy
    <2>3. ChargeBounded'
        BY CyclesAssumption DEF TypeOK, ChargeBounded, OverrunBounded
    <2>4. LateActsOver'
        BY DEF TypeOK, LateActsOver
    <2> QED
        BY <2>1, <2>2, <2>3, <2>4 DEF CyclesInv
<1>19. CASE UNCHANGED vars
    BY <1>19 DEF vars, CyclesInv, TypeOK, QueueCooled, Busy, ChargeBounded,
                 OverrunBounded, LateActsOver
<1> QED
    BY <1>1, <1>2, <1>3, <1>4, <1>5, <1>6, <1>7, <1>8, <1>9, <1>10,
       <1>11, <1>12, <1>13, <1>14, <1>15, <1>16, <1>17, <1>18, <1>19
       DEF Next, Runner, Genesis

-------------------------------------------------------------------------------
(* Theorems *)

\* The invariant of the cycles holds in every behaviour.
THEOREM CyclesInvariant == Spec => []CyclesInv
<1>1. Init => CyclesInv
    BY InitCycles
<1>2. CyclesInv /\ [Next]_vars => CyclesInv'
    BY StepCycles
<1> QED
    BY <1>1, <1>2, PTL DEF Spec

\* The state of the cycles keeps its types.
THEOREM CycleTypes == Spec => []TypeOK
<1>1. CyclesInv => TypeOK
    BY DEF CyclesInv
<1> QED
    BY <1>1, CyclesInvariant, PTL

\* COOLDOWN_SECONDS separates the cycles of an agent, whatever is in the queue
\* and whichever clock the timer read.
THEOREM CooldownHolds == Spec => []CooldownKept
<1>1. CyclesInv => CooldownKept
    BY DEF CyclesInv, QueueCooled, CooldownKept
<1> QED
    BY <1>1, CyclesInvariant, PTL

\* A day's budget is overrun by at most one cycle and its tool.
THEOREM OverrunHolds == Spec => []OverrunBounded
<1>1. CyclesInv => OverrunBounded
    BY DEF CyclesInv, ChargeBounded
<1> QED
    BY <1>1, CyclesInvariant, PTL

\* An agent that is no longer active acts at most once more.
THEOREM LateActsOnce == Spec => []OneLateAct
<1>1. CyclesInv => OneLateAct
    BY DEF CyclesInv, LateActsOver, OneLateAct
<1> QED
    BY <1>1, CyclesInvariant, PTL

-------------------------------------------------------------------------------
(* Mind *)

\* A cycle in progress.
Thoughts ==
    [pc : {"observe", "call", "validate", "repair", "reflect", "act", "record", "fail"},
     kind : {"reflection", "survival", "strategic_review", "normal"},
     period : 0..MaxEvaluations, model : Models, attempt : Nat, cost : Nat, spent : Nat,
     free : Nat, repaired : BOOLEAN, answer : Answers \cup {Nothing}, study : SUBSET StudyRows,
     learned : Learned, changed : {0, 1}, posts : SUBSET {"claim", "challenge"},
     spoiled : BOOLEAN]

Thinking == cycle.pc # "rest"

ThoughtTypes == cycle = Resting \/ (cycle \in Thoughts /\ count < MaxCycles)

\* What the cycle will be charged covers what it has spent.
ChargeCovers == ~unpaid /\ (Thinking => cycle.cost >= cycle.spent)

\* A cycle that was overtaken by an evaluation.
Overtaken == IF Thinking /\ cycle.period # period THEN 1 ELSE 0

\* The changes of this period are entered under it, but for one that a cycle
\* carried, or still carries, over the evaluation.
ChangesEntered ==
    /\ \A i \in DOMAIN learned.tags : learned.tags[i] <= period
    /\ ChangesIn(learned.tags, period) <= MaxChanges
    /\ changes + Overtaken <= ChangesIn(learned.tags, period) + 1
    /\ Thinking =>
        /\ cycle.period <= period
        /\ cycle.changed = 0 => cycle.learned.tags = learned.tags
        /\ cycle.changed = 1 =>
            /\ cycle.pc = "record"
            /\ cycle.learned.tags = Append(learned.tags, cycle.period)
            /\ ChangesIn(learned.tags, cycle.period) < MaxChanges

\* The inductive invariant.
MindInv == MindTypes /\ ThoughtTypes /\ ChargeCovers /\ ChangesEntered

-------------------------------------------------------------------------------
(* The entries of a genome *)

\* The changes under a period are counted by a natural number.
LEMMA ChangesType ==
    ASSUME NEW tags \in GenomeTags, NEW p
    PROVE  /\ IsFiniteSet({i \in DOMAIN tags : tags[i] = p})
           /\ ChangesIn(tags, p) \in Nat
<1>1. DOMAIN tags = 1..Len(tags) /\ Len(tags) \in Nat
    BY DEF GenomeTags
<1>2. IsFiniteSet(DOMAIN tags)
    BY <1>1, FS_Interval
<1>3. IsFiniteSet({i \in DOMAIN tags : tags[i] = p})
    BY <1>2, FS_Subset
<1> QED
    BY <1>3, FS_CardinalityType DEF ChangesIn

\* One entry more counts under its own period only.
LEMMA ChangesAppend ==
    ASSUME NEW tags \in GenomeTags, NEW p \in Nat, NEW q
    PROVE  /\ Append(tags, p) \in GenomeTags
           /\ ChangesIn(Append(tags, p), q) = ChangesIn(tags, q) + (IF p = q THEN 1 ELSE 0)
<1> DEFINE n == Len(tags)
           more == Append(tags, p)
           S == {i \in DOMAIN tags : tags[i] = q}
           T == {i \in DOMAIN more : more[i] = q}
<1>1. /\ n \in Nat /\ DOMAIN tags = 1..n /\ DOMAIN more = 1..(n + 1)
      /\ \A i \in 1..n : more[i] = tags[i]
      /\ more[n + 1] = p /\ more \in GenomeTags
    BY DEF GenomeTags
<1>2. ChangesIn(more, q) = Cardinality(T) /\ ChangesIn(tags, q) = Cardinality(S)
    BY DEF ChangesIn
<1>3. IsFiniteSet(S)
    BY ChangesType
<1> HIDE DEF n, more
<1>4. n + 1 \notin S
    BY <1>1
<1>5. T = IF p = q THEN S \cup {n + 1} ELSE S
    <2>1. ASSUME NEW i PROVE i \in T <=> i \in S \/ (i = n + 1 /\ p = q)
        BY <1>1
    <2> HIDE DEF T, S
    <2> QED
        BY <2>1
<1>6. Cardinality(T) = Cardinality(S) + (IF p = q THEN 1 ELSE 0)
    <2> HIDE DEF T, S
    <2>1. Cardinality(S \cup {n + 1}) = Cardinality(S) + 1
        BY <1>3, <1>4, FS_AddElement
    <2>2. Cardinality(S) \in Nat
        BY <1>3, FS_CardinalityType
    <2> QED
        BY <1>5, <2>1, <2>2
<1> QED
    BY <1>1, <1>2, <1>6 DEF more

\* Nothing is entered under a period that has not come.
LEMMA ChangesNone ==
    ASSUME NEW tags \in GenomeTags, NEW p, \A i \in DOMAIN tags : tags[i] # p
    PROVE  ChangesIn(tags, p) = 0
<1>1. {i \in DOMAIN tags : tags[i] = p} = {}
    OBVIOUS
<1> QED
    BY <1>1, FS_EmptySet DEF ChangesIn
-------------------------------------------------------------------------------
(* The steps of Mind *)

LEMMA MindInitInv == MindInit => MindInv
<1> SUFFICES ASSUME MindInit PROVE MindInv
    OBVIOUS
<1>1. /\ learned = [reflected |-> FALSE, tags |-> <<>>, tools |-> {}, sandbox |-> 0]
      /\ cycle = Resting /\ cycle.pc = "rest"
      /\ count = 0 /\ period = 0 /\ studies = {} /\ changes = 0 /\ unpaid = FALSE
    BY DEF MindInit, Resting
<1>2. <<>> \in GenomeTags /\ DOMAIN <<>> = {} /\ 0 \in SandboxDay
    BY MindAssumption DEF GenomeTags, SandboxDay
<1>3. learned \in Learned
    BY <1>1, <1>2 DEF Learned
<1>4. intel \in [keyed : BOOLEAN, claim : IntelClaims, challenge : Challenges]
    BY DEF MindInit, IntelClaims, Challenges
<1>5. 0 \in 0..MaxCycles /\ 0 \in 0..MaxEvaluations
    BY MindAssumption
<1>6. MindTypes
    BY <1>1, <1>3, <1>4, <1>5 DEF MindTypes
<1>7. ChangesIn(<<>>, 0) = 0
    BY <1>2, ChangesNone
<1>8. ThoughtTypes /\ ChargeCovers
    <2>1. ~unpaid /\ ~Thinking
        BY <1>1 DEF Thinking
    <2> QED
        BY <1>1, <2>1 DEF ThoughtTypes, ChargeCovers
<1>9. ChangesEntered
    <2>1. MaxChanges \in Nat
        BY MindAssumption
    <2>3. ~Thinking /\ Overtaken = 0
        BY <1>1 DEF Overtaken, Thinking
    <2>2. learned.tags = <<>> /\ ChangesIn(learned.tags, period) = 0
        BY <1>1, <1>7
    <2> QED
        BY <1>1, <1>2, <2>1, <2>2, <2>3 DEF ChangesEntered
<1> QED
    BY <1>6, <1>8, <1>9 DEF MindInv

\* What a kind of cycle is answered by.
LEMMA ModelTypes ==
    ASSUME NEW kind, NEW pendingTrade, NEW crisis, NEW routed
    PROVE  SelectModel(kind, pendingTrade, crisis, routed) \in Models
BY MindAssumption DEF SelectModel

\* Prices are positive, and a tax does not make them smaller.
LEMMA PriceTypes ==
    /\ \A m \in Models : Price[m] \in Nat
    /\ "sonnet" \in Models
    /\ RetryTax * Price["sonnet"] \in Nat /\ RetryTax * Price["sonnet"] >= Price["sonnet"]
<1>1. \A m \in Models : Price[m] \in Nat
    BY MindAssumption
<1>2. "sonnet" \in Models
    BY MindAssumption
<1>3. \A x, y \in Nat : x # 0 => x * y \in Nat /\ x * y >= y
    OBVIOUS
<1> QED
    BY <1>1, <1>2, <1>3, MindAssumption

LEMMA BeginThoughtStep == MindInv /\ BeginThought => MindInv'
<1> SUFFICES ASSUME MindInv, BeginThought PROVE MindInv'
    OBVIOUS
<1>1. PICK short, pendingTrade, crisis, routed \in BOOLEAN :
        cycle' = [pc |-> "observe", kind |-> Kind(count, short), period |-> period,
                  model |-> SelectModel(Kind(count, short), pendingTrade, crisis, routed),
                  attempt |-> 0, cost |-> 0, spent |-> 0, free |-> 0, repaired |-> FALSE,
                  answer |-> Nothing, study |-> {}, learned |-> learned,
                  changed |-> 0, posts |-> {}, spoiled |-> FALSE]
    BY DEF BeginThought
<1>2. UNCHANGED <<count, studies, learned, intel, changes, unpaid, period>> /\ count < MaxCycles
      /\ ~Thinking
    BY DEF BeginThought, committed, Thinking
<1>3. Kind(count, short) \in {"reflection", "survival", "strategic_review", "normal"}
    BY DEF Kind
<1>4. cycle' \in Thoughts
    BY <1>1, <1>3, ModelTypes DEF Thoughts, MindInv, MindTypes
<1>5. MindTypes' /\ ThoughtTypes'
    BY <1>2, <1>4 DEF MindInv, MindTypes, ThoughtTypes
<1>6. ChargeCovers'
    BY <1>1, <1>2 DEF MindInv, ChargeCovers, Thinking
<1>7. period \in Nat
    BY MindAssumption DEF MindInv, MindTypes
<1>8. ChangesEntered'
    BY <1>1, <1>2, <1>7 DEF MindInv, ChangesEntered, Overtaken, Thinking
<1> QED
    BY <1>5, <1>6, <1>8 DEF MindInv

\* A step within a cycle that neither changes the genome nor ends the cycle, and
\* after which the charge still covers what is spent.
LEMMA WithinThought ==
    ASSUME MindInv, Thinking, UNCHANGED <<committed, period>>,
           cycle' \in Thoughts,
           cycle'.period = cycle.period, cycle'.changed = cycle.changed,
           cycle'.learned.tags = cycle.learned.tags,
           cycle.pc = "record" => cycle'.pc = "record",
           cycle.changed = 1 => cycle'.pc = "record",
           cycle'.cost >= cycle'.spent
    PROVE  MindInv'
<1>1. /\ UNCHANGED <<count, studies, learned, intel, changes, unpaid, period>>
      /\ cycle \in Thoughts /\ count < MaxCycles
    BY DEF committed, MindInv, ThoughtTypes, Thinking, Resting
<1>2. cycle'.pc # "rest"
    BY DEF Thoughts
<1>3. MindTypes' /\ ThoughtTypes'
    BY <1>1 DEF MindInv, MindTypes, ThoughtTypes
<1>5. ChargeCovers'
    BY <1>1 DEF MindInv, ChargeCovers, Thinking
<1>6. ChangesEntered'
    BY <1>1, <1>2 DEF MindInv, ChangesEntered, Overtaken, Thinking
<1> QED
    BY <1>3, <1>5, <1>6 DEF MindInv

\* The cycle that a handler finds.
LEMMA ThoughtFound ==
    ASSUME MindInv, cycle.pc # "rest"
    PROVE  /\ Thinking /\ cycle \in Thoughts /\ count < MaxCycles
           /\ cycle.pc # "record" => cycle.changed = 0
BY DEF MindInv, ThoughtTypes, ChangesEntered, Resting, Thoughts, Thinking

\* Finitely many tools are scheduled.
LEMMA ScheduledRuns == Cardinality(Scheduled \intersect learned.tools) \in Nat
<1>1. IsFiniteSet(Scheduled)
    BY MindAssumption
<1>2. IsFiniteSet(Scheduled \intersect learned.tools)
    BY <1>1, FS_Intersection
<1> QED
    BY <1>2, FS_CardinalityType

\* The prompt.
LEMMA AssembleContextStep == MindInv /\ AssembleContext => MindInv'
<1> SUFFICES ASSUME MindInv, AssembleContext PROVE MindInv'
    OBVIOUS
<1>1. PICK r \in IF cycle.kind = "reflection" THEN SelectForReflection ELSE {Nothing} :
      \E free \in PreCompute :
        cycle' = [cycle EXCEPT !.pc = "call", !.study = RecordStudy(r), !.free = free]
    BY DEF AssembleContext
<1>2. cycle.pc = "observe" /\ UNCHANGED <<committed, period>>
    BY DEF AssembleContext
<1>3. Thinking /\ cycle \in Thoughts /\ cycle.changed = 0
    BY <1>2, ThoughtFound
<1>4. count \in Nat
    BY MindAssumption DEF MindInv, MindTypes
<1>5. RecordStudy(r) \in SUBSET StudyRows
    BY <1>1, <1>4 DEF RecordStudy, StudyRows, Resources, SelectForReflection, FindArchiveFallback
<1>8. PreCompute \subseteq Nat
    BY ScheduledRuns, MindAssumption DEF PreCompute
<1>9. PICK free \in Nat :
        cycle' = [cycle EXCEPT !.pc = "call", !.study = RecordStudy(r), !.free = free]
    BY <1>1, <1>8
<1> DEFINE s == RecordStudy(r)
<1> HIDE DEF s
<1>6. /\ cycle' \in Thoughts /\ cycle'.pc = "call"
      /\ cycle'.period = cycle.period /\ cycle'.changed = cycle.changed
      /\ cycle'.learned = cycle.learned /\ cycle'.cost = cycle.cost /\ cycle'.spent = cycle.spent
    BY <1>3, <1>5, <1>9 DEF Thoughts, s
<1>7. cycle.cost >= cycle.spent
    BY <1>3 DEF MindInv, ChargeCovers
<1> QED
    BY <1>2, <1>3, <1>6, <1>7, WithinThought

\* An answer costs its model's price, and is charged at it.
LEMMA CallModelStep == MindInv /\ CallModel => MindInv'
<1> SUFFICES ASSUME MindInv, CallModel PROVE MindInv'
    OBVIOUS
<1>1. cycle.pc = "call" /\ UNCHANGED <<committed, period>>
    BY DEF CallModel
<1>2. Thinking /\ cycle \in Thoughts /\ cycle.changed = 0
    BY <1>1, ThoughtFound
<1>3. /\ cycle.cost \in Nat /\ cycle.spent \in Nat /\ cycle.cost >= cycle.spent
      /\ cycle.attempt \in Nat /\ cycle.model \in Models
    BY <1>2 DEF Thoughts, MindInv, ChargeCovers
<1>4. CASE \E answer \in Answers :
            cycle' = [cycle EXCEPT !.pc = "validate", !.answer = answer,
                                   !.cost = Price[cycle.model], !.spent = Price[cycle.model]]
    <2> DEFINE q == Price[cycle.model]
    <2>1. q \in Nat
        BY <1>3, PriceTypes
    <2>2. PICK answer \in Answers :
            cycle' = [cycle EXCEPT !.pc = "validate", !.answer = answer, !.cost = q, !.spent = q]
        BY <1>4
    <2> HIDE DEF q
    <2>3. /\ cycle' \in Thoughts /\ cycle'.pc = "validate"
          /\ cycle'.period = cycle.period /\ cycle'.changed = cycle.changed
          /\ cycle'.learned = cycle.learned /\ cycle'.cost = q /\ cycle'.spent = q
        BY <1>2, <2>1, <2>2 DEF Thoughts
    <2> QED
        BY <1>1, <1>2, <1>3, <2>1, <2>3, WithinThought
<1>5. CASE cycle' = [cycle EXCEPT !.attempt = @ + 1] \/ cycle' = [cycle EXCEPT !.pc = "fail"]
    <2>1. /\ cycle' \in Thoughts /\ cycle'.pc \in {"call", "fail"}
          /\ cycle'.period = cycle.period /\ cycle'.changed = cycle.changed
          /\ cycle'.learned = cycle.learned
          /\ cycle'.cost = cycle.cost /\ cycle'.spent = cycle.spent
        BY <1>1, <1>2, <1>3, <1>5 DEF Thoughts
    <2> QED
        BY <1>1, <1>2, <1>3, <2>1, WithinThought
<1> QED
    BY <1>4, <1>5 DEF CallModel

\* The verdict on an answer.
LEMMA ValidateStep == MindInv /\ Validate => MindInv'
<1> SUFFICES ASSUME MindInv, Validate PROVE MindInv'
    OBVIOUS
<1>1. cycle.pc = "validate" /\ UNCHANGED <<committed, period>>
    BY DEF Validate
<1>2. Thinking /\ cycle \in Thoughts /\ cycle.changed = 0
    BY <1>1, ThoughtFound
<1>3. cycle.cost \in Nat /\ cycle.spent \in Nat /\ cycle.cost >= cycle.spent
    BY <1>2 DEF Thoughts, MindInv, ChargeCovers
<1> DEFINE q == CASE Passed(cycle.kind, cycle.answer) -> IF Reflects THEN "reflect" ELSE "act"
                  [] Retryable(cycle.answer) /\ ~cycle.repaired -> "repair"
                  [] OTHER -> "fail"
<1>4. q \in {"reflect", "act", "repair", "fail"}
    OBVIOUS
<1>5. cycle' = [cycle EXCEPT !.pc = q, !.answer = Nothing]
    BY DEF Validate
<1> HIDE DEF q
<1>6. /\ cycle' \in Thoughts
      /\ cycle'.period = cycle.period /\ cycle'.changed = cycle.changed
      /\ cycle'.learned = cycle.learned /\ cycle'.cost = cycle.cost /\ cycle'.spent = cycle.spent
    BY <1>2, <1>4, <1>5 DEF Thoughts
<1> QED
    BY <1>1, <1>2, <1>3, <1>6, WithinThought

\* The repair is charged with its tax on top of the call's cost.
LEMMA CallRepairStep == MindInv /\ CallRepair => MindInv'
<1> SUFFICES ASSUME MindInv, CallRepair PROVE MindInv'
    OBVIOUS
<1>1. cycle.pc = "repair" /\ UNCHANGED <<committed, period>>
    BY DEF CallRepair
<1>2. Thinking /\ cycle \in Thoughts /\ cycle.changed = 0
    BY <1>1, ThoughtFound
<1>3. cycle.cost \in Nat /\ cycle.spent \in Nat /\ cycle.cost >= cycle.spent
    BY <1>2 DEF Thoughts, MindInv, ChargeCovers
<1>4. CASE \E answer \in Answers : cycle' = Repaired(answer)
    <2> DEFINE q == cycle.spent + Price["sonnet"]
               x == cycle.cost + RetryTax * Price["sonnet"]
    <2>1. q \in Nat /\ x \in Nat /\ x >= q
        <3>1. Price["sonnet"] \in Nat
            BY PriceTypes
        <3> QED
            BY <1>3, <3>1, PriceTypes
    <2>2. PICK answer \in Answers :
            cycle' = [cycle EXCEPT !.pc = "validate", !.repaired = TRUE, !.answer = answer,
                                   !.cost = x, !.spent = q]
        BY <1>4 DEF Repaired
    <2> HIDE DEF q, x
    <2>3. /\ cycle' \in Thoughts /\ cycle'.pc = "validate"
          /\ cycle'.period = cycle.period /\ cycle'.changed = cycle.changed
          /\ cycle'.learned = cycle.learned /\ cycle'.cost = x /\ cycle'.spent = q
        BY <1>2, <2>1, <2>2 DEF Thoughts
    <2> QED
        BY <1>1, <1>2, <2>1, <2>3, WithinThought
<1>5. CASE cycle' = [cycle EXCEPT !.pc = "fail"]
    <2>1. /\ cycle' \in Thoughts
          /\ cycle'.period = cycle.period /\ cycle'.changed = cycle.changed
          /\ cycle'.learned = cycle.learned
          /\ cycle'.cost = cycle.cost /\ cycle'.spent = cycle.spent
        BY <1>2, <1>5 DEF Thoughts
    <2> QED
        BY <1>1, <1>2, <1>3, <2>1, WithinThought
<1> QED
    BY <1>4, <1>5 DEF CallRepair

\* The cap on the day's runs.
LEMMA WithRunType ==
    ASSUME NEW x \in SandboxDay, NEW cost \in RunCosts
    PROVE  WithRun(x, cost) \in SandboxDay
<1> DEFINE y == x + cost
<1>1. x \in Nat /\ y \in Nat /\ SandboxCap \in Nat
    BY MindAssumption DEF SandboxDay, RunCosts
<1> HIDE DEF y
<1>2. \A a, b \in Nat : Min({a, b}) = IF a <= b THEN a ELSE b
    BY DEF Min
<1>3. WithRun(x, cost) = Min({SandboxCap, y})
    BY DEF WithRun, y
<1> QED
    BY <1>1, <1>2, <1>3 DEF SandboxDay

\* The reflection, and the actions that leave the genome alone.
LEMMA OtherActsStep ==
    ASSUME MindInv,
           ProcessReflection \/ ExecuteAnalysis \/ RunTool \/ OfferIntel \/ PoisonIntel
             \/ ActOtherwise
    PROVE  MindInv'
<1>1. cycle.pc \in {"reflect", "act"} /\ UNCHANGED <<committed, period>>
    BY DEF ProcessReflection, ExecuteAnalysis, RunTool, OfferIntel, PoisonIntel, ActOtherwise
<1>2. Thinking /\ cycle \in Thoughts /\ cycle.changed = 0
    BY <1>1, ThoughtFound
<1>3. /\ cycle.cost \in Nat /\ cycle.spent \in Nat /\ cycle.cost >= cycle.spent
      /\ cycle.learned \in Learned /\ cycle.learned.sandbox \in SandboxDay
      /\ cycle.learned.tools \in SUBSET ToolNames
    BY <1>2 DEF Thoughts, Learned, MindInv, ChargeCovers
<1>4. CASE ProcessReflection
    <2> DEFINE l == [cycle.learned EXCEPT !.reflected = TRUE]
    <2>1. l \in Learned /\ l.tags = cycle.learned.tags
        BY <1>3 DEF Learned
    <2>2. cycle' = [cycle EXCEPT !.pc = "record", !.learned = l]
        BY <1>2, <1>4 DEF ProcessReflection, Thoughts
    <2> HIDE DEF l
    <2>3. /\ cycle' \in Thoughts /\ cycle'.pc = "record" /\ cycle'.learned = l
          /\ cycle'.period = cycle.period /\ cycle'.changed = cycle.changed
          /\ cycle'.cost = cycle.cost /\ cycle'.spent = cycle.spent
        BY <1>2, <2>1, <2>2 DEF Thoughts
    <2> QED
        BY <1>1, <1>2, <1>3, <2>1, <2>3, WithinThought
<1>5. CASE ExecuteAnalysis \/ RunTool
    <2>1. PICK cost \in RunCosts, tools \in SUBSET ToolNames, spoiled \in BOOLEAN :
            cycle' = [cycle EXCEPT !.pc = "record",
                        !.learned = [cycle.learned EXCEPT
                            !.sandbox = WithRun(cycle.learned.sandbox, cost), !.tools = tools],
                        !.cost = cycle.cost + cost, !.spent = cycle.spent + cost,
                        !.spoiled = spoiled]
        <3>1. CASE ExecuteAnalysis
            <4>1. PICK cost \in RunCosts, saved \in SUBSET ToolNames :
                    cycle' = [cycle EXCEPT !.pc = "record",
                                !.learned.sandbox = WithRun(@, cost),
                                !.learned.tools = @ \union saved,
                                !.cost = @ + cost, !.spent = @ + cost,
                                !.spoiled = saved \intersect learned.tools # {}]
                BY <3>1 DEF ExecuteAnalysis
            <4>2. cycle.learned.tools \union saved \in SUBSET ToolNames
                BY <1>3
            <4>3. (saved \intersect learned.tools # {}) \in BOOLEAN
                OBVIOUS
            <4> DEFINE w == WithRun(cycle.learned.sandbox, cost)
                       t == cycle.learned.tools \union saved
                       x == cycle.cost + cost
                       q == cycle.spent + cost
                       z == saved \intersect learned.tools # {}
            <4>4. cycle' = [cycle EXCEPT !.pc = "record",
                                !.learned.sandbox = w, !.learned.tools = t,
                                !.cost = x, !.spent = q, !.spoiled = z]
                BY <1>2, <1>3, <4>1 DEF Thoughts, Learned
            <4>5. cycle' = [cycle EXCEPT !.pc = "record",
                                !.learned = [cycle.learned EXCEPT !.sandbox = w, !.tools = t],
                                !.cost = x, !.spent = q, !.spoiled = z]
                <5> HIDE DEF w, t, x, q, z
                <5> QED
                    BY <1>2, <1>3, <4>4 DEF Thoughts, Learned
            <4> QED
                BY <4>2, <4>3, <4>5
        <3>2. CASE RunTool
            <4>1. PICK cost \in RunCosts :
                    cycle' = [cycle EXCEPT !.pc = "record",
                                !.learned.sandbox = WithRun(@, cost),
                                !.cost = @ + cost, !.spent = @ + cost]
                BY <3>2 DEF RunTool
            <4> DEFINE w == WithRun(cycle.learned.sandbox, cost)
                       x == cycle.cost + cost
                       q == cycle.spent + cost
                       l == [cycle.learned EXCEPT !.sandbox = w]
            <4>2. cycle' = [cycle EXCEPT !.pc = "record", !.learned = l, !.cost = x, !.spent = q]
                BY <1>2, <1>3, <4>1 DEF Thoughts, Learned
            <4>3. l = [cycle.learned EXCEPT !.sandbox = w, !.tools = cycle.learned.tools]
                <5> HIDE DEF w
                <5> QED
                    BY <1>3 DEF Learned
            <4>4. cycle' = [cycle EXCEPT !.pc = "record", !.learned = l, !.cost = x, !.spent = q,
                                         !.spoiled = cycle.spoiled]
                <5> HIDE DEF l, x, q
                <5> QED
                    BY <1>2, <4>2 DEF Thoughts
            <4>5. cycle.spoiled \in BOOLEAN
                BY <1>2 DEF Thoughts
            <4>6. cycle' = [cycle EXCEPT !.pc = "record",
                                !.learned = [cycle.learned EXCEPT
                                    !.sandbox = w, !.tools = cycle.learned.tools],
                                !.cost = x, !.spent = q, !.spoiled = cycle.spoiled]
                <5> HIDE DEF l, w, x, q
                <5> QED
                    BY <4>3, <4>4
            <4> QED
                BY <1>3, <4>5, <4>6
        <3> QED
            BY <1>5, <3>1, <3>2
    <2> DEFINE l == [cycle.learned EXCEPT !.sandbox = WithRun(cycle.learned.sandbox, cost),
                                              !.tools = tools]
               q == cycle.spent + cost
               x == cycle.cost + cost
    <2>2. l \in Learned /\ l.tags = cycle.learned.tags
        <3>1. WithRun(cycle.learned.sandbox, cost) \in SandboxDay
            BY <1>3, WithRunType
        <3> DEFINE w == WithRun(cycle.learned.sandbox, cost)
        <3> HIDE DEF w
        <3>2. l = [cycle.learned EXCEPT !.sandbox = w, !.tools = tools] /\ w \in SandboxDay
            BY <3>1 DEF w
        <3> HIDE DEF l
        <3> QED
            BY <1>3, <3>2 DEF Learned
    <2>3. q \in Nat /\ x \in Nat /\ x >= q
        BY <1>3, MindAssumption DEF RunCosts
    <2>4. cycle' = [cycle EXCEPT !.pc = "record", !.learned = l,
                                 !.cost = x, !.spent = q, !.spoiled = spoiled]
        BY <2>1
    <2> HIDE DEF l, q, x
    <2>5. /\ cycle' \in Thoughts /\ cycle'.pc = "record" /\ cycle'.learned = l
          /\ cycle'.period = cycle.period /\ cycle'.changed = cycle.changed
          /\ cycle'.cost = x /\ cycle'.spent = q
        BY <1>2, <2>2, <2>3, <2>4 DEF Thoughts
    <2> QED
        BY <1>1, <1>2, <2>2, <2>3, <2>5, WithinThought
<1>6. CASE OfferIntel \/ PoisonIntel \/ ActOtherwise
    <2>1. PICK spoiled \in BOOLEAN, posts \in SUBSET {"claim", "challenge"} :
            cycle' = [cycle EXCEPT !.pc = "record", !.spoiled = spoiled, !.posts = posts]
        <3>1. intel.keyed \in BOOLEAN /\ cycle.spoiled \in BOOLEAN
              /\ cycle.posts \in SUBSET {"claim", "challenge"}
            BY <1>2 DEF Thoughts, MindInv, MindTypes
        <3>2. CASE OfferIntel
            BY <3>1, <3>2 DEF OfferIntel
        <3>3. CASE PoisonIntel
            <4>1. cycle' = [cycle EXCEPT !.pc = "record", !.spoiled = cycle.spoiled,
                                         !.posts = {"challenge"}]
                BY <1>2, <3>3 DEF PoisonIntel, Thoughts
            <4> QED
                BY <3>1, <4>1
        <3>4. CASE ActOtherwise
            <4>1. cycle' = [cycle EXCEPT !.pc = "record", !.spoiled = cycle.spoiled,
                                         !.posts = cycle.posts]
                BY <1>2, <3>4 DEF ActOtherwise, Thoughts
            <4> QED
                BY <3>1, <4>1
        <3> QED
            BY <1>6, <3>2, <3>3, <3>4
    <2>2. /\ cycle' \in Thoughts /\ cycle'.pc = "record" /\ cycle'.learned = cycle.learned
          /\ cycle'.period = cycle.period /\ cycle'.changed = cycle.changed
          /\ cycle'.cost = cycle.cost /\ cycle'.spent = cycle.spent
        <3>1. cycle \in Thoughts
            BY <1>2
        <3>2. cycle' \in Thoughts
            BY <3>1, <2>1 DEF Thoughts
        <3> QED
            BY <3>1, <3>2, <2>1 DEF Thoughts
    <2> QED
        BY <1>1, <1>2, <1>3, <2>2, WithinThought
<1> QED
    BY <1>4, <1>5, <1>6

\* A change of the genome is allowed below the cap of the period that the cycle
\* read, and is entered under that period.
LEMMA ModifyGenomeStep == MindInv /\ ModifyGenome => MindInv'
<1> SUFFICES ASSUME MindInv, ModifyGenome PROVE MindInv'
    OBVIOUS
<1>1. /\ cycle.pc = "act" /\ UNCHANGED <<committed, period>>
      /\ ChangesIn(learned.tags, cycle.period) < MaxChanges
    BY DEF ModifyGenome
<1>2. Thinking /\ cycle \in Thoughts /\ cycle.changed = 0 /\ count < MaxCycles
    BY <1>1, ThoughtFound
<1>3. /\ UNCHANGED <<count, studies, learned, intel, changes, unpaid, period>>
      /\ cycle.learned.tags = learned.tags /\ learned.tags \in GenomeTags
      /\ cycle.learned \in Learned /\ cycle.period \in Nat /\ cycle.cost >= cycle.spent
    BY <1>1, <1>2, MindAssumption
       DEF committed, MindInv, MindTypes, ChangesEntered, ChargeCovers, Thoughts, Learned
<1> DEFINE g == Append(learned.tags, cycle.period)
           l == [cycle.learned EXCEPT !.tags = g]
<1>4. g \in GenomeTags
    BY <1>3, ChangesAppend
<1>5. cycle' = [cycle EXCEPT !.pc = "record", !.changed = 1, !.learned = l]
    BY <1>2, <1>3 DEF ModifyGenome, WithChange, Thoughts, Learned
<1>6. l \in Learned /\ l.tags = g
    <2> HIDE DEF g
    <2> QED
        BY <1>3, <1>4 DEF Learned
<1> HIDE DEF g, l
<1>7. /\ cycle' \in Thoughts /\ cycle'.pc = "record" /\ cycle'.learned = l /\ cycle'.changed = 1
      /\ cycle'.period = cycle.period /\ cycle'.cost = cycle.cost /\ cycle'.spent = cycle.spent
    BY <1>2, <1>5, <1>6 DEF Thoughts
<1>8. MindTypes' /\ ThoughtTypes'
    BY <1>2, <1>3, <1>7 DEF MindInv, MindTypes, ThoughtTypes
<1>9. ChargeCovers'
    BY <1>3, <1>7 DEF MindInv, ChargeCovers, Thinking
<1>10. ChangesEntered'
    BY <1>1, <1>2, <1>3, <1>6, <1>7 DEF MindInv, ChangesEntered, Overtaken, Thinking, g
<1> QED
    BY <1>8, <1>9, <1>10 DEF MindInv

\* The end of a cycle: what it learned becomes the agent's.
LEMMA RecordStep == MindInv /\ (RecordThought \/ RecordFailed) => MindInv'
<1> SUFFICES ASSUME MindInv, RecordThought \/ RecordFailed PROVE MindInv'
    OBVIOUS
<1>1. cycle.pc \in {"record", "fail"} /\ period' = period /\ Recorded
    BY DEF RecordThought, RecordFailed
<1>2. Thinking /\ cycle \in Thoughts /\ count < MaxCycles
    BY <1>1, ThoughtFound
<1>3. /\ cycle.learned \in Learned /\ cycle.study \in SUBSET StudyRows
      /\ cycle.changed \in {0, 1} /\ cycle.period \in 0..MaxEvaluations
      /\ cycle.cost \in Nat /\ cycle.spent \in Nat
    BY <1>2 DEF Thoughts
<1>4. /\ count' = count + 1 /\ studies' = studies \union cycle.study
      /\ learned' = cycle.learned /\ changes' = changes + cycle.changed /\ cycle' = Resting
      /\ unpaid' = (unpaid \/ cycle.cost < cycle.spent)
    BY <1>1 DEF Recorded, UpdateAgentStats
<1>5. cycle'.pc = "rest" /\ ~Thinking'
    BY <1>4 DEF Resting, Thinking
<1>6. intel' \in [keyed : BOOLEAN, claim : IntelClaims, challenge : Challenges]
    <2> DEFINE c == IF "claim" \in cycle.posts THEN "pending" ELSE intel.claim.outcome
               d == IF "challenge" \in cycle.posts THEN "pending" ELSE intel.challenge.outcome
    <2>1. /\ intel \in [keyed : BOOLEAN, claim : IntelClaims, challenge : Challenges]
          /\ intel.claim \in IntelClaims /\ intel.challenge \in Challenges
        BY DEF MindInv, MindTypes
    <2>2. /\ c \in {"none", "pending", "expired"}
          /\ d \in {"none", "pending", "challenger_right", "challenger_wrong", "inconclusive"}
        BY <2>1 DEF IntelClaims, Challenges
    <2>3. intel' = [intel EXCEPT !.claim.outcome = c, !.challenge.outcome = d]
        BY <1>1, <2>1 DEF Recorded, IntelClaims, Challenges
    <2> DEFINE cl == [intel.claim EXCEPT !.outcome = c]
               ch == [intel.challenge EXCEPT !.outcome = d]
    <2> HIDE DEF c, d
    <2>4. cl \in IntelClaims /\ ch \in Challenges
        BY <2>1, <2>2 DEF IntelClaims, Challenges
    <2>5. intel' = [intel EXCEPT !.claim = cl, !.challenge = ch]
        BY <2>1, <2>3
    <2> HIDE DEF cl, ch
    <2> QED
        BY <2>1, <2>4, <2>5
<1>7. MindTypes'
    <2>1. count + 1 \in 0..MaxCycles
        BY <1>2, MindAssumption DEF MindInv, MindTypes
    <2>2. changes + cycle.changed \in Nat /\ unpaid' \in BOOLEAN
        BY <1>3, <1>4 DEF MindInv, MindTypes
    <2> QED
        BY <1>1, <1>3, <1>4, <1>6, <2>1, <2>2 DEF MindInv, MindTypes
<1>8. ThoughtTypes'
    BY <1>4 DEF ThoughtTypes
<1>9. ChargeCovers'
    <2>1. ~unpaid /\ cycle.cost >= cycle.spent
        BY <1>2 DEF MindInv, ChargeCovers
    <2>2. ~(cycle.cost < cycle.spent)
        BY <1>3, <2>1
    <2>3. ~unpaid'
        BY <1>4, <2>1, <2>2
    <2> QED
        BY <1>5, <2>3 DEF ChargeCovers
<1>10. ChangesEntered'
    <2>1. /\ \A i \in DOMAIN learned.tags : learned.tags[i] <= period
          /\ ChangesIn(learned.tags, period) <= MaxChanges
          /\ changes + Overtaken <= ChangesIn(learned.tags, period) + 1
          /\ cycle.period <= period
          /\ cycle.changed = 0 => cycle.learned.tags = learned.tags
          /\ cycle.changed = 1 =>
                /\ cycle.learned.tags = Append(learned.tags, cycle.period)
                /\ ChangesIn(learned.tags, cycle.period) < MaxChanges
        BY <1>2 DEF MindInv, ChangesEntered
    <2>2. /\ learned.tags \in GenomeTags /\ changes \in Nat /\ period \in Nat /\ cycle.period \in Nat
          /\ MaxChanges \in Nat
        BY <1>3, MindAssumption DEF MindInv, MindTypes, Learned
    <2>3. ChangesIn(learned.tags, period) \in Nat
        BY <2>2, ChangesType
    <2>4. Overtaken = (IF cycle.period # period THEN 1 ELSE 0) /\ Overtaken' = 0
        BY <1>2, <1>5 DEF Overtaken
    <2>5. CASE cycle.changed = 0
        BY <1>1, <1>4, <1>5, <2>1, <2>2, <2>3, <2>4, <2>5 DEF ChangesEntered
    <2>6. CASE cycle.changed = 1
        <3> DEFINE g == Append(learned.tags, cycle.period)
        <3>1. learned'.tags = g
            BY <1>4, <2>1, <2>6
        <3>2. ChangesIn(g, period) = ChangesIn(learned.tags, period)
                                     + (IF cycle.period = period THEN 1 ELSE 0)
            BY <2>2, ChangesAppend
        <3>3. \A i \in DOMAIN g : g[i] <= period
            <4> DEFINE n == Len(learned.tags)
            <4>1. /\ n \in Nat /\ DOMAIN learned.tags = 1..n /\ DOMAIN g = 1..(n + 1)
                  /\ \A i \in 1..n : g[i] = learned.tags[i]
                  /\ g[n + 1] = cycle.period
                BY <2>2 DEF GenomeTags
            <4> HIDE DEF n, g
            <4> QED
                BY <2>1, <4>1
        <3> HIDE DEF g
        <3>4. changes' = changes + 1 /\ period' = period
            BY <1>1, <1>4, <2>6
        <3>5. ChangesIn(g, period) <= MaxChanges
            BY <2>1, <2>2, <2>3, <2>6, <3>2
        <3>6. changes + 1 <= ChangesIn(g, period) + 1
            BY <2>1, <2>2, <2>3, <2>4, <3>2
        <3> QED
            BY <1>5, <2>2, <2>4, <3>1, <3>3, <3>4, <3>5, <3>6 DEF ChangesEntered
    <2> QED
        BY <1>3, <2>5, <2>6
<1> QED
    BY <1>7, <1>8, <1>9, <1>10 DEF MindInv

\* A cycle that is lost leaves nothing behind.
LEMMA LostStep == MindInv /\ (Spoil \/ AbortThought) => MindInv'
<1> SUFFICES ASSUME MindInv, Spoil \/ AbortThought PROVE MindInv'
    OBVIOUS
<1>1. /\ cycle' = Resting /\ cycle'.pc = "rest"
      /\ UNCHANGED <<count, studies, learned, intel, changes, unpaid, period>>
    BY DEF Spoil, AbortThought, committed, Resting
<1>2. MindTypes' /\ ThoughtTypes'
    BY <1>1 DEF MindInv, MindTypes, ThoughtTypes
<1>3. ChargeCovers'
    BY <1>1 DEF MindInv, ChargeCovers, Thinking
<1>4. changes \in Nat /\ Overtaken \in {0, 1} /\ ChangesIn(learned.tags, period) \in Nat
    BY ChangesType DEF MindInv, MindTypes, Learned, Overtaken
<1>5. ChangesEntered'
    BY <1>1, <1>4 DEF MindInv, ChangesEntered, Overtaken, Thinking
<1> QED
    BY <1>2, <1>3, <1>5 DEF MindInv

\* The first run of a day is under no cap of the day before.
LEMMA NextDayStep == MindInv /\ NextDay => MindInv'
<1> SUFFICES ASSUME MindInv, NextDay PROVE MindInv'
    OBVIOUS
<1>1. /\ cycle.pc = "rest" /\ learned' = [learned EXCEPT !.sandbox = 0]
      /\ UNCHANGED <<count, period, studies, cycle, intel, changes, unpaid>>
    BY DEF NextDay
<1>2. 0 \in SandboxDay /\ learned \in Learned
    BY MindAssumption DEF SandboxDay, MindInv, MindTypes
<1>3. learned' \in Learned /\ learned'.tags = learned.tags
    BY <1>1, <1>2 DEF Learned
<1>4. MindTypes' /\ ThoughtTypes'
    BY <1>1, <1>3 DEF MindInv, MindTypes, ThoughtTypes
<1>5. ChargeCovers'
    BY <1>1 DEF MindInv, ChargeCovers, Thinking
<1>6. ChangesEntered'
    BY <1>1, <1>3 DEF MindInv, ChangesEntered, Overtaken, Thinking
<1> QED
    BY <1>4, <1>5, <1>6 DEF MindInv

\* An evaluation starts a period, under which nothing is entered yet, and
\* overtakes the cycle in progress.
LEMMA EvaluateMindStep == MindInv /\ EvaluateMind => MindInv'
<1> SUFFICES ASSUME MindInv, EvaluateMind PROVE MindInv'
    OBVIOUS
<1>1. /\ period < MaxEvaluations /\ period' = period + 1 /\ changes' = 0
      /\ UNCHANGED <<count, studies, learned, cycle, intel, unpaid>>
    BY DEF EvaluateMind
<1>2. /\ period \in Nat /\ MaxEvaluations \in Nat /\ MaxChanges \in Nat
      /\ learned.tags \in GenomeTags
    BY MindAssumption DEF MindInv, MindTypes, Learned
<1>3. period + 1 \in 0..MaxEvaluations /\ 0 \in Nat
    BY <1>1, <1>2
<1>4. MindTypes' /\ ThoughtTypes'
    BY <1>1, <1>3 DEF MindInv, MindTypes, ThoughtTypes
<1>5. ChargeCovers'
    BY <1>1 DEF MindInv, ChargeCovers, Thinking
<1>6. ChangesEntered'
    <2>1. \A i \in DOMAIN learned.tags : /\ learned.tags[i] \in Nat
                                         /\ learned.tags[i] <= period
        BY <1>2 DEF MindInv, ChangesEntered, GenomeTags
    <2>2. \A i \in DOMAIN learned.tags : learned.tags[i] # period + 1 /\ learned.tags[i] <= period + 1
        BY <1>2, <2>1
    <2>3. ChangesIn(learned.tags, period + 1) = 0
        BY <1>2, <2>2, ChangesNone
    <2>4. Overtaken' \in {0, 1}
        BY DEF Overtaken
    <2>5. Thinking => cycle.period \in Nat /\ cycle.period <= period
        BY MindAssumption DEF MindInv, ThoughtTypes, ChangesEntered, Thinking, Thoughts, Resting
    <2>6. Thinking' <=> Thinking
        BY <1>1 DEF Thinking
    <2> QED
        BY <1>1, <1>2, <2>2, <2>3, <2>4, <2>5, <2>6 DEF MindInv, ChangesEntered
<1> QED
    BY <1>4, <1>5, <1>6 DEF MindInv

\* Intel settles without a look at the cycle.
LEMMA SettleIntelStep == MindInv /\ SettleIntel => MindInv'
<1> SUFFICES ASSUME MindInv, SettleIntel PROVE MindInv'
    OBVIOUS
<1> DEFINE c == SettlePendingIntel(intel.claim)
           d == SettleChallenge(intel.challenge, c)
<1>1. /\ intel' = [intel EXCEPT !.claim = c, !.challenge = d]
      /\ UNCHANGED <<count, period, studies, learned, cycle, changes, unpaid>>
    BY DEF SettleIntel, MindInv, MindTypes
<1>2. /\ intel \in [keyed : BOOLEAN, claim : IntelClaims, challenge : Challenges]
      /\ intel.claim \in IntelClaims /\ intel.challenge \in Challenges
    BY DEF MindInv, MindTypes
<1>3. c \in IntelClaims
    BY <1>2 DEF SettlePendingIntel, IntelClaims
<1>4. d \in Challenges
    <2> HIDE DEF c
    <2> DEFINE o == CASE c.outcome = "confirmed_useless" -> "challenger_right"
                      [] c.outcome = "confirmed_useful" -> "challenger_wrong"
                      [] OTHER -> "inconclusive"
    <2>1. o \in {"challenger_right", "challenger_wrong", "inconclusive"}
        OBVIOUS
    <2>2. d = intel.challenge \/ d = [intel.challenge EXCEPT !.outcome = o]
        BY DEF SettleChallenge
    <2> HIDE DEF o, d
    <2> QED
        BY <1>2, <2>1, <2>2 DEF Challenges
<1> HIDE DEF c, d
<1>5. MindTypes' /\ ThoughtTypes'
    BY <1>1, <1>2, <1>3, <1>4 DEF MindInv, MindTypes, ThoughtTypes
<1>6. ChargeCovers' /\ ChangesEntered'
    BY <1>1 DEF MindInv, ChargeCovers, ChangesEntered, Overtaken, Thinking
<1> QED
    BY <1>5, <1>6 DEF MindInv

\* Whatever is retried, repaired, spoiled or overtaken, the inductive invariant holds.
THEOREM MindInvariant == MindSpec => []MindInv
<1>1. MindInit => MindInv
    BY MindInitInv
<1>2. MindInv /\ [MindNext]_mindVars => MindInv'
    <2> SUFFICES ASSUME MindInv, [MindNext]_mindVars PROVE MindInv'
        OBVIOUS
    <2>1. CASE UNCHANGED mindVars
        BY <2>1 DEF mindVars, MindInv, MindTypes, ThoughtTypes, ChargeCovers, ChangesEntered,
           Overtaken, Thinking
    <2>2. CASE MindNext
        BY <2>2, BeginThoughtStep, AssembleContextStep, CallModelStep, ValidateStep,
           CallRepairStep, OtherActsStep, ModifyGenomeStep, RecordStep, LostStep, NextDayStep,
           EvaluateMindStep, SettleIntelStep
           DEF MindNext, Thinks, ActInMind
    <2> QED
        BY <2>1, <2>2
<1> QED
    BY <1>1, <1>2, PTL DEF MindSpec

\* The variables of the thinking cycle keep their types.
THEOREM MindTypesHold == MindSpec => []MindTypes
<1>1. MindInv => MindTypes
    BY DEF MindInv
<1> QED
    BY <1>1, MindInvariant, PTL

\* A recorded cycle, failed or not, is charged no less than its calls and its
\* scripts cost: the repair is charged on top of the call, never instead of it.
THEOREM PaidCharged == MindSpec => []PaidIsCharged
<1>1. MindInv => PaidIsCharged
    BY DEF MindInv, ChargeCovers, PaidIsCharged
<1> QED
    BY <1>1, MindInvariant, PTL

\* The cap on changes of the genome is passed by one at most, the change of the
\* cycle that an evaluation overtook.
THEOREM LateChangeOnce == MindSpec => []OneLateChange
<1>1. MindInv => OneLateChange
    <2> SUFFICES ASSUME MindInv PROVE OneLateChange
        OBVIOUS
    <2>1. changes \in Nat /\ Overtaken \in {0, 1} /\ ChangesIn(learned.tags, period) \in Nat
        BY ChangesType DEF MindInv, MindTypes, Learned, Overtaken
    <2>2. changes + Overtaken <= ChangesIn(learned.tags, period) + 1
          /\ ChangesIn(learned.tags, period) <= MaxChanges /\ MaxChanges \in Nat
        BY MindAssumption DEF MindInv, ChangesEntered
    <2> QED
        BY <2>1, <2>2 DEF OneLateChange
<1> QED
    BY <1>1, MindInvariant, PTL

===============================================================================
