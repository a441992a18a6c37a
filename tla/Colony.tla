-------------------------------- MODULE Colony --------------------------------
(***************************************************************************)
(* The life of agents: Genesis boots the founders in waves, orients them,  *)
(* judges whoever's survival clock has run out, buries the terminated and  *)
(* lets the best reproduce, dead or alive.                                 *)
(*                                                                         *)
(* Genesis is one process; a wave commits agent by agent, a batch of       *)
(* evaluations commits once, after calls of the API that take minutes.     *)
(* Meanwhile the agents process thinks, rests orders and puts agents to    *)
(* sleep on rows it read before.  Rows the batch has written are locked    *)
(* until it ends: a write of another session to them waits, one from       *)
(* Genesis' own helper thread included.                                    *)
(***************************************************************************)
EXTENDS Integers, Sequences, FiniteSets

CONSTANTS
    Agents,        \* ids, as many as the bound allows to be born
    Nobody,
    Waves,         \* SPAWN_WAVES: a sequence of sets of founders' names
    HardLimit,     \* dynasty_concentration_hard_limit, in percent
    MaxUpsets,     \* bound: failed calls and batches, deaths of Genesis, freezes
    MaxBirths,     \* bound: offspring
    Suggested,     \* names Genesis gives them: founders' names, or Nobody for others
    Operators      \* the founders who trade, as their offspring do

Names == UNION {Waves[i] : i \in DOMAIN Waves}

ASSUME ColonyAssumption ==
    /\ Waves \in Seq(SUBSET Names) /\ Waves # <<>>
    /\ \A i, j \in DOMAIN Waves : i # j => Waves[i] \intersect Waves[j] = {}
    /\ {} \notin {Waves[i] : i \in DOMAIN Waves}
    /\ HardLimit \in 0 .. 100 /\ MaxUpsets \in Nat /\ MaxBirths \in Nat /\ Operators \subseteq Names
    /\ Suggested \subseteq Names \union {Nobody} /\ Nobody \notin Names
    /\ IsFiniteSet(Agents) /\ Nobody \notin Agents

VARIABLES
    agent,     \* Agent, with the founder it was spawned as and the name it bears
    dynasty,   \* Dynasty, by the id of its founder
    verdict,   \* result of an agent's last evaluation
    graves,    \* memorials of an agent, counted up to 2
    order,     \* agents with a pending order that reserves cash
    genesis,   \* the step of the Genesis cycle and what its session holds
    thinking,  \* the agent whose cycle is in progress
    upsets, births

colonyVars == <<agent, dynasty, verdict, graves, order, genesis, thinking,
                upsets, births>>

\* A name that is no founder's is Nobody; took marks a founder's name that another
\* one bore, or bears, whom the choice of a name does not look at.
Unborn == [status |-> "none", spec |-> Nobody, name |-> Nobody, took |-> FALSE, oriented |-> FALSE,
           line |-> Nobody, clock |-> "running", seasoned |-> FALSE, cooling |-> FALSE]
NoDynasty == [living |-> 0, status |-> "none"]
DynastyRows == [living : 0 .. Cardinality(Agents), status : {"none", "active", "extinct"}]
Evaluations == {"none", "survived", "probation", "terminated"}
Graves == 0 .. 2
Idle == [step |-> "idle", wave |-> 0, todo |-> {}, failed |-> FALSE,
         judged |-> [a \in Agents |-> "none"], dying |-> {}, parked |-> Nobody]

ColonyTypes ==
    /\ agent \in [Agents ->
           [status : {"none", "initializing", "active", "hibernating", "frozen", "terminated"},
            spec : Names \union {Nobody}, name : Names \union {Nobody}, took : BOOLEAN, oriented : BOOLEAN,
            line : Agents \union {Nobody}, clock : {"running", "out", "again"},
            seasoned : BOOLEAN, cooling : BOOLEAN]]
    /\ dynasty \in [Agents -> DynastyRows]
    /\ verdict \in [Agents -> Evaluations]
    /\ graves \in [Agents -> Graves]
    /\ order \subseteq Agents
    /\ genesis.step \in {"idle", "spawn", "orient", "evaluate", "judge", "parked",
                         "allocate", "reproduce"}
    /\ genesis.dying \subseteq Agents
    /\ thinking \in Agents \union {Nobody}
    /\ upsets \in 0 .. MaxUpsets /\ births \in 0 .. MaxBirths

ColonyInit ==
    /\ agent = [a \in Agents |-> Unborn]
    /\ dynasty = [a \in Agents |-> NoDynasty]
    /\ verdict = [a \in Agents |-> "none"] /\ graves = [a \in Agents |-> 0]
    /\ order = {} /\ genesis = Idle /\ thinking = Nobody
    /\ upsets = 0 /\ births = 0

Active == {a \in Agents : agent[a].status = "active"}
Living(line) == {a \in Agents : agent[a].line = line /\ agent[a].status \notin {"none", "terminated"}}
Slots == {a \in Agents : agent[a].status = "none"}
Slot == CHOOSE a \in Slots : TRUE

\* Rows of agents the uncommitted batch has written.
Locked == {a \in Agents : genesis.judged[a] # "none"}

------------------------------------------------------------------------------
(* Boot *)

\* Who bears a founder's name: the lookup takes no notice of the status.
Bearers(n) == {a \in Agents : agent[a].name = n /\ n # Nobody /\ agent[a].spec # Nobody}
ExistingAlive(n) == {a \in Bearers(n) : agent[a].status # "terminated"}   \* mutant
Existing(n) == Bearers(n)

\* A wave follows if everybody of the one before has been oriented once; a wave
\* without its preconditions counts as completed and the next is tried.
Ready(w) == w = 1 \/ Cardinality({a \in Agents : agent[a].spec \in Waves[w - 1]
                                               /\ agent[a].oriented})
                     >= Cardinality(Waves[w - 1])
FromWave(w) ==
    LET ready == {v \in w .. Len(Waves) : Ready(v)} IN
    IF ready = {} THEN [Idle EXCEPT !.step = "evaluate"]
    ELSE LET v == CHOOSE v \in ready : \A u \in ready : v <= u IN
         [Idle EXCEPT !.step = "spawn", !.wave = v, !.todo = Waves[v]]

BeginFreshBoot ==   \* mutant: only a colony nobody waits in is booted
    /\ genesis.step = "idle" /\ Active = {}
    /\ \A a \in Agents : agent[a].status # "initializing"
    /\ genesis' = FromWave(1)
    /\ UNCHANGED <<agent, dynasty, verdict, graves, order, thinking, upsets, births>>

\* run_cycle: the boot sequence runs when nobody is active, whatever the reason.
BeginBoot ==
    /\ genesis.step = "idle" /\ Active = {}
    /\ genesis' = FromWave(1)
    /\ UNCHANGED <<agent, dynasty, verdict, graves, order, thinking, upsets, births>>

Founder(n, a) == [Unborn EXCEPT !.status = "initializing", !.spec = n, !.name = n, !.line = a]

\* scalar_one_or_none: two bearers of a name raise, and the cycle of Genesis ends.
LookupRaises(n) == Cardinality(Existing(n)) > 1

SpawnFounder ==
    /\ genesis.step = "spawn"
    /\ LET n == CHOOSE n \in genesis.todo : TRUE
           todo == genesis.todo \ {n} IN
       /\ IF Existing(n) = {} /\ Slots # {}
          THEN /\ agent' = [agent EXCEPT ![Slot] = Founder(n, Slot)]
               /\ dynasty' = [dynasty EXCEPT ![Slot] = [living |-> 1, status |-> "active"]]
          ELSE UNCHANGED <<agent, dynasty>>
       /\ genesis' = IF LookupRaises(n) THEN Idle
                     ELSE IF todo # {} THEN [genesis EXCEPT !.todo = todo]
                     ELSE [genesis EXCEPT !.step = "orient", !.todo = Waves[genesis.wave]]
    /\ UNCHANGED <<verdict, graves, order, thinking, upsets, births>>

\* Agents of a name that the choice of a name looks at, offspring included: not the
\* frozen and the dead.
Holders(n) == {a \in Agents : /\ agent[a].name = n /\ n # Nobody
                              /\ agent[a].status \in {"active", "initializing", "hibernating"}}

\* The name an agent asks for, its own if somebody else holds that.
ResolveDisplayName(a, n) ==
    IF n = agent[a].name \/ Holders(n) \ {a} # {} THEN agent[a]
    ELSE [agent[a] EXCEPT !.name = n, !.took = Bearers(n) # {}]

MarkCompleted(a, n) ==
    agent' = [agent EXCEPT ![a] = [ResolveDisplayName(a, n) EXCEPT !.status = "active", !.oriented = TRUE]]

\* After the last founder of a wave: a failure ends the boot sequence.
AfterOrientation(failed) ==
    LET todo == genesis.todo \ {CHOOSE n \in genesis.todo : TRUE} IN
    IF todo # {} THEN [genesis EXCEPT !.todo = todo, !.failed = failed]
    ELSE IF failed THEN [Idle EXCEPT !.step = "evaluate"]
    ELSE [genesis EXCEPT !.todo = {}]

\* The protocol succeeds, or what it needs of the API or the database fails.
OrientAgent(a, succeeds) ==
    IF succeeds
    THEN /\ \E n \in Names \union {Nobody} : Cardinality(Holders(n) \ {a}) <= 1 /\ MarkCompleted(a, n)
         /\ UNCHANGED upsets
    ELSE UNCHANGED agent /\ upsets < MaxUpsets /\ upsets' = upsets + 1

\* So does that of the name a founder chooses, if two others hold it; bound: it is
\* an upset to choose such a name.
ChoiceRaises(a) ==
    /\ \E n \in Names : Cardinality(Holders(n) \ {a}) > 1
    /\ upsets < MaxUpsets /\ upsets' = upsets + 1

OrientFounder ==
    /\ genesis.step = "orient" /\ genesis.todo # {}
    /\ LET n == CHOOSE n \in genesis.todo : TRUE
           unoriented == {a \in Existing(n) : ~agent[a].oriented} IN
       \/ /\ \/ LookupRaises(n) /\ UNCHANGED upsets
             \/ ~LookupRaises(n) /\ \E a \in unoriented : ChoiceRaises(a)
          /\ genesis' = Idle /\ UNCHANGED agent
       \/ /\ ~LookupRaises(n) /\ unoriented = {}
          /\ genesis' = AfterOrientation(genesis.failed)
          /\ UNCHANGED <<agent, upsets>>
       \/ \E a \in unoriented, succeeds \in BOOLEAN :
          /\ ~LookupRaises(n) /\ OrientAgent(a, succeeds)
          /\ genesis' = AfterOrientation(genesis.failed \/ ~succeeds)
    /\ UNCHANGED <<dynasty, verdict, graves, order, thinking, births>>

EndWave ==
    /\ genesis.step = "orient" /\ genesis.todo = {}
    /\ genesis' = FromWave(genesis.wave + 1)
    /\ UNCHANGED <<agent, dynasty, verdict, graves, order, thinking, upsets, births>>

------------------------------------------------------------------------------
(* Evaluation *)

DueUnlessThinking(a) ==   \* mutant
    agent[a].status = "active" /\ agent[a].clock # "running" /\ a # thinking
Due(a) == agent[a].status = "active" /\ agent[a].clock # "running"

BeginEvaluations ==
    /\ \/ genesis.step = "evaluate"
       \/ genesis.step = "idle" /\ Active # {}
    /\ LET due == {a \in Agents : Due(a)} IN
       genesis' = IF due = {} THEN [Idle EXCEPT !.step = "reproduce"]
                  ELSE [Idle EXCEPT !.step = "judge", !.todo = due]
    /\ UNCHANGED <<agent, dynasty, verdict, graves, order, thinking, upsets, births>>

\* What the metrics of an agent's role say against the thresholds of its role.
Metrics == {"above", "between", "below"}

\* Nobody fails a first evaluation, nor one of a period under alert outright.
PreFilter(a, metrics, stressed) ==
    IF ~agent[a].seasoned \/ metrics = "above" THEN "survive"
    ELSE IF metrics = "between" \/ stressed THEN "probation" ELSE "terminate"

\* Genesis decides about probation; a call that fails spares the agent.
GenesisJudgment == {"survive_probation", "terminate"}

Final(filtered, decision) ==
    CASE filtered = "survive" -> "survived"
      [] filtered = "terminate" \/ decision = "terminate" -> "terminated"
      [] OTHER -> "probation"
Finals(a) == {Final(PreFilter(a, metrics, stressed), decision) :
                  metrics \in Metrics, stressed \in BOOLEAN, decision \in GenesisJudgment}

\* The evaluation is written, then, under a savepoint, the death.
DecidedInName(on, a, final) == [on EXCEPT !.judged[a] = final]   \* mutant: savepoint lost
Decided(on, a, final) ==
    [on EXCEPT !.judged[a] = final,
               !.dying = IF final = "terminated" THEN @ \union {a} ELSE @]

\* track_api_call of what the last words cost: its UPDATE of the agent's row, in a
\* session of its own, waits if the batch has written that row.  The death protocol
\* has, if there were orders to cancel: the query after that flushes reserved_cash.
ChargeWaits(a) == a \in order

\* Nothing gives up waiting for it: the time limit of the bridge ends at a thread
\* pool that waits for its thread.
RunAsyncSafely(on, a) ==
    IF ChargeWaits(a) THEN [on EXCEPT !.step = "parked", !.parked = a] ELSE on

\* Bound: a charge that waits, or is spared it by an API without last words, is an
\* upset.
ExecuteDecision ==
    /\ genesis.step = "judge" /\ genesis.todo # {}
    /\ LET a == CHOOSE a \in genesis.todo : TRUE
           on == [genesis EXCEPT !.todo = @ \ {a}] IN
       \E final \in Finals(a), spoken \in BOOLEAN :
           /\ genesis' = IF final = "terminated" /\ spoken
                         THEN RunAsyncSafely(Decided(on, a, final), a)
                         ELSE Decided(on, a, final)
           /\ IF final = "terminated" /\ ChargeWaits(a)
              THEN upsets < MaxUpsets /\ upsets' = upsets + 1 ELSE UNCHANGED upsets
    /\ UNCHANGED <<agent, dynasty, verdict, graves, order, thinking, births>>

\* An exception, one of the death protocol included, ends the batch: its session
\* is closed without a commit and the cycle goes on.
EvaluateBatchFails ==
    /\ genesis.step = "judge" /\ upsets < MaxUpsets /\ upsets' = upsets + 1
    /\ genesis' = [Idle EXCEPT !.step = "reproduce"]
    /\ UNCHANGED <<agent, dynasty, verdict, graves, order, thinking, births>>

\* A clock that survival sets runs anew; probation halves what remains of one
\* that has run out, which leaves it in the past.
Evaluated(a) ==
    CASE a \in genesis.dying -> [agent[a] EXCEPT !.status = "terminated", !.seasoned = TRUE]
      [] genesis.judged[a] = "survived" -> [agent[a] EXCEPT !.clock = "running", !.seasoned = TRUE]
      [] genesis.judged[a] = "probation" -> [agent[a] EXCEPT !.clock = "again", !.seasoned = TRUE]
      [] OTHER -> agent[a]

RecordDeaths(line) ==
    LET dead == Cardinality({a \in genesis.dying : agent[a].line = line})
        living == dynasty[line].living
        left == IF dead > living THEN 0 ELSE living - dead IN
    IF dead = 0 THEN dynasty[line]
    ELSE [living |-> left, status |-> IF left = 0 THEN "extinct" ELSE dynasty[line].status]

Memorials(a) == IF a \in genesis.dying /\ graves[a] < 2 THEN graves[a] + 1 ELSE graves[a]

CommitBatch ==
    /\ genesis.step = "judge" /\ genesis.todo = {}
    /\ agent' = [a \in Agents |-> Evaluated(a)]
    /\ dynasty' = [line \in Agents |-> RecordDeaths(line)]
    /\ verdict' = [a \in Agents |-> IF genesis.judged[a] = "none" THEN verdict[a]
                                    ELSE genesis.judged[a]]
    /\ graves' = [a \in Agents |-> Memorials(a)]
    /\ order' = order \ genesis.dying
    /\ genesis' = [Idle EXCEPT !.step = "allocate"]
    /\ UNCHANGED <<thinking, upsets, births>>

Trader(a) == agent[agent[a].line].spec \in Operators

\* Capital is handed out by a ranking of whoever is active (Treasury has the
\* round).  It adds to a Sharpe ratio that only operators have: with anybody else
\* awake the cycle ends here, without the steps that follow.
GenerateLeaderboard ==
    /\ genesis.step = "allocate"
    /\ genesis' = IF \A a \in Active : Trader(a) THEN [Idle EXCEPT !.step = "reproduce"] ELSE Idle
    /\ UNCHANGED <<agent, dynasty, verdict, graves, order, thinking, upsets, births>>

------------------------------------------------------------------------------
(* Reproduction and the rest of the cycle *)

\* The share of a dynasty among the active, above the limit or not.
Blocked(line) == Active # {} /\ dynasty[line].living * 100 > HardLimit * Cardinality(Active)

\* Prestige, score and profit may favour anybody who has been evaluated, a dead
\* agent too; only a living parent has to wait before its next offspring.
EligibleCandidates ==
    {a \in Agents : /\ agent[a].status \in {"active", "terminated"}
                    /\ agent[a].seasoned /\ ~agent[a].cooling}

\* Genesis is asked; when the API fails the birth is approved.
ShouldReproduce == BOOLEAN

RecordBirthUnlessExtinct(line) ==   \* mutant
    IF dynasty[line].status = "extinct" THEN dynasty ELSE [dynasty EXCEPT ![line].living = @ + 1]
RecordBirth(line) == [dynasty EXCEPT ![line].living = @ + 1]

\* Genesis suggests the name of a child; nothing is looked up.
BuildOffspring(parent, n) ==
    LET child == [Unborn EXCEPT !.status = "active", !.name = n, !.line = agent[parent].line]
        cooling == agent[parent].status = "active" IN
    /\ Slots # {} /\ births < MaxBirths /\ births' = births + 1
    /\ agent' = [agent EXCEPT ![Slot] = child, ![parent].cooling = @ \/ cooling]
    /\ dynasty' = RecordBirth(agent[parent].line)

CheckAndReproduce ==
    /\ genesis.step = "reproduce" /\ genesis' = Idle
    /\ \/ UNCHANGED <<agent, dynasty, births>>
       \/ \E parent \in EligibleCandidates, approved \in ShouldReproduce, n \in Suggested :
              approved /\ ~Blocked(agent[parent].line) /\ BuildOffspring(parent, n)
    /\ UNCHANGED <<verdict, graves, order, thinking, upsets>>

\* Whoever the wake check finds it is time for (AgentCycles has its conditions).
WakeAgents ==
    /\ genesis.step = "idle"
    /\ \E woken \in SUBSET {a \in Agents : agent[a].status = "hibernating"} :
           woken # {} /\ agent' = [a \in Agents |-> IF a \in woken THEN [agent[a] EXCEPT !.status = "active"]
                                      ELSE agent[a]]
    /\ UNCHANGED <<dynasty, verdict, graves, order, genesis, thinking, upsets, births>>

RestartGenesis ==
    /\ genesis.step # "idle" /\ upsets < MaxUpsets /\ upsets' = upsets + 1
    /\ genesis' = Idle
    /\ UNCHANGED <<agent, dynasty, verdict, graves, order, thinking, births>>

------------------------------------------------------------------------------
(* The other processes *)

\* The scheduler passes over whoever was never oriented, offspring for one.
StartThinking ==
    /\ thinking = Nobody
    /\ \E a \in Active : agent[a].oriented /\ thinking' = a
    /\ UNCHANGED <<agent, dynasty, verdict, graves, order, genesis, upsets, births>>

\* The cycle ends: with a limit order that reserves cash, asleep, or neither.
EndThinking ==
    /\ thinking # Nobody /\ thinking \notin Locked /\ thinking' = Nobody
    /\ \/ /\ Trader(thinking)
          /\ order' = order \union {thinking} /\ UNCHANGED agent
          /\ UNCHANGED upsets
       \/ /\ agent[thinking].status # "terminated" /\ UNCHANGED <<order, upsets>>
          /\ agent' = [agent EXCEPT ![thinking].status = "hibernating"]
       \/ /\ agent[thinking].status = "terminated" /\ UNCHANGED order
          /\ upsets < MaxUpsets /\ upsets' = upsets + 1
          /\ agent' = [agent EXCEPT ![thinking].status = "hibernating"]
       \/ UNCHANGED <<agent, order, upsets>>
    /\ UNCHANGED <<dynasty, verdict, graves, genesis, births>>

\* A fill, an expiry: the order ends and writes the agent's row.
OrderEnds ==
    /\ \E a \in order \ Locked : order' = order \ {a}
    /\ UNCHANGED <<agent, dynasty, verdict, graves, genesis, thinking, upsets, births>>

\* The freeze of the Warden; it waits for rows that are locked.
FreezeAllAgents ==
    /\ Active # {} /\ Active \intersect Locked = {}
    /\ upsets < MaxUpsets /\ upsets' = upsets + 1
    /\ agent' = [a \in Agents |-> IF a \in Active THEN [agent[a] EXCEPT !.status = "frozen"]
                                  ELSE agent[a]]
    /\ UNCHANGED <<dynasty, verdict, graves, order, genesis, thinking, births>>

\* Time: a survival clock runs out.
ClockRunsOut ==
    /\ \E a \in Agents : agent[a].status \in {"active", "hibernating"} /\ agent[a].clock = "running"
                         /\ agent' = [agent EXCEPT ![a].clock = "out"]
    /\ UNCHANGED <<dynasty, verdict, graves, order, genesis, thinking, upsets, births>>

GenesisNext ==
    \/ BeginBoot \/ SpawnFounder \/ OrientFounder \/ EndWave
    \/ BeginEvaluations \/ ExecuteDecision \/ CommitBatch \/ GenerateLeaderboard
    \/ CheckAndReproduce

ColonyNext ==
    \/ GenesisNext \/ WakeAgents \/ EvaluateBatchFails \/ RestartGenesis
    \/ StartThinking \/ EndThinking \/ OrderEnds \/ FreezeAllAgents \/ ClockRunsOut

ColonySpec == ColonyInit /\ [][ColonyNext]_colonyVars /\ WF_colonyVars(GenesisNext)

------------------------------------------------------------------------------
(* Agents that rose from the dead: their own cycle ended asleep after Genesis *)
(* had buried them, and the wake check does the rest.                         *)
Risen == {a \in Agents : graves[a] > (IF agent[a].status = "terminated" THEN 1 ELSE 0)}

(* However often the colony is booted, the name of a founder has one bearer at *)
(* most, dead or alive, besides those who chose it behind the back of a frozen *)
(* or dead one (BootSequenceOrchestrator._process_wave, resolve_display_name). *)
OneBearer == \A n \in Names : Cardinality({a \in Bearers(n) : ~agent[a].took}) <= 1

(* living_members, by which births are blocked and dynasties declared extinct, *)
(* is the number of living members as long as nobody rose from the dead, over  *)
(* failed batches, restarts and offspring of the dead (DynastyManager).        *)
LivingCounted ==
    \A line \in Agents :
        (\A a \in Risen : agent[a].line # line)
            => dynasty[line].living = Cardinality(Living(line))

(* What the evaluation says and what became of the agent agree, failed death   *)
(* protocols included: a verdict of termination is in the books of agents that *)
(* were buried, and nobody is terminated by anything else                      *)
(* (EvaluationEngine._terminate_agent and its savepoint).                      *)
VerdictsAreCarriedOut ==
    \A a \in Agents :
        /\ verdict[a] = "terminated" => graves[a] > 0
        /\ agent[a].status = "terminated" => verdict[a] = "terminated"

(* An active agent whose clock has run out is evaluated, or stops being        *)
(* active, unless Genesis is parked; failed batches and restarts only delay it *)
(* (GenesisAgent._run_evaluations).                                            *)
DueAreEvaluated ==
    \A a \in Agents :
        (agent[a].status = "active" /\ agent[a].clock = "out")
            ~> (agent[a].clock # "out" \/ agent[a].status # "active" \/ genesis.step = "parked")

(* While nobody is active, founders who wait for their orientation get it: the *)
(* boot is tried again until one of them is active, through failures, restarts *)
(* and freezes, unless a name has two bearers                                  *)
(* (GenesisAgent._maybe_run_boot_sequence).                                    *)
Waiting == \E a \in Agents : agent[a].status = "initializing"
BootRaises == \E n \in Names : Cardinality(Bearers(n)) > 1
BootRecovers ==
    (Active = {} /\ Waiting) ~> (Active # {} \/ genesis.step = "parked" \/ BootRaises)

(* What the boot sequence promises, "resumes from wherever it left off": a     *)
(* founder who waits for its orientation is oriented in the end                *)
(* (BootSequenceOrchestrator.run_boot_sequence).                               *)
BootResumes ==
    \A a \in Agents : agent[a].status = "initializing"
                         ~> (agent[a].oriented \/ genesis.step = "parked")

(* "short enough that a stalled worker doesn't park the calling async flow     *)
(* indefinitely" (common/async_bridge.py).                                     *)
NeverParked == genesis.step # "parked"

===============================================================================
