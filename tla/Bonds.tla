--------------------------------- MODULE Bonds ---------------------------------
(***************************************************************************)
(* What holds agents together: alliances they propose, accept and          *)
(* dissolve, trust that grows out of the trades they had a part in,        *)
(* memories of what they learned, and what of it a child inherits.         *)
(*                                                                         *)
(* The agents process writes in one transaction per cycle: decide, flush   *)
(* (the row is locked), commit with the agent's own row.  Genesis buries   *)
(* an agent in a transaction of several statements: its row first, the     *)
(* alliances, the ties, the commit of the batch.  Each waits for the row   *)
(* locks of the other, and when both wait the database ends one of them.   *)
(***************************************************************************)
EXTENDS Integers, Sequences, FiniteSetsExt

CONSTANTS
    Agents, Founders,   \* the others are born
    Trades,             \* who had a part in a trade: operator, strategist, scout, critic
    NoAgent,
    Reflecting, MaxAlliances, MaxMemories, MaxTurns    \* bounds

ASSUME BondsAssumption ==
    /\ Founders \union Reflecting \subseteq Agents /\ NoAgent \notin Agents
    /\ \A t \in Trades : {t.operator, t.strategist, t.scout} \subseteq Agents
                         /\ t.critic \in Agents \union {NoAgent}
    /\ {MaxAlliances, MaxMemories, MaxTurns} \subseteq Nat

VARIABLES
    alive,       \* agents with status active
    alliances,   \* AgentAlliance rows
    ties,        \* AgentRelationship rows, by holder and target
    memories,    \* AgentLongTermMemory rows of each agent
    turn,        \* the cycle in progress in the agents process
    burial,      \* the death protocol in progress
    turns,
    released     \* the dead, and the alliances and ties their burials found

bondsVars == <<alive, alliances, ties, memories, turn, burial, turns, released>>

Pairs == Agents \X Agents

AllianceRows == [from : Agents, to : Agents, status : {"proposed", "active", "dissolved"}]

\* Trust is computed from the outcomes.
TieRows == [row : {"none", "live", "archived"}, positive : Nat, negative : Nat]
NoTie == [row |-> "none", positive |-> 0, negative |-> 0]
NewTie == [NoTie EXCEPT !.row = "live"]

\* Confidence in twentieths.
MemoryRows == [confidence : 0..20, active : BOOLEAN, source : {"self", "parent", "grandparent"}]

\* A decision of a turn: the alliances, ties and memories it writes.
Unwritten == [alliance |-> 0, row |-> NoAgent, ties |-> {}, outcome |-> "", lessons |-> <<>>]
NoTurn == [by |-> NoAgent, step |-> "none", write |-> Unwritten]
NoBurial == [of |-> NoAgent, step |-> "none", ends |-> {}, due |-> {}, ties |-> {}]

BondsTypes ==
    /\ alive \subseteq Agents
    /\ alliances \in Seq(AllianceRows)
    /\ ties \in [Pairs -> TieRows]
    /\ memories \in [Agents -> Seq(MemoryRows)]
    /\ turn.by \in Agents \union {NoAgent} /\ turn.step \in {"none", "decide", "flush", "commit"}
    /\ burial.of \in Agents \union {NoAgent}
    /\ burial.step \in {"none", "marked", "found", "flushed", "archived"}
    /\ turns \in 0..MaxTurns

BondsInit ==
    /\ alive = Founders
    /\ alliances = <<>>
    /\ ties = [p \in Pairs |-> NoTie]
    /\ memories = [a \in Agents |-> <<>>]
    /\ turn = NoTurn /\ burial = NoBurial
    /\ turns = 0
    /\ released = [agents |-> {}, alliances |-> {}, ties |-> {}]

rows == <<alive, alliances, ties, memories>>

-------------------------------------------------------------------------------
(* The agents process: one cycle *)

\* Children are active from their birth, but get no turn: nobody orients them.
BeginTurn(a) ==
    /\ turn = NoTurn /\ turns < MaxTurns
    /\ a \in alive \intersect Founders
    /\ turn' = [NoTurn EXCEPT !.by = a, !.step = "decide"]
    /\ turns' = turns + 1
    /\ UNCHANGED <<rows, burial, released>>

Decide(write) ==
    /\ turn.step = "decide"
    /\ turn' = [turn EXCEPT !.step = "flush", !.write = write]
    /\ UNCHANGED <<rows, burial, turns, released>>

Members(i) == {alliances[i].from, alliances[i].to}

\* An alliance of the two, proposed by either, that is not over.
OpenAlliance(a, b) ==
    \E i \in DOMAIN alliances : /\ alliances[i].status \in {"proposed", "active"}
                                /\ Members(i) = {a, b}

ProposeAlliance(b) ==
    /\ Len(alliances) < MaxAlliances
    /\ b \in alive \ {turn.by}
    /\ ~OpenAlliance(turn.by, b)
    /\ Decide([Unwritten EXCEPT !.alliance = Len(alliances) + 1,
                                !.row = [from |-> turn.by, to |-> b, status |-> "proposed"]])

\* Whether the proposer still lives is not asked.
AcceptAlliance(i) ==
    /\ alliances[i].status = "proposed" /\ alliances[i].to = turn.by
    /\ Decide([Unwritten EXCEPT !.alliance = i,
                                !.row = [alliances[i] EXCEPT !.status = "active"]])

DissolveAlliance(i) ==
    /\ alliances[i].status = "active" /\ turn.by \in Members(i)
    /\ Decide([Unwritten EXCEPT !.alliance = i,
                                !.row = [alliances[i] EXCEPT !.status = "dissolved"]])

\* Who trusts whom through a trade that closed: the operator its strategist,
\* the strategist the scout and the critic who approved.
PipelineTies(t) ==
    {p \in {<<t.operator, t.strategist>>, <<t.strategist, t.scout>>} : p[1] # p[2]}
    \union IF t.critic = NoAgent THEN {} ELSE {<<t.strategist, t.critic>>}

Unborn == Agents \ (Founders \union alive \union released.agents)

\* The position is closed in a transaction of the trading service; without
\* profit or loss nothing is learned.  Its plan is the work of agents that were born.
ClosePosition(t) ==
    /\ turn.by = t.operator /\ {t.strategist, t.scout, t.critic} \intersect Unborn = {}
    /\ \E outcome \in {"positive", "negative"} :
        Decide([Unwritten EXCEPT !.ties = PipelineTies(t), !.outcome = outcome])

Promoted(m) == [m EXCEPT !.confidence = Min({20, @ + 2})]

\* Forgotten at 0; a difference of exactly 0 may be rounded to more.
Demoted(m, rounded) ==
    [m EXCEPT !.confidence = Max({0, @ - 3}),
              !.active = m.confidence > 3 \/ (m.confidence = 3 /\ rounded)]

AddMemory(memory, confidence) ==
    IF Len(memory) = MaxMemories THEN memory
    ELSE Append(memory, [confidence |-> confidence, active |-> TRUE, source |-> "self"])

\* A lesson, and a pattern or a note if there is one.
WithLessons(memory, more) ==
    LET taught == AddMemory(memory, 12)
    IN  IF more THEN AddMemory(taught, 10) ELSE taught

\* A fragment of text finds any active memory that contains it, or none.
Matched(memory) == {i \in DOMAIN memory : memory[i].active} \union {0}

PromoteByContent(memory, i) == IF i = 0 THEN memory ELSE [memory EXCEPT ![i] = Promoted(@)]

DemoteByContent(memory, i, rounded) ==
    IF i = 0 THEN memory ELSE [memory EXCEPT ![i] = Demoted(@, rounded)]

\* process_reflection: add, promote, demote.  Mentions of other agents are not
\* looked at: the event loop is running.
Reflect ==
    /\ turn.by \in Reflecting
    /\ \E more, rounded \in BOOLEAN :
          LET taught == WithLessons(memories[turn.by], more)
          IN  \E up \in Matched(taught), down \in Matched(taught) :
              Decide([Unwritten EXCEPT !.lessons =
                          DemoteByContent(PromoteByContent(taught, up), down, rounded)])

LockedByBurial(write) ==
    \/ burial.step \in {"flushed", "archived"} /\ write.alliance \in burial.ends
    \/ burial.step = "archived" /\ write.ties \intersect burial.ties # {}

FlushTurn ==
    /\ turn.step = "flush" /\ ~LockedByBurial(turn.write)
    /\ turn' = [turn EXCEPT !.step = "commit"]
    /\ UNCHANGED <<rows, burial, turns, released>>

\* record_interaction: one outcome more; a tie is made when there is none, and
\* one that was archived stays archived.
RecordInteraction(tie, outcome) ==
    LET known == IF tie.row = "none" THEN NewTie ELSE tie
    IN  IF outcome = "positive" THEN [known EXCEPT !.positive = 1]
        ELSE [known EXCEPT !.negative = 1]

WithAlliance(write) ==
    IF write.alliance = 0 THEN alliances
    ELSE IF write.alliance > Len(alliances) THEN Append(alliances, write.row)
    ELSE [alliances EXCEPT ![write.alliance].status = write.row.status]

\* The agent's own row is written last: not while Genesis holds it.
CommitTurn ==
    /\ turn.step = "commit" /\ burial.of # turn.by
    /\ alliances' = WithAlliance(turn.write)
    /\ ties' = [p \in Pairs |-> IF p \in turn.write.ties
                                THEN RecordInteraction(ties[p], turn.write.outcome) ELSE ties[p]]
    /\ memories' = [memories EXCEPT ![turn.by] =
                        IF turn.write.lessons = <<>> THEN @ ELSE turn.write.lessons]
    /\ turn' = NoTurn
    /\ UNCHANGED <<alive, burial, turns, released>>

\* The cycle fails, or the process dies.
AbortTurn ==
    /\ turn # NoTurn
    /\ turn' = NoTurn
    /\ UNCHANGED <<rows, burial, turns, released>>

-------------------------------------------------------------------------------
(* Genesis: the death protocol *)

BeginBurial(a) ==
    /\ burial = NoBurial
    /\ a \in alive
    /\ burial' = [NoBurial EXCEPT !.of = a, !.step = "marked"]
    /\ UNCHANGED <<rows, turn, turns, released>>

\* Mutant: as the one who proposed.
ActiveAsProposer(a) ==
    {i \in DOMAIN alliances : alliances[i].status = "active" /\ a = alliances[i].from}

\* What is only proposed is left alone.
ActiveAlliances(a) ==
    {i \in DOMAIN alliances : alliances[i].status = "active" /\ a \in Members(i)}

\* Recorded for the property.
Allied(a) == {i \in DOMAIN alliances : alliances[i].status = "active"
                                       /\ a \in {alliances[i].from, alliances[i].to}}

FindAlliances ==
    /\ burial.step = "marked"
    /\ burial' = [burial EXCEPT !.step = "found", !.ends = ActiveAlliances(burial.of),
                               !.due = Allied(burial.of)]
    /\ UNCHANGED <<rows, turn, turns, released>>

LockedByTurn(ends, bound) ==
    /\ turn.step = "commit"
    /\ turn.write.alliance \in ends \/ turn.write.ties \intersect bound # {}

DissolveOnDeath ==
    /\ burial.step = "found" /\ ~LockedByTurn(burial.ends, {})
    /\ burial' = [burial EXCEPT !.step = "flushed"]
    /\ UNCHANGED <<rows, turn, turns, released>>

LiveTies(a) == {p \in Pairs : ties[p].row = "live" /\ a \in {p[1], p[2]}}

\* Two updates; a row that is not committed yet is not seen.
ArchiveRelationships ==
    /\ burial.step = "flushed" /\ ~LockedByTurn({}, LiveTies(burial.of))
    /\ burial' = [burial EXCEPT !.step = "archived", !.ties = LiveTies(burial.of)]
    /\ UNCHANGED <<rows, turn, turns, released>>

CommitBurial ==
    /\ burial.step = "archived"
    /\ alive' = alive \ {burial.of}
    /\ alliances' = [i \in DOMAIN alliances |->
                        IF i \in burial.ends THEN [alliances[i] EXCEPT !.status = "dissolved"]
                        ELSE alliances[i]]
    /\ ties' = [p \in Pairs |-> IF p \in burial.ties THEN [ties[p] EXCEPT !.row = "archived"]
                                ELSE ties[p]]
    /\ burial' = NoBurial
    /\ released' = [agents |-> released.agents \union {burial.of},
                    alliances |-> released.alliances \union burial.due,
                    ties |-> released.ties \union burial.ties]
    /\ UNCHANGED <<memories, turn, turns>>

\* The batch fails: everybody lives.
RollbackBurial ==
    /\ burial # NoBurial
    /\ burial' = NoBurial
    /\ UNCHANGED <<rows, turn, turns, released>>

-------------------------------------------------------------------------------
(* Genesis: offspring *)

\* Three quarters of the confidence, but never less than two.
InheritedMemory(m) ==
    [confidence |-> Max({(m.confidence * 3) \div 4, 2}), active |-> TRUE,
     source |-> IF m.source = "self" THEN "parent" ELSE "grandparent"]

TransferMemories(parent) ==
    LET kept == SelectSeq(memories[parent], LAMBDA m : m.active)
    IN  [i \in DOMAIN kept |-> InheritedMemory(kept[i])]

\* A child starts with its parent's live ties, without their history.
TransferRelationships(parent, child) ==
    [p \in Pairs |-> IF p[1] = child /\ ties[<<parent, p[2]>>].row = "live" THEN NewTie
                     ELSE ties[p]]

\* The parent may be dead.
BearChild(parent, child) ==
    /\ burial = NoBurial
    /\ child \in Unborn /\ parent \in Founders
    /\ alive' = alive \union {child}
    /\ memories' = [memories EXCEPT ![child] = TransferMemories(parent)]
    /\ ties' = TransferRelationships(parent, child)
    /\ UNCHANGED <<alliances, turn, burial, turns, released>>

-------------------------------------------------------------------------------

ActOnBonds ==
    \/ \E b \in Agents : ProposeAlliance(b)
    \/ \E i \in DOMAIN alliances : AcceptAlliance(i) \/ DissolveAlliance(i)
    \/ \E t \in Trades : ClosePosition(t)
    \/ Reflect

TurnNext ==
    \/ \E a \in Agents : BeginTurn(a)
    \/ turn.step = "decide" /\ ActOnBonds
    \/ FlushTurn \/ CommitTurn \/ AbortTurn

GenesisNext ==
    \/ \E a \in Agents : BeginBurial(a)
    \/ FindAlliances \/ DissolveOnDeath \/ ArchiveRelationships
    \/ CommitBurial \/ RollbackBurial
    \/ \E parent, child \in Agents : BearChild(parent, child)

BondsNext == TurnNext \/ GenesisNext

BondsSpec == BondsInit /\ [][BondsNext]_bondsVars

-------------------------------------------------------------------------------
(* Properties *)

\* The alliances that were active when an agent was buried are over and the
\* ties it had are archived, whatever cycle was writing them at the time.
DeadAreReleased ==
    /\ \A i \in DOMAIN alliances :
        Members(i) \intersect released.agents # {} /\ alliances[i].status = "active"
            => i \notin released.alliances
    /\ \A p \in released.ties : ties[p].row = "archived"

\* An alliance is over with the death of a member.
NoAllyIsDead ==
    \A i \in DOMAIN alliances : alliances[i].status = "active" => Members(i) \subseteq alive

===============================================================================
