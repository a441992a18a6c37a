# Project Syndicate in TLA+

Project Syndicate is a colony of trading agents: processes that think, trade on
paper, earn and lose reputation, are evaluated by Genesis, watched by the Warden
and fed by a news pipeline, the Wire. This directory models the parts of it
whose correctness depends on the order in which things happen.

TLC checks every run on a small instance; TLAPS proves the theorems listed below
for every value of the constants.

## The system

Every component is a Python process or a library inside one. They share one
Postgres database (READ COMMITTED, no row versions) and one Redis.

| process | runs | state it owns |
|---|---|---|
| `run_agents` | thinking cycles, one agent at a time, a session per cycle; `PaperTradingService`; a Warden object of its own; the halt store | orders, positions, balances, pipeline, bonds |
| `run_trading` | `PositionMonitor`, `LimitOrderMonitor` in one event loop | the same rows |
| `run_warden` | `Warden.check_cycle` every 30 s | `system_state.alert_status`, its own snapshots |
| `run_genesis` | `GenesisAgent.run_cycle` every 5 min | agents, evaluations, treasury, review queue, economy, governance, library, Agora receipts |
| `wire_scheduler`, CLI | ingestors, `HaikuDigester` | raw items, events, health of sources, halts in Redis |
| `heartbeat` | the dead man's switch | `last_heartbeat_at` |
| `run_arena` | starts, verifies, restarts and stops the others | its children |
| dashboard, price fetcher | read, render, cache prices | prices in Redis |

How they interact: through rows that several processes read and write as absolute
values; through Redis keys with a time to live (close locks, halts, rate limits);
through tables read later by somebody else (waiting results, review queue, Agora);
through calls inside a process (halt check, then Warden, then books).

### Components

| component | state | operations | hard behaviour | what makes it correct |
|---|---|---|---|---|
| paper trading | balances, orders, positions, close locks | orders, cancel, close, fill, expire, stop, take profit | three processes write the same rows; locks expire; a process dies holding one | money is conserved, reservations match orders, a position ends once |
| Warden and gate | alert in memory and database, snapshots, frozen agents | assess, judge requests, escalate, write; refresh before each trade | outages, failed posts, restart without snapshots, a slow trade behind a changed alert | a trade past the gate is the last; the breaker trips; an outage freezes nobody |
| Wire | sources and their health, raw items, events | fetch, persist a batch, back off, digest, dead-letter | a known item undoes its batch; a source that raises stands in front; two digesters | what is stored is digested, whatever fails around it |
| operator halt | keys in Redis, the latch of the service | publish, check, expire | crash between Redis and database, outage, two digesters | no order under a halt but the one past the check |
| regime review queue | status and attempts of events | consume, assess, mark | restart between steps, poisoned rows | reviewed or given up, never for ever |
| thinking cycle | budgets, cycles, times in two places | schedule, gate, think, act, record | budget read before it is spent, cycles that abort | cooldown, bounded overrun, no starvation, everything spent is charged |
| pipeline | opportunities, plans, waiting results | hand on, judge, convert, expire, deliver | delivered in a transaction before the call it is for | nothing is shown twice or waits for ever |
| learning | studies, genome, tools, claims | study, modify, run, claim, settle | a cycle is one transaction; Genesis evaluates meanwhile | caps hold up to the race they have |
| bonds | alliances, trust, memories | propose, accept, break, bury, bear | row locks of two processes | the dead hold nobody |
| Agora | messages, receipts, allowances | post, write beside it, read, mark | a message is older than the commit that shows it | what is hidden has a reason |
| economy | reputation, escrow, endorsements, reviews | endorse, settle, request, accept, submit, expire | several transactions per operation | a stake comes back once, a review is paid |
| library | contributions, reviews, records | submit, assign, review, time out, publish | the process dies between decision and publication | what was reviewed is settled |
| governance | proposals, votes, parameters | debate, vote, tally, ratify, apply | a pass that fails undoes all proposals' progress | approved changes only, weights add up, no proposal stands still |
| treasury | balance, allocations, exchange rate | boot, award, bear, fetch the rate | an award is checked, converted and written in three sessions; agents are frozen or rise meanwhile | the reserve is not handed out |
| life cycle | agents, dynasties, memorials | boot, orient, evaluate, bury, bear, wake | one commit for a batch that calls out to Claude | verdicts and deaths agree, the due are evaluated |
| Arena, dead man's switch | children, heartbeat, boot stamp | boot, verify, restart, stop; beat, watch | who watches the watcher; strays | a boot is verified, a silence is announced |

`PROJECT.json` lists every component with its sources and how far it is modelled,
and under `hazards` the places where this code can go wrong and a test would
hardly reach.

## Modules

Definitions keep the names of the functions they translate; `map` in
`PROJECT.json` gives the lines. A definition commented "Mutant" is a plausible
bug: with it in place of the definition that follows it, the property named in
`PROJECT.json` must fail. `MC...` modules hold the instances for TLC.

### Money and halts

`CashAccount`: what the books promise. Money is free, or held for one order;
it is spent only out of what is free or of what the filled order holds, and a
hold is given up once.

`PaperLedger`: the books when each transaction runs alone. One action per
transaction: `RejectOrder`, `ExecuteMarketOrder`, `ExecuteLimitOrder`,
`CancelOrder`, `ClosePosition` (`execution_service.py`), `FillLimitOrder`,
`ExpireOrder` (`limit_order_monitor.py`), `ExecuteStopLoss`,
`ExecuteTakeProfit` (`position_monitor.py`), `ExecuteDeathProtocol`
(`evaluation_engine.py`). Money is in whole units. Nothing in the code asks for a
positive `size_usd`, and a take-profit is filled at the price the agent wrote: sizes
and the values of positions at their exits (members of `Values`, which stand for
price and slippage) are any integers, and of a fee only "between 0 and the value" is
used. What a size that is not a number does (NaN passes every comparison as false) is
outside the model. Every release is the code's own: the fill takes off what the order
reserved, cancel, expiry and death cut at zero. `sound` is history: no amount of this
agent has been negative so far. A dead agent's orders and positions are still
reachable, as in the code. `Tally` has the sums.

`PaperRaces`: the same transactions on the rows of one agent, split where the
code reads and where it commits. A call of the service holds the agent's row as
loaded; a monitor cycle holds the rows of its query and writes all at its one
commit; the batch of Genesis holds `reserved_cash` as loaded when it began. The
close lock is a key that goes away by itself; the position monitor takes and
gives it back around changes that are only in memory, so its lock is not a state.
`SkipPosition` is a position it leaves alone in a cycle: locked, without a ticker, or
with a price older than the monitor allows ("never execute against a stale price");
`DiscardCycle` is a batch fetch that fails or an exception that ends the cycle before
its commit.

`Warden`: the alert cycle, step by step as in `check_cycle`, and the gate in the
agents process, which refreshes before it judges. Time is counted in cycles, the
4 hour window is `Window` cycles, thresholds are in per cent as in `config.py`.
The limits of a single agent are one nondeterministic verdict. Nothing in the
repository pushes to the list `trade_requests`; `PushRequest` is what another
client could do, and the properties that it would break are stated for
`pushed = 0`.

`Treasury`: capital. The balance is what is left of the treasury, in CAD, after the
reserve and after what active, evaluating and hibernating agents were allocated, in
USDT, at the rate of the moment. `SpawnHolder` and `BearHolder` give founders and
offspring their capital without looking at it; after evaluations
`GenerateLeaderboard` and `PerformAllocationRound` turn it into awards, of which
`AllocateCapital` checks one at a time against a balance of its own and `WriteAward`
converts and writes it in another session. `excess` is history: how much more was
committed than may be, as caused by something else than a round. `MCWarden`
composes `Warden` and `Treasury`, which share no state, one per behaviour.

`OperatorHalt`: a digester takes pending items in order, writes the halt to
Redis, commits the event. The order check reads Redis, sets or clears the latch
and lets the order go on. `Tick` is the clock of the keys; `RedisUp` may come
back without them.

`Wire` EXTENDS `OperatorHalt` and puts the feeds in front of it: a tick of the
scheduler runs the sources that are due by name and then digests, the command
line fetches and digests beside it. Every source's `fetch_raw` is an operator that
turns what has been announced into the list the runner gets (`KrakenAnnouncements`,
`CryptoPanic`, `EtherscanTransfers`, `DefiLlama`, `FundingRates`, `Fred`,
`TradingEconomics`, `FearGreed`), and `PersistItems` is the runner's one
transaction, of which a known item undoes all that came before it. The
assumptions in `MCWire` say what this does to each kind of feed: a calendar keeps
everything, a feed that lists the newest first keeps its first fetch and then
nothing until the known items have left the window, a transfer between two
watched wallets is listed twice and lost whenever both answer.

### Genesis and its supervisor

`RegimeReviews`: the queue inside `wire_events`: consume (attempts counted and
committed), detect the regime, the other steps, mark by id. Anything may raise
and Genesis may be restarted between any two steps.

`Arena` EXTENDS `RegimeReviews`: the supervisor `run_arena.py` with the scripts
that start and stop it and Redis, the dead man's switch, and its meta-monitor as
the first steps of the same Genesis cycle. `phase` is where the supervisor's
`main` is; `child` and `stray` are the processes it watches and those that
outlived it. `fresh` is what the verification can see of the database (a
timestamp not before the boot stamp), `since` what really happened.

`Colony`: the life of agents. `genesis.step` is where the cycle of Genesis is:
waves of the boot (`SpawnFounder`, `OrientFounder`, `EndWave`), the batch
(`BeginEvaluations`, one `ExecuteDecision` per agent, `CommitBatch`) whose writes
are held in `genesis` until its one commit, `GenerateLeaderboard`, with which a cycle
ends early as long as anybody but operators is awake, `CheckAndReproduce`. `Locked` are the
rows the batch has written; others wait for them, and so does the charge of the
last words of an agent (`RunAsyncSafely`). What the metrics of an agent say is an
input, as is every answer of the model, the name a founder chooses included: `spec`
is whom it was spawned as, `name` what it bears, and `took` says that somebody bore
that name already, which `ResolveDisplayName` allows if that agent is frozen or dead
(`Holders` are those it looks at). The lookup of the boot takes no notice of the
status and raises where a name has two bearers (`LookupRaises`); so does that of the
choice if two others hold a name, one of them risen (`ChoiceRaises`). Offspring are
active from their birth and nobody orients them, so that they never think, here and in
`Bonds`.

`Governance`: proposals from `ProposeSip` to their implementation. Genesis
advances all in one transaction per pass (`GenesisStep`, held in `work` until it
commits); agents commit a vote when their cycle ends; the owner answers by id
from the command line at any time; an exception undoes the pass.

`Economy`: each transaction of an operation is one step; one operation at a time
per agent, one for Genesis; either process may die between two steps. A balance is
the sum of an agent's rows.

### Agents

`AgentCycles`: the agents process polls (`ScheduleAllActive`), drains the queue
(`GetNext`, `EndDrain`) and takes one agent at a time through gate
(`StartCycle`), API calls (`Think`), action (`Act`, `Hibernate`) and record
(`RecordCycle`). Genesis reads whom it will terminate or wake some steps before
it commits, and resets budgets; the Warden freezes. The times of the last cycle
in the database and in Redis are two variables because the timer and the cooldown
read different ones. Which multiplier of the regime applies is chosen per agent:
the scheduler reads the regime once for each. It passes over agents that were never
`oriented`, as offspring are, which are born active. A cycle is charged its calls,
the price of a consulted tool, and the cost of a script it had run (`run_tool`,
`execute_analysis`: up to about half a dollar, `sandbox/cost.py`); an evaluation may
lower the `budget` of the day while it lasts, and last words are charged too.

`Pipeline`: the contents of a cycle as far as they are handed on. Assembly
delivers waiting results in transactions of their own before the model is
called, the newest first and no more than `PerCycle` of a table; the handlers look
ids up and check no status; the hourly maintenance of Genesis expires, answers and
publishes meanwhile. `away` are the agents that get no cycle: dead, frozen, asleep or
out of budget. `Forget` gives the row of a result that is done with to the next
request, so that newer results never end coming.

`MCCommons` composes four concerns that share no state with each other, one per
behaviour (`agenda`), so that they can be checked together without multiplying
their states: `Library` (peer review and its timeouts), `Mind` (the inside of a
cycle: scheduled tools, kind, model, retries, repair, validation, study, tools, genome,
claims about intelligence), `Bonds` (alliances, trust and memories written by cycles
while Genesis buries and bears) and `Agora` (the announcement of proposals, the
receipts of Genesis and the review while voting is off).

### Proofs

| module | proves about |
|---|---|
| `TallyTheorems` | sums |
| `PaperLedgerProofs` | `PaperLedger`, and that it implements `CashAccount` |
| `RacesProofs` | `PaperRaces`, `Pipeline` |
| `WardenProofs` | `Warden`, `Treasury`, `Arena` with `RegimeReviews` |
| `AgentCyclesProofs` | `AgentCycles`, `Mind` |
| `CommonsProofs` | `OperatorHalt`, `Wire`, `Agora`, `Bonds` |
| `EconomyProofs` | `Economy` |
| `ColonyProofs` | `Governance`, `Colony` |

Components that share a module of proofs share no state; each has its own
invariant and its own theorems.

## Runs

`paper_ledger`: 2 agents with 10 each, sizes 3, 9 and -4, exits worth 5 or -2, fee 1,
2 orders and 2 positions. Two orders let one agent hold two reservations or two
agents compete; a size of 9 takes all there is, with a fee, so every refusal by
buying power happens; after a size of -4 the `max(0, ...)` cuts and cash may run out.
Shows that, of an agent none of whose amounts is negative, no path leaks a reservation
or overdraws cash and the books implement `CashAccount`, whatever the other agent
does; the books of agents that never went short balance for amounts of any sign.

`paper_races`: one agent, trades of 2 and -1, 4 calls. One position is enough for every
race between three processes, the second trade makes a monitor cycle handle two rows and
lets another call come in between; four calls allow open, close and two more. A trade is
opened once (`OpenedOnce`), an exit is credited once per process that can close it
(`CreditedOncePerProcess`), and a stop that stays reached is executed although the
lock's holder died, unless for ever there is again a cycle that finds no price for it or
is discarded (`StopsExecute`).

`warden`: treasury 10, 8, 6, 2, window 2, one request, one fault. From 10 the fall to
8 is yellow, from 12 to 8 red, to 2 the breaker, and 12 raises the peak. At most the
one trade that was past the gate is committed under a changed alert
(`OneLateTrade`), an outage never freezes the colony (`FreezesAreEarned`), and the
breaker trips whatever fails or restarts (`BreakerTrips`).
The other concern of this run (`agenda`) is capital: 50 CAD, two founders of whom one
trades, one child that does, two rates, equal scores, two evaluations and one shift
(a new rate, a freeze, a risen agent, a failed boot or cycle). The founders get a
fifth each, so that two rounds have something to hand out and the second finds what
the first has left; one shift can hit any place of either round. Amounts are
whole numbers, rounded down. `ReserveKept`: whatever happens between and within
its awards, a round never commits more than the treasury may, nor adds to an excess
that births, the rate or a risen agent have caused, unless it happened between the
check of an award and its writing.

`wire`: two Kraken announcements of one coin, FRED without an API key before it by
name, scheduler and CLI, life of a halt 1, two faults: an outage with a crash in
it. `OneLateOrder` (no order under a halt but one past its check),
`WiredNeverLoseHalts` (a digester with a halt store loses a halt only in an outage,
and then knows it), `LastIsDigested` (what the feed lists last, and keeps listing,
is stored and digested although another source raises at every tick).

`news_arrives`: expected to fail. An announcement that stays in the feed is never
stored, because an older one after it in the list is known.

`arena`: four of the eight processes in the order in which they are ended, three of
them mortal, two severity 5 events in batches of one with one attempt, one upset
(a death, an outage, a failed post, a failed stamp or a timeout). One upset can hit
any step of any of the three concerns; the kills and the operator's commands are not
counted. `BootIsVerified`, `SilenceIsAnnounced`, `ReviewsSettle`: the Arena never
watches over a colony its own boot has not verified (unless the stamp failed), each
silence of the heartbeat is announced if its post got through, and every review
ends although Genesis may die at any step and be started again.

`agent_cycles`: an agent with an interval and a critic whose interval is 0, one of which
may not be oriented, or a third one alone whose budget an evaluation lowers; cooldown
2, budgets 1 and 2, cycles for 1 or 2, tools for 1, scripts for up to 1, multipliers 50
and 100, one fault (an abort, a restart of Genesis or an outage of Redis). The first
agent's interval is below, at or above the cooldown with the multipliers; one cycle
exhausts the budget and may overrun it; ages stop at 2, where every guard that reads
them is already true. `CooldownKept`, `OneLateAct`, `ColonyWakes`; `OverrunBounded`
(what is used stays below the highest budget of the day plus the dearest cycle and the
dearer of tool and script; last words come on top);
`AgentsThink` (of agents that were oriented).

`pipeline`: one agent of each role that hands something on, one opportunity and plan
or three results of which a cycle takes two, one attempt, two failures (a death of a
process or a failed commit); papers, tables and the backlog are behaviours of their
own (`part`). A result is shown at most once and, marked, was shown or cut off for a
known reason (`ShownOnce`); no result waits for ever, whatever is requested after it
(`ResultsSettle`), because a cycle takes more of a table than the attempts a row has
(10 and 5 against 3): with as few as those, rows that fail could fill every cycle, and
TLC finds the older ones starving. Left out are archive rows whose owner is away again
and again, or for good: the maintenance prunes consultations only.

`commons`: per concern, one contribution and three peers with one death of a
process; five cycles with one evaluation meanwhile, so that the change cap of 1 is
reached, overtaken and reset; an operator, a strategist and a child, two alliances,
three turns; two posters, six dated events, two troubles, limits of 1.
`ReviewedIsSettled`, `PaidIsCharged` (every way out of a cycle charges what its
calls and the script it chose cost, or the cycle was lost as a whole), `OneLateChange`, `DeadAreReleased`
(nobody stays tied to a dead agent but by a row a cycle wrote after the burial read
it), `MissedForAReason`.

`economy`: one scout who also asks for a review, two agents who endorse and review,
one signal, one request for two reviews, one crash, four calls. A stake comes back at
most once (`StakesReleasedOnce`); a review that counts was paid (`ReviewsArePaid`);
stakes settle, but for a failure in the middle of the settlement or an endorsement
in the making when it began (`StakesSettle`).

`governance`: two proposals against two evaluation weights, a structural and a
forbidden parameter; two voters of different weight; four calls, one failure.
`WeightsAddUp` (once a weight has been changed), `ApprovedChangesOnly` (only by a
proposal that passed its tier's bar, was ratified and accepted), `SipsProgress`.

`colony`: three founders in two waves and three rows, so that a row may be a founder, a
child of a founder's name, or a founder spawned again whose name was dropped or taken;
one birth, two upsets (a failed batch, a restart, a failed orientation, a freeze, a
rise from the dead, a wait for a locked row, a choice that raises). Boots (from
the start, or with a dead founder that may still rise) and the lives of a booted colony
are behaviours of their own (`part`). `OneBearer` (of a
name that was not taken over), `LivingCounted`, `VerdictsAreCarriedOut`,
`DueAreEvaluated`, `BootRecovers` (unless a name has two bearers).

Deadlock is not checked where the system may stop for good because a bound is
used up (`CHECK_DEADLOCK FALSE` in the cfg); `warden`, `agent_cycles` and `pipeline`
never stop, and are checked.

### Where the code and its documents disagree

The run `news_arrives` is the finding listed in `PROJECT.json`. The others can
be repeated with `tlc -config X.cfg M`; `-continue` shows all of a cfg with
several properties.

| cfg, module | property | what TLC finds |
|---|---|---|
| `PaperLedgerDisagreements`, `MCPaperLedger` | `FlatBooksBalance` | open and close a short: the agent's cash is not its capital plus its realized profit. Cash moves as for a long; `PHASE_3C_KICKOFF.md` describes the opposite |
| | `CashStaysPositive` | a limit order of negative size makes `reserved_cash` negative and raises the buying power above the cash, which the next order overdraws ("indicates a bug in the trading engine", `sanity_checker.py:116`) |
| `PaperRacesDoubleClose`, `MCPaperRaces` | `NoDoubleClose` | the monitor loads a position, the agent closes it, the monitor closes it again: the exit is credited twice. The status is not read under the lock |
| `OperatorHaltDisagreements`, `MCOperatorHalt` | `ColonyHaltBlocks` | an event that names no coin halts nothing |
| | `NoHaltIsLost` | `digest-pending` digests a severity 5 item and its halt is lost without an alarm |
| `RegimeUnassessed`, `RegimeReviews` | `ReviewedWasAssessed` | regime detection fails, its events are marked reviewed in the same cycle |
| `AgentCyclesDisagreements`, `MCAgentCycles` | `DeadStayDead` | Genesis terminates an agent that is thinking; its `strategic_hibernate` writes `hibernating` over `terminated`, and Genesis wakes it later |
| | `ActiveAgentsThink` | offspring are active and never oriented, so that `schedule_all_active` ("Schedule cycles for all active agents", `cycle_scheduler.py`) passes over them for ever |
| `PipelineStalePlans`, `MCPipeline` | `StalePlansReturn` | nothing sets `submitted_at`, so the maintenance that returns stale plans (`maintenance.py:143`) finds none |
| `CommonsDisagreements`, `MCCommons` | `ChangesCapped` | one change of the genome more than `roles.py:107` allows: the period is read at the start of the cycle |
| | `ScriptsAreTaxed` | the scripts of `behavioral.tool_schedule` run before the call (`thinking_cycle.py:247`) and what they cost is not charged. Nothing in the repository writes such a schedule: it takes one written by hand |
| | `CaughtErrorsAreHarmless` | a handler catches an insert that violates a constraint, and the whole paid cycle is rolled back at its commit |
| | `NoAllyIsDead` | a proposal of an agent that is dead by now is accepted |
| | `EveryMessageIsRead` | a message dated before the receipt and committed after it, or committed between the read and the receipt, is never read ("Read only NEW messages since this agent last read this channel") |
| | `ProposalsAreJudged` | two proposals per pass, and only when something is unread: the third waits for an unrelated message |

Three of `Colony` have no cfg. `BootRecovers` without `BootRaises`: a founder named
after a dead or frozen one makes two bearers of a name, every later boot raises
`MultipleResultsFound` at its lookup (`boot_sequence.py:161`), and the founders of the
waves after it wait for ever. `BootResumes`: the boot stops for good once one founder
is active (`genesis.py:1821` against the docstring `boot_sequence.py:70`).
`NeverParked`: Genesis waits for ever for a row it has locked itself
(the comment in `async_bridge.py` on its timeout; the thread pool waits for its
thread when it is left).

Seen while modelling and not stated as runs:

- *Warden and trading.* A queued trade request makes the Warden skip the escalation
  of the alert it has just assessed; one failed post loses a freeze; frozen agents
  are never thawed; the circuit breaker closes no position; a restarted Warden turns
  a red alert green; lost updates of `cash_balance` and `reserved_cash`; a trade
  committed after the agent's death; resting limit orders fill during a halt; the
  query of `check_stale_reservations` finds nothing.
- *Wire.* A disabled source goes on being fetched (`health/monitor.py:16`); a rolled
  back batch is counted as inserted; two digesters make two originals of one story; a
  severity 5 event that duplicates a milder original is never queued for review; the
  ticker and the alert publisher are never wired in; an API error dead-letters an item
  whatever severity its source gave it.
- *Arena.* The price fetcher is missing from `SHUTDOWN_ORDER` and is orphaned by an
  orderly shutdown; after the Arena alone dies nobody restarts its strays, and
  `start_arena` says "already running" as long as the stray dashboard answers; an
  aborted boot ends the Warden first; a detached Arena gets no CTRL_BREAK, so that
  `stop_arena` kills the tree; the heartbeat's red flag is overwritten by the Warden's
  next write; the meta-monitor stands behind the health check, so that a silence
  caused by Redis is not announced while Redis is down; the scheduler exits when Redis
  is down at its start.
- *Treasury.* `calculate_composite_score` adds 3.0 to a Sharpe ratio that
  `calculate_sharpe_ratio` leaves `None` for all but operators and Genesis ("Sharpe
  returns None for non-operator roles", `CHANGELOG.md:1977`): in every cycle with an
  evaluation and a scout, strategist or critic awake, steps 6 to 12 are lost, and an
  agent on probation makes that every cycle until it survives or dies. The row of
  Genesis is ranked and receives capital, all of it when no operator is awake, and is
  frozen with the others; allocated capital never raises `cash_balance`; the titles
  that evaluations give (Apprentice to Grandmaster) are not those the multiplier knows
  (Proven to Legendary), so it is always 1; what frozen agents hold is handed out
  again; a birth is taken off the treasury and counts as allocated as well, in USDT
  and CAD as the place requires; founders get a fifth each whatever is allocated;
  nothing adds profits to `total_treasury`.
- *Life cycle.* Renamed founders are spawned again whenever nobody is active; births
  take their capital off `total_treasury`, founders do not, and that of the dead does
  not come back; probation halves a negative remainder, so the agent is due at every
  cycle, and the grace cycles are never read; `max_agents` is not enforced on births;
  an extinct dynasty with a posthumous child stays extinct; a risen agent is buried
  twice; names of offspring are not unique.
- *Thinking.* An agent whose estimated cycle costs more than its budget never thinks; an
  active agent that was never oriented keeps everybody else from being woken as "all
  asleep"; critics are called "on-demand only", but the floor of the adjusted
  interval puts them on a timer, and `handle_interrupt` has no caller; what is
  enqueued while Redis is down goes to a local queue that `get_next` does not read;
  the date of the last budget reset is in memory, so every restart of Genesis resets
  the budgets; the fallback of context assembly names `ContextMode`, which
  `thinking_cycle.py` does not import; `BudgetGate` posts without awaiting;
  `run_tool` ignores the daily cap; the action of a strategic review is dropped; a
  study is recorded even if its text did not fit the prompt.
- *Claims.* On a fresh database a claim about intelligence names message 0 and
  violates a foreign key; where the schema was upgraded there is none and the row
  expires after 48 h; a challenge names a real message and so never finds its claim.
- *Pipeline.* A delivered result can be cut off the prompt or lost with a failed call
  ("used exactly once", `context_assembler.py:1456`); nothing moves a plan to
  `under_review` or `executing`; verdict and conversion check no status; rows of dead
  agents stay pending.
- *Agora.* The limit of a read drops the older unread messages; every post renews the
  rate window, and a refused message is written anyway; the posts of `cycle_recorder`
  are never awaited.
- *Library.* A crash between the second review and its resolution leaves a contribution
  undecided for ever, one between submission and assignment unassigned; an approved
  contribution is found by every timeout again; a late review turns a decision.
- *Governance.* An accepted proposal with a target and no value undoes every pass; the
  seeded weights sum to 0.90, so that only a change that lifts the sum to 1 is valid;
  cosponsors, evidence and rate limits are never enforced; a vote committed after the
  tally is not counted.
- *Economy.* `create_intel_signal` in `base_agent.py` passes the price 0.0, and the
  settlement of such a signal divides by it at every pass; `accept_review` checks no
  status; a request for two reviews pays half to each and refunds all on expiry, with
  one review paid; gaming flags have no consequence.

## Fairness

The loops of the processes go on (`WF` on their steps), Redis removes keys whose
time is over, outages end. What else is assumed, run by run:

`paper_races`: the event loop runs both monitors (`SF` on the beginnings of their
cycles); calls to Claude return or raise; Postgres serves a waiting commit when the
row is free (`SF` on `CommitCycle`). The agents process has no fairness: it may die
in the middle of a close, which is the case `StopsExecute` is about.

`warden`: restarts and failed posts are bounded, because a Warden that is restarted
before every write never writes.

`wire`: a source is due again and again and its fetch does not fail for ever (`SF`);
the scheduler's loop ends each tick with the digester. The CLI has none: it is run by
hand.

`arena`: the Arena polls its children; `SF` on the check of the heartbeat whose post
succeeds and on consuming the queue, because Redis or the database do not fail in
every cycle. Nothing makes the operator start an Arena: `ReviewsSettle` has as its
hypothesis that one watches.

`agent_cycles`: aborted cycles are bounded: an agents process that dies in every
cycle records nothing. Actions of the Warden and the daily reset have no fairness.

`pipeline`: an agent that is not away for ever, again and again, gets cycles (it is what
`AgentsThink` says of the scheduler), a cycle goes on, the hourly maintenance comes and
time passes for every row that waits. Nobody has to come back: frozen and dead agents
do not.

`commons`: only the library has liveness: calls in the agents process and in Genesis
go on, days pass. Nobody has to review.

`economy`: the passes of Genesis come again and again (`SF`: they compete for its one
thread of control), and a settlement does not fail for ever.

`governance`: deadlines pass and Genesis runs; nobody has to vote or decide.

`colony`: `WF` on the steps of Genesis; failures and restarts are upsets.

The passes of Genesis behind step 6 (economy, governance, library, reviews) are
assumed to come again although the leaderboard ends cycles before them: it does so
only in cycles with an evaluation, and those of an agent on probation end when it
survives or dies.

## Proofs

Every safety invariant and every safety action property that a run checks is
proved for all values of the constants, from the assumptions named in the
modules, which TLC evaluates on every instance. No proof uses another one's
invariant. In each, the named property is not inductive: the invariant adds what
it says of the operation in progress, and TLC has checked it on the instance of
the run before it was proved.

What is assumed, beyond that amounts are natural numbers and sets are what their
comments say:

- `LedgerAssumption`: a fee is between 0 and the value, whatever the sign of that.
- `RacesAssumption`, `GovernanceAssumption`, `TreasuryAssumption`: trades, voters and
  holders are numbered `1..n`, because sums run over them; there is a trade.
  `ColonyAssumption`: there are finitely many agents, and waves of different founders.
- `WireAssumption`: somebody has a halt store (the scheduler gives one to its
  publisher, `cli.py`).
- `GovernanceAssumption`: a seeded value is within its bounds, later stages ask for
  no smaller majority than the first, and "none" is no answer of the owner.
- `TreasuryAssumption`: rates and scores are positive, the fallback rate is a rate.
- `PipelineAssumption`: a cycle takes more results of a table than the attempts of one.
- `MindAssumption`: models cost something. `CyclesAssumption`: ages can be told apart
  up to the cooldown and the intervals.

*Sums.* `Tally` is a recursive function, so its existence is itself a fact to
prove: `TallyTheorems` shows by induction, written as a set of numbers because
the provers cannot instantiate an operator, that the partial sums exist, are
integers, and that changing one summand changes the sum by the difference
(`TallyChange`).

*Books.* None of the invariants is inductive alone. `LedgerInv` adds to them that
a pending order holds exactly its size and maker fee, that what an agent of `sound`
amounts has reserved is at least what any one of its orders holds (so `max(0, ...)`
never cuts), that the ids in use are the first ones, and the bookkeeping of counts and
costs. `PaperLedgerProofs` has one step per action, and concludes `LedgerTypes`,
`ReservationsExact`, `CashCovered`, `CountExact`, `LongBooksExact`.

*Refinement.* `LedgerImplementsAccount` maps an agent's buying power to `free` and
the reservations of its pending orders to `hold`: a rejected order is a stutter, a
market order `Spend`, a limit order `Reserve`, its fill `SpendHeld`, cancel,
expiry and death `Return`, a close `Earn`. The promise to an agent ends
with its first negative amount: `Breach`, which shows in `sound` and touches nobody
else's account. `ArenaRunsReviews` shows that the colony
under its supervisor implements the review queue alone: the death of Genesis in any
of its steps is `RestartGenesis`. The steps of `Wire` are steps of `OperatorHalt` or
arrivals of items (`WireSteps`), so that one invariant serves both.

*Races.* `RacesInv` says of each of the three processes what the rows it holds as
loaded may still do: a call works on a trade nobody has placed, or on a position
the service has not credited; a monitor cycle holds orders that have opened nothing
*whatever became of them since they were loaded*; what was credited stays closed.
Hence `OpensOnce` and `CreditsOnce`, for any number of trades and calls.

*Pipeline.* The rows a cycle holds between rendering and the call of the model went
into no prompt; until they are marked they may fail and be deleted under it, once
marked they wait no more (`HeldRows`). `PromptedOnce` needs this of cycles that die
in between.

*Warden.* "At most one late order" is kept by counting the order that is past the
gate together with those written late (`LateBounded`); "freezes are earned" by
saying the same of the alert the Warden holds in memory, of the one before, and of
the frozen rows, until a request is queued (`SeverityEarned`).

*Treasury.* `TreasuryInv` adds to `ReserveKept` that an award about to be written
fits the balance of *now* unless something that raises an excess has happened since
it was checked (`GrantFits`). What it rests on is arithmetic: a sum shrinks with
the set (`SumShrinks`), one grant raises it by at most itself (`SumGrows`), and
rounding down twice, CAD to USDT and back, never makes an award worth more than it
was checked for (`ConversionRounds`). So freezes, deaths and sleep only raise the
balance (`FewerLive`), and an award within it adds nothing to the excess
(`AwardFits`).

*Arena.* What verification sees as fresh was written since this launch, and whoever
waits for the fetch has seen the heartbeat (`BootWatched`). `VerdictsStayFinal`, which
no run checks, needs that a cycle holds pending events only.

*Cycles.* Of `AgentCycles` the types, `CooldownKept`, `OverrunBounded` and
`OneLateAct`. `CyclesInv` adds what relates the rows to the cycle in progress:
whoever is queued has cooled down and is not the agent whose cycle will be dated;
what the running agent has used, plus what it can still be charged, against the
highest budget of the day; an agent that
has acted late is not in a cycle. `RecordKeeps` is shared by the two actions that
record.

*Mind.* The cost of a cycle covers what it has spent at every step of it
(`ChargeCovers`), whatever is retried or repaired. The late change is bounded by
counting the cycle that was overtaken by an evaluation together with the changes
entered (`ChangesEntered`).

*Halts.* As with the Warden, the order past its check is counted with those
committed (`LateBounded`). A digester with a store has published, or raised the
alarm for, the item it is about to commit and those it has committed
(`HaltsAnnounced`); two digesters may hold the same item.

*Agora.* Up to the receipt every message is accounted for, and between the read and
its receipt the whole channel is (`ReceiptCovers`).

*Bonds.* `DeadReleased` needs that only a turn writes an alliance, and that what it
writes fits the row it read unless a burial has ended it meanwhile (`TurnFits`),
and that the unborn hold no ties, since what a child inherits would overwrite them
(`TiesOfTheBorn`). The proof showed that an agent could take part in a trade before
it was born: `ClosePosition` now says that its four agents exist, as the rows of the
trade do.

*Economy.* A stake that was given back is that of a settled signal, and the pass
that holds the signal is beyond giving it back (`StakesSound`); a critic whose
review is about to count was paid (`PaymentsSound`).

*Governance.* What a pass holds uncommitted differs from the registry only by
proposals that were read before the owner, are accepted, and now implemented
(`ChangesFit`); the rows it copied are written by nobody else while it lasts
(`PassFits`); a tallied proposal has passed by the lowest threshold there is
(`RowFits`). `ChangesApproved` is an action property and follows from these.

*Colony.* The batch judges the living, and those it sentences are those it buries;
founders who took no name over bear different ones (`NamesFit`), and what `living` counts is bounded by who was born into the
line (`GenesisFits`, `AgentsFit`).

Only model-checked:

- all liveness (`StopsExecute`, `BreakerTrips`, `LastIsDigested`, `SilenceIsAnnounced`,
  `ReviewsSettle`, `AgentsThink`, `ColonyWakes`, `ResultsSettle`, `ReviewedIsSettled`,
  `StakesSettle`, `SipsProgress`, `DueAreEvaluated`, `BootRecovers`): fairness and
  `ENABLED` are out of the prover's reach;
- that the inputs a run chooses let its interesting cases happen, for which there
  are the mutants;
- what `Series`, `Window` and the operators of the feeds in `MCWire` compute: they are
  assumptions TLC evaluates on given lists, and for every list they would need
  induction over sequences;
- `Library`, whose only property is a liveness property.

## Not modelled

- Price, slippage and metric arithmetic, prompts and the text of answers: inputs.
- Temperatures, behavioural profiles, divergence: numbers written within a
  transaction whose control `Colony` has.
- `transfer_reputation`, the service market, `resolve_flag`, `track_rejection`,
  `inherit_memories`, the batch processor, interrupts, `_evaluate_agent`: no caller
  in production.
- Debate entries, cosponsors and abstentions; pub/sub, channels and search of the
  Agora; archive, ticker and breach monitor of the Wire; deduplication and severity
  rules: they decide nothing the properties tell apart, or only read.
- Schema updates, `clean_slate`, `run_all.py`, backups, the web, reports, e-mail, the
  exchange and its cache, the sanity checker and equity snapshots: read, render or
  run by hand.
- An outage of Postgres outside `Warden` and `RegimeReviews`: elsewhere a failing
  transaction stands for it.

## Plan

1. Refinement: abstract specifications of the halts (an order is let through or it
   is not), of a stake in escrow and of the life of an agent, implemented by
   `OperatorHalt`, `Economy` and `Colony`.
2. Action properties that the invariants already imply: books of the dead do not
   change but by the processes that hold them, ratified proposals keep their value.
3. The safety half of the library: a contribution is decided by its reviews once.
4. The deduper with two digesters.
