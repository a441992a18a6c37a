---------------------------------- MODULE Wire ---------------------------------
(***************************************************************************)
(* The Wire, from a source's feed to a refused trade.  Each tick of the    *)
(* scheduler (wire/ingestors/scheduler.py) runs the sources that are due,  *)
(* by name, and then digests what is pending, by OperatorHalt.  The runner *)
(* (wire/ingestors/runner.py) stores one fetch in one transaction, of      *)
(* which a known item drops all that came before it.                       *)
(*                                                                         *)
(* An item is the announcement of its number: of one source, the greater   *)
(* is the newer.                                                           *)
(***************************************************************************)
EXTENDS OperatorHalt, SequencesExt

CONSTANTS
    Sources,        \* the enabled rows of wire_sources, numbered by name
    SourceOf,       \* SourceOf[i]: the source that announces item i
    Series,         \* Series[i]: the wallets, pair, series or protocol of item i, by number
    Bucket,         \* Bucket[i]: the day or hour that its external_id names
    KindOf,         \* KindOf[s]: the class registered for s
    Keyless,        \* sources whose API key is not set: every fetch raises
    Window,         \* how many of its newest items a feed lists
    DisabledAt      \* DISABLED_CONSECUTIVE_FAILURES

ASSUME WireAssumption ==
    /\ Wired # {}      \* the scheduler gives its publisher a store
    /\ Sources \subseteq Nat /\ Keyless \subseteq Sources
    /\ SourceOf \in [Items -> Sources] /\ Bucket \in [Items -> Nat]
    /\ \A i \in Items : Series[i] \subseteq Nat
    /\ KindOf \in [Sources -> {"kraken_announcements", "cryptopanic", "etherscan_transfers", "defillama",
                               "funding_rates", "fred", "trading_economics", "fear_greed"}]
    /\ {Window, DisabledAt} \subseteq Nat \ {0}

VARIABLES
    announced,      \* items the world has announced
    due,            \* sources this tick has still to run
    owed,           \* this tick has still to digest
    failures        \* failures[s]: consecutive_failures

tick == <<due, owed>>
wireVars == <<vars, announced, tick, failures>>

daemon == CHOOSE d \in Wired : TRUE

WireTypes ==
    /\ announced \subseteq Items
    /\ due \subseteq Sources /\ owed \in BOOLEAN
    /\ failures \in [Sources -> 0..DisabledAt]

WireInit ==
    /\ InitWith("absent")
    /\ announced = {}
    /\ due = {} /\ owed = FALSE
    /\ failures = [s \in Sources |-> 0]

-------------------------------------------------------------------------------
(* What fetch_raw returns, of a source that has announced the items S *)

Newest(S) == {i \in S : Cardinality({j \in S : j > i}) < Window}
Of(S, n) == {i \in S : n \in Series[i]}
InSeries(S) == SetToSortSeq(S, LAMBDA i, j : \E n \in Series[i] : \A m \in Series[j] : n < m)

KrakenAnnouncements(S) == SetToSortSeq(Newest(S), >)
CryptoPanic(S) == SetToSortSeq(Newest(S), >)

\* The transfers of each watched wallet, one wallet after the other.  A wallet
\* answered with a text (a rate limit) is passed over, and a transfer between two
\* watched wallets is listed for both.
EtherscanTransfers(S, answered) ==
    LET of(w) == IF w \in answered THEN SetToSortSeq(Newest(Of(S, w)), >) ELSE <<>>
    IN  FoldLeft(LAMBDA list, w : list \o of(w), <<>>, SetToSortSeq(UNION {Series[i] : i \in S}, <))

\* The protocols that have moved today, and the pairs whose rate is extreme this hour.
DefiLlama(S, now) == InSeries({i \in S : Bucket[i] = now})
FundingRates(S, now) == InSeries({i \in S : Bucket[i] = now})

\* The latest observation of each series, in the order of DEFAULT_SERIES.
Fred(S) == InSeries({i \in S : \E n \in Series[i] : \A j \in Of(S, n) : j <= i})

\* The calendar, by date, and the index of the day.
TradingEconomics(S) == SetToSortSeq(S, <)
FearGreed(S) == SetToSortSeq({i \in S : \A j \in S : j <= i}, <)

Feeds(s) ==
    LET S == {i \in announced : SourceOf[i] = s}
        times == {Bucket[i] : i \in Items}
    IN  CASE KindOf[s] = "kraken_announcements" -> {KrakenAnnouncements(S)}
          [] KindOf[s] = "cryptopanic" -> {CryptoPanic(S)}
          [] KindOf[s] = "etherscan_transfers" ->
                {EtherscanTransfers(S, W) : W \in SUBSET UNION {Series[i] : i \in S}}
          [] KindOf[s] = "defillama" -> {DefiLlama(S, now) : now \in times}
          [] KindOf[s] = "funding_rates" -> {FundingRates(S, now) : now \in times}
          [] KindOf[s] = "fred" -> {Fred(S)}
          [] KindOf[s] = "trading_economics" -> {TradingEconomics(S)}
          [] KindOf[s] = "fear_greed" -> {FearGreed(S)}

-------------------------------------------------------------------------------
(* The runner *)

Stored == {i \in Items : item[i] # "absent"}

\* _persist_items: each item is flushed; a known one violates the unique index,
\* and the rollback drops those flushed before it.
PersistItems(known, feed) ==
    FoldLeft(LAMBDA kept, i : IF i \in known \cup kept THEN {} ELSE kept \cup {i}, {}, feed)

RecordSuccess(s) == failures' = [failures EXCEPT ![s] = 0]
RecordFailure(s) == failures' = [failures EXCEPT ![s] = IF @ < DisabledAt THEN @ + 1 ELSE @]

\* run_source, of whatever health: an exception of any kind is recorded.
RunSource(s, ok) ==
    IF ok
      THEN /\ s \notin Keyless
           /\ \E feed \in Feeds(s) :
                 item' = [i \in Items |->
                            IF i \in PersistItems(Stored, feed) THEN "pending" ELSE item[i]]
           /\ RecordSuccess(s)
      ELSE RecordFailure(s) /\ UNCHANGED item

ItemsOnly == UNCHANGED <<digester, halts, redisUp, trade, unknown, faults,
                         published, alarmed, digestedBy, late>>

-------------------------------------------------------------------------------
(* The scheduler *)

Waiting == digester[daemon] = Free /\ due = {}

\* _due_sources: those whose time has come, whatever their status.
BeginTick(S) ==
    /\ Waiting /\ ~owed
    /\ due' = S /\ owed' = TRUE
    /\ UNCHANGED <<vars, announced, failures>>

\* Mutant: a source that is disabled is skipped.
RunDueUnlessDisabled(s, ok) ==
    /\ s \in due /\ \A t \in due : s <= t
    /\ due' = due \ {s}
    /\ IF failures[s] < DisabledAt THEN RunSource(s, ok) /\ ItemsOnly
                                   ELSE UNCHANGED <<vars, failures>>
    /\ UNCHANGED <<announced, owed>>

\* Mutant: an exception of a source ends the tick, and with it the process.
RunDueOrDie(s, ok) ==
    /\ s \in due /\ \A t \in due : s <= t
    /\ due' = IF ok THEN due \ {s} ELSE Sources
    /\ RunSource(s, ok) /\ ItemsOnly
    /\ UNCHANGED <<announced, owed>>

RunDue(s, ok) ==
    /\ s \in due /\ \A t \in due : s <= t
    /\ due' = due \ {s}
    /\ RunSource(s, ok) /\ ItemsOnly
    /\ UNCHANGED <<announced, owed>>

\* digest_pending, of the list read when the sources are done.
DigestTick ==
    /\ owed /\ due = {}
    /\ IF Waiting /\ \A i \in Items : item[i] # "pending"
         THEN owed' = FALSE /\ UNCHANGED vars
         ELSE Digest(daemon) /\ owed' = (digester'[daemon] # Free)
    /\ UNCHANGED <<announced, due, failures>>

\* The scheduler dies: its clocks are in memory, and all sources fall due.
CrashScheduler ==
    /\ owed
    /\ \/ CrashDigester(daemon)
       \/ /\ digester[daemon] = Free /\ Fault
          /\ UNCHANGED <<item, digester, halts, redisUp, trade, unknown,
                         published, alarmed, digestedBy, late>>
    /\ due' = Sources
    /\ UNCHANGED <<announced, owed, failures>>

-------------------------------------------------------------------------------
(* The command line and the world *)

\* cmd_fetch.
CliFetch(s, ok) ==
    /\ RunSource(s, ok) /\ ItemsOnly
    /\ UNCHANGED <<announced, tick>>

\* cmd_digest_pending, and the end of its process.
CliDigest(d) ==
    /\ d # daemon
    /\ Digest(d) \/ CrashDigester(d)
    /\ UNCHANGED <<announced, tick, failures>>

Announce(i) ==
    /\ i \notin announced
    /\ \A j \in Items : SourceOf[j] = SourceOf[i] /\ j < i => j \in announced
    /\ announced' = announced \cup {i}
    /\ UNCHANGED <<vars, tick, failures>>

\* The trading service, Redis and the clock, of OperatorHalt.
Surroundings ==
    /\ \/ \E c \in Coins : CheckOperatorHalt(c)
       \/ RefuseTrade \/ CommitTrade
       \/ Tick \/ RedisDown \/ RedisUp
    /\ UNCHANGED <<announced, tick, failures>>

WireNext ==
    \/ \E S \in SUBSET Sources : BeginTick(S)
    \/ \E s \in Sources, ok \in BOOLEAN : RunDue(s, ok) \/ CliFetch(s, ok)
    \/ DigestTick \/ CrashScheduler
    \/ \E d \in Digesters : CliDigest(d)
    \/ \E i \in Items : Announce(i)
    \/ Surroundings

\* The scheduler's loop never ends, every source falls due again and again, and one
\* that has a key answers again and again.  Nobody has to announce anything or to
\* use the command line.
WireFairness ==
    /\ \A s \in Sources :
        /\ SF_wireVars(\E S \in SUBSET Sources : s \in S /\ BeginTick(S))
        /\ WF_wireVars(\E ok \in BOOLEAN : RunDue(s, ok))
        /\ SF_wireVars(RunDue(s, TRUE))
    /\ WF_wireVars(DigestTick)

WireSpec == WireInit /\ [][WireNext]_wireVars /\ WireFairness

-------------------------------------------------------------------------------
(* Properties *)

Offered(i) == \E s \in Sources : \E feed \in Feeds(s) : Contains(feed, i)
Closing(i) == \E s \in Sources : \A feed \in Feeds(s) : feed # <<>> /\ Last(feed) = i

\* What stays at the end of a feed is stored, and then digested or given up: neither
\* the failures of its source, nor a source that always raises, nor a crash in any
\* part of a tick keep it out for good.
LastIsDigested ==
    \A i \in Items :
        (i \in announced /\ Closing(i)) ~> (item[i] \in {"digested", "dead_letter"} \/ ~Closing(i))

\* "Persist FetchedItem -> wire_raw_items, deduping at (source_id, external_id)":
\* every item that stays in a feed is stored.  In a feed that lists its newest item
\* first, every item known drops the newer ones that were flushed before it.
NewsArrives == \A i \in Items : Offered(i) ~> (item[i] # "absent" \/ ~Offered(i))

===============================================================================
