------------------------------ MODULE OperatorHalt -----------------------------
(***************************************************************************)
(* From a severity 5 announcement to a refused trade.  A digester turns a  *)
(* raw item into an event and, before it commits the event, writes a halt  *)
(* into Redis under the event's coin, as a key with a time to live.  The   *)
(* trading service of the agents process asks Redis before every order.    *)
(* Digesters run in the Wire scheduler and in the CLI; only the scheduler  *)
(* gives the publisher its Redis store.                                    *)
(*                                                                         *)
(* Every item is a severity 5 event of a type that halts.  The digester    *)
(* never names an exchange, so a key is a coin, with exchange "*".         *)
(***************************************************************************)
EXTENDS Integers, FiniteSets

CONSTANTS
    Items,        \* raw items, numbered in the order they were fetched
    Coins,        \* the coins that are traded
    AllCoins,     \* the key "*", written for an event that names no coin
    Scope,        \* Scope[i]: the key under which item i's halt is written
    Digesters,    \* processes that digest items
    Wired,        \* those that called set_halt_store
    TTL,          \* life of a halt, in ticks of the clock
    MaxFaults     \* bound: outages of Redis and crashes of digesters

ASSUME HaltAssumption ==
    /\ Items \subseteq Nat
    /\ AllCoins \notin Coins
    /\ Scope \in [Items -> Coins \cup {AllCoins}]
    /\ Wired \subseteq Digesters
    /\ TTL \in Nat \ {0}
    /\ MaxFaults \in Nat

VARIABLES
    item,         \* item[i]: digestion_status, absent before it is stored
    digester,     \* digester[d]: the items fetched, the one in hand, its stage
    halts,        \* halts[k]: ticks left of the key wire:halt:k:*, 0 if there is none
    redisUp,      \* Redis answers
    trade,        \* the order in progress in the agents process
    unknown,      \* PaperTradingService._halt_state_unknown
    faults,
    published, alarmed,  \* items whose halt was written, or failed with an alarm
    digestedBy,   \* digestedBy[i]: the digesters that committed item i
    late          \* late[k]: orders committed under the halt k, counted up to 2

vars == <<item, digester, halts, redisUp, trade, unknown, faults,
          published, alarmed, digestedBy, late>>

Keys == Coins \cup {AllCoins}

Free == [todo |-> {}, stage |-> "fetch"]
NoTrade == [stage |-> "idle", coin |-> AllCoins]

TypeOK ==
    /\ item \in [Items -> {"absent", "pending", "digested", "dead_letter"}]
    /\ digester \in [Digesters -> [todo : SUBSET Items, stage : {"fetch", "digest", "commit"}]]
    /\ halts \in [Keys -> 0..TTL]
    /\ redisUp \in BOOLEAN
    /\ trade \in [stage : {"idle", "checked"}, coin : Keys]
    /\ unknown \in BOOLEAN
    /\ faults \in 0..MaxFaults
    /\ published \subseteq Items /\ alarmed \subseteq Items
    /\ digestedBy \in [Items -> SUBSET Digesters]
    /\ late \in [Keys -> 0..2]

InitWith(status) ==
    /\ item = [i \in Items |-> status]
    /\ digester = [d \in Digesters |-> Free]
    /\ halts = [k \in Keys |-> 0]
    /\ redisUp = TRUE
    /\ trade = NoTrade
    /\ unknown = FALSE
    /\ faults = 0
    /\ published = {} /\ alarmed = {}
    /\ digestedBy = [i \in Items |-> {}]
    /\ late = [k \in Keys |-> 0]

\* Here every item has been fetched; Wire starts with none.
Init == InitWith("pending")

-------------------------------------------------------------------------------
(* A digester *)

\* The item in hand is the first of those fetched that are left.
InHand(d, i) == i \in digester[d].todo /\ \A j \in digester[d].todo : i <= j

Fault == faults < MaxFaults /\ faults' = faults + 1

FetchPending(d) ==
    LET pending == {i \in Items : item[i] = "pending"}
    IN  /\ digester[d].stage = "fetch"
        /\ pending # {}
        /\ digester' = [digester EXCEPT ![d] = [todo |-> pending, stage |-> "digest"]]
        /\ UNCHANGED <<item, halts, redisUp, trade, unknown, faults,
                       published, alarmed, digestedBy, late>>

\* The list is done with.
EndBatch(d) ==
    /\ digester[d].stage = "digest" /\ digester[d].todo = {}
    /\ digester' = [digester EXCEPT ![d] = Free]
    /\ UNCHANGED <<item, halts, redisUp, trade, unknown, faults,
                   published, alarmed, digestedBy, late>>

Flushed(d) == digester' = [digester EXCEPT ![d].stage = "commit"]

\* publish_halt_for_event in a process with a store: SET with a time to live,
\* which replaces the key, so a second event renews the halt.
PublishHalt(d, i) ==
    /\ digester[d].stage = "digest" /\ InHand(d, i)
    /\ d \in Wired /\ redisUp
    /\ halts' = [halts EXCEPT ![Scope[i]] = TTL]
    /\ late' = [late EXCEPT ![Scope[i]] = IF halts[Scope[i]] = 0 THEN 0 ELSE @]
    /\ published' = published \cup {i}
    /\ Flushed(d)
    /\ UNCHANGED <<item, redisUp, trade, unknown, faults, alarmed, digestedBy>>

\* Mutant: the failed write is swallowed.
PublishFailsSilently(d, i) ==
    /\ digester[d].stage = "digest" /\ InHand(d, i)
    /\ d \in Wired /\ ~redisUp
    /\ Flushed(d)
    /\ UNCHANGED <<item, halts, redisUp, trade, unknown, faults,
                   published, alarmed, digestedBy, late>>

\* Mutant: the failed write ends the batch.
PublishFailsAndRaises(d, i) ==
    /\ digester[d].stage = "digest" /\ InHand(d, i)
    /\ d \in Wired /\ ~redisUp
    /\ alarmed' = alarmed \cup {i}
    /\ digester' = [digester EXCEPT ![d] = Free]
    /\ UNCHANGED <<item, halts, redisUp, trade, unknown, faults, published, digestedBy, late>>

\* Redis raises: critical log, alert, and the digester goes on.
PublishFails(d, i) ==
    /\ digester[d].stage = "digest" /\ InHand(d, i)
    /\ d \in Wired /\ ~redisUp
    /\ alarmed' = alarmed \cup {i}
    /\ Flushed(d)
    /\ UNCHANGED <<item, halts, redisUp, trade, unknown, faults, published, digestedBy, late>>

\* A process without a store keeps the halt in its own memory.
PublishInMemory(d, i) ==
    /\ digester[d].stage = "digest" /\ InHand(d, i)
    /\ d \notin Wired
    /\ Flushed(d)
    /\ UNCHANGED <<item, halts, redisUp, trade, unknown, faults,
                   published, alarmed, digestedBy, late>>

\* Mutant: the item's own status is not part of the commit.
CommitEventOnly(d, i) ==
    /\ digester[d].stage = "commit" /\ InHand(d, i)
    /\ digestedBy' = [digestedBy EXCEPT ![i] = @ \cup {d}]
    /\ digester' = [digester EXCEPT ![d] = [todo |-> @.todo \ {i}, stage |-> "digest"]]
    /\ UNCHANGED <<item, halts, redisUp, trade, unknown, faults, published, alarmed, late>>

CommitDigest(d, i) ==
    /\ digester[d].stage = "commit" /\ InHand(d, i)
    /\ item' = [item EXCEPT ![i] = "digested"]
    /\ digestedBy' = [digestedBy EXCEPT ![i] = @ \cup {d}]
    /\ digester' = [digester EXCEPT ![d] = [todo |-> @.todo \ {i}, stage |-> "digest"]]
    /\ UNCHANGED <<halts, redisUp, trade, unknown, faults, published, alarmed, late>>

\* Haiku's API fails, or its answer cannot be parsed however often it is asked.
DeadLetter(d, i) ==
    /\ digester[d].stage = "digest" /\ InHand(d, i)
    /\ item' = [item EXCEPT ![i] = "dead_letter"]
    /\ digester' = [digester EXCEPT ![d].todo = @ \ {i}]
    /\ UNCHANGED <<halts, redisUp, trade, unknown, faults, published, alarmed, digestedBy, late>>

\* The process dies, or the commit fails: nothing of the item in hand is kept
\* in the database, what is in Redis stays.
CrashDigester(d) ==
    /\ digester[d] # Free
    /\ Fault
    /\ digester' = [digester EXCEPT ![d] = Free]
    /\ UNCHANGED <<item, halts, redisUp, trade, unknown, published, alarmed, digestedBy, late>>

Digest(d) ==
    \/ FetchPending(d) \/ EndBatch(d)
    \/ \E i \in Items :
        \/ PublishHalt(d, i) \/ PublishFails(d, i) \/ PublishInMemory(d, i)
        \/ CommitDigest(d, i) \/ DeadLetter(d, i)

-------------------------------------------------------------------------------
(* The trading service *)

\* is_halted, for a coin and an exchange that has no key of its own.
IsHalted(c) == halts[c] > 0

\* Mutant: no answer is taken for no halt.
CheckFailsOpen(c) ==
    /\ trade.stage = "idle"
    /\ unknown' = ~redisUp
    /\ trade' = IF redisUp /\ IsHalted(c) THEN trade ELSE [stage |-> "checked", coin |-> c]
    /\ UNCHANGED <<item, digester, halts, redisUp, faults, published, alarmed, digestedBy, late>>

\* _check_operator_halt: no answer sets the latch, any answer clears it; only a
\* coin that is not halted goes on to the Warden.
CheckOperatorHalt(c) ==
    /\ trade.stage = "idle"
    /\ unknown' = ~redisUp
    /\ trade' = IF redisUp /\ ~IsHalted(c) THEN [stage |-> "checked", coin |-> c] ELSE trade
    /\ UNCHANGED <<item, digester, halts, redisUp, faults, published, alarmed, digestedBy, late>>

\* The Warden or the buying power refuses the order.
RefuseTrade ==
    /\ trade.stage = "checked"
    /\ trade' = NoTrade
    /\ UNCHANGED <<item, digester, halts, redisUp, unknown, faults,
                   published, alarmed, digestedBy, late>>

\* The order, of a market or a limit type, is committed.
CommitTrade ==
    /\ trade.stage = "checked"
    /\ trade' = NoTrade
    /\ late' = [k \in Keys |-> IF k \in {trade.coin, AllCoins} /\ halts[k] > 0 /\ late[k] < 2
                               THEN late[k] + 1 ELSE late[k]]
    /\ UNCHANGED <<item, digester, halts, redisUp, unknown, faults,
                   published, alarmed, digestedBy>>

-------------------------------------------------------------------------------
(* Redis and the clock *)

Tick ==
    /\ \E k \in Keys : halts[k] > 0
    /\ halts' = [k \in Keys |-> IF halts[k] > 0 THEN halts[k] - 1 ELSE 0]
    /\ UNCHANGED <<item, digester, redisUp, trade, unknown, faults,
                   published, alarmed, digestedBy, late>>

RedisDown ==
    /\ redisUp /\ Fault
    /\ redisUp' = FALSE
    /\ UNCHANGED <<item, digester, halts, trade, unknown, published, alarmed, digestedBy, late>>

\* Redis is back, with its keys or, after a restart, without them.
RedisUp ==
    /\ ~redisUp
    /\ redisUp' = TRUE
    /\ halts' \in {halts, [k \in Keys |-> 0]}
    /\ UNCHANGED <<item, digester, trade, unknown, faults, published, alarmed, digestedBy, late>>

-------------------------------------------------------------------------------

Next ==
    \/ \E d \in Digesters : Digest(d) \/ CrashDigester(d)
    \/ \E c \in Coins : CheckOperatorHalt(c)
    \/ RefuseTrade \/ CommitTrade
    \/ Tick \/ RedisDown \/ RedisUp

\* The scheduler's loop never ends and the clock goes on.  The CLI is run by
\* hand and the agents trade when they choose: no fairness.
Spec == Init /\ [][Next]_vars /\ WF_vars(Tick) /\ \A d \in Wired : WF_vars(Digest(d))

-------------------------------------------------------------------------------
(* Properties *)

\* Under the halt of a coin at most one order of that coin is committed: the one
\* that had been checked when the halt was written.  Renewals of the halt, a
\* second digester and outages of Redis let no other through.
OneLateOrder == \A c \in Coins : halts[c] > 0 => late[c] <= 1

\* OperatorHaltSignal: "coin = None applies to ALL coins".  The halt is written
\* under the coin "*", which no check ever reads.
ColonyHaltBlocks == halts[AllCoins] > 0 => late[AllCoins] <= 1

\* An item that only digesters with a store have committed has had its halt
\* written to Redis, or an alarm raised: a crash between the two loses nothing.
WiredNeverLoseHalts ==
    \A i \in Items : item[i] = "digested" /\ digestedBy[i] \subseteq Wired
                     => i \in published \cup alarmed

\* No digested item loses its halt in silence.  The CLI's digest-pending never
\* sets a store: its halts end in a list of a process about to exit.
NoHaltIsLost == \A i \in Items : item[i] = "digested" => i \in published \cup alarmed

\* A halt ends: an item is not digested, and its halt renewed, for ever.
HaltsEnd == \A k \in Keys : halts[k] > 0 ~> halts[k] = 0

\* A pending item is digested or given up, whatever crashes, and whatever the
\* other digester does with the same list.
ItemsSettle == \A i \in Items : item[i] = "pending" ~> item[i] # "pending"

\* One outage of Redis does not halt the colony for good: once Redis stays up
\* and agents go on trading, the halt state does not stay unknown.
LatchClears ==
    (<>[]redisUp /\ []<><<\E c \in Coins : CheckOperatorHalt(c)>>_vars) => <>[]~unknown

===============================================================================
