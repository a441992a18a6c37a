----------------------------- MODULE CommonsProofs -----------------------------
(***************************************************************************)
(* Proofs about what agents and Genesis tell each other and hold together, *)
(* for any values of the constants.                                        *)
(*   - Wire and OperatorHalt: their types, the one order that may be late  *)
(*     under a halt, and the halts that are not lost.                      *)
(*   - Agora: its types, and the messages a read receipt passes over.      *)
(*   - Bonds: the alliances and ties that a burial releases.               *)
(* The three share no state.                                               *)
(***************************************************************************)
EXTENDS Wire, Agora, Bonds, TLAPS

-------------------------------------------------------------------------------
(* Wire *)

\* The order of coin c that was checked and is not committed yet.
PastCheck(c) == IF trade.stage = "checked" /\ trade.coin = c THEN 1 ELSE 0

\* Under the halt of a coin, what was committed late and what can still be are
\* one order together.
LateBounded == \A c \in Coins : halts[c] > 0 => late[c] + PastCheck(c) <= 1

\* A digester with a store has published, or raised the alarm for, the item it
\* is about to commit and those it has committed.
Announced == published \cup alarmed
HaltsAnnounced ==
    /\ \A i \in Items : item[i] = "digested" => digestedBy[i] # {}
    /\ \A i \in Items : \A d \in digestedBy[i] \cap Wired : i \in Announced
    /\ \A d \in Wired, i \in Items :
          digester[d].stage = "commit" /\ InHand(d, i) => i \in Announced

\* The inductive invariant.
HaltInv == TypeOK /\ LateBounded /\ HaltsAnnounced

\* What the ingestors add to the steps of OperatorHalt: items that become pending,
\* and crashes between two items.
ItemsArrive ==
    /\ \/ item' = item
       \/ \E new \in SUBSET Items :
             item' = [i \in Items |-> IF i \in new THEN "pending" ELSE item[i]]
    /\ faults' = faults \/ Fault
    /\ UNCHANGED <<digester, halts, redisUp, trade, unknown, published, alarmed, digestedBy, late>>

-------------------------------------------------------------------------------
(* Types *)

LEMMA HaltInitTypes ==
    ASSUME NEW status \in {"absent", "pending"}, InitWith(status)
    PROVE  TypeOK
<1>1. 0 \in 0..TTL /\ 0 \in 0..2 /\ 0 \in 0..MaxFaults
    BY HaltAssumption
<1>2. /\ halts \in [Keys -> 0..TTL] /\ late \in [Keys -> 0..2]
      /\ faults \in 0..MaxFaults
    BY <1>1 DEF InitWith
<1>3. /\ digester \in [Digesters -> [todo : SUBSET Items, stage : {"fetch", "digest", "commit"}]]
      /\ item \in [Items -> {"absent", "pending", "digested", "dead_letter"}]
      /\ digestedBy \in [Items -> SUBSET Digesters]
    BY DEF InitWith, Free
<1>4. trade \in [stage : {"idle", "checked"}, coin : Keys]
    BY DEF InitWith, NoTrade, Keys
<1> QED
    BY <1>2, <1>3, <1>4 DEF InitWith, TypeOK

\* A fault is counted within its bound.
LEMMA FaultTypes == TypeOK /\ Fault => faults' \in 0..MaxFaults
BY HaltAssumption DEF TypeOK, Fault

LEMMA ScopeTypes == \A i \in Items : Scope[i] \in Keys
BY HaltAssumption DEF Keys

LEMMA DigestTypes ==
    ASSUME TypeOK, NEW d \in Digesters, Digest(d) \/ CrashDigester(d)
    PROVE  TypeOK'
<1> USE DEF TypeOK
<1>1. CASE FetchPending(d)
    BY <1>1 DEF FetchPending
<1>2. CASE EndBatch(d)
    BY <1>2 DEF EndBatch, Free
<1>3. ASSUME NEW i \in Items, PublishHalt(d, i)
      PROVE  TypeOK'
    <2>1. TTL \in 0..TTL /\ Scope[i] \in Keys
        BY HaltAssumption, ScopeTypes
    <2>2. halts' \in [Keys -> 0..TTL] /\ late' \in [Keys -> 0..2]
        BY <1>3, <2>1 DEF PublishHalt
    <2> QED
        BY <1>3, <2>2 DEF PublishHalt, Flushed
<1>4. ASSUME NEW i \in Items, PublishFails(d, i)
      PROVE  TypeOK'
    BY <1>4 DEF PublishFails, Flushed
<1>5. ASSUME NEW i \in Items, PublishInMemory(d, i)
      PROVE  TypeOK'
    BY <1>5 DEF PublishInMemory, Flushed
<1>6. ASSUME NEW i \in Items, CommitDigest(d, i)
      PROVE  TypeOK'
    BY <1>6 DEF CommitDigest
<1>7. ASSUME NEW i \in Items, DeadLetter(d, i)
      PROVE  TypeOK'
    BY <1>7 DEF DeadLetter
<1>8. CASE CrashDigester(d)
    BY <1>8, FaultTypes DEF CrashDigester, Free
<1> QED
    BY <1>1, <1>2, <1>3, <1>4, <1>5, <1>6, <1>7, <1>8 DEF Digest

LEMMA HaltTypeStep == TypeOK /\ [Next]_vars => TypeOK'
<1> SUFFICES ASSUME TypeOK, [Next]_vars PROVE TypeOK'
    OBVIOUS
<1> USE DEF TypeOK
<1>1. ASSUME NEW c \in Coins, CheckOperatorHalt(c)
      PROVE  TypeOK'
    BY <1>1 DEF CheckOperatorHalt, Keys
<1>2. CASE RefuseTrade
    BY <1>2 DEF RefuseTrade, NoTrade, Keys
<1>3. CASE CommitTrade
    <2>1. late' \in [Keys -> 0..2]
        BY <1>3 DEF CommitTrade
    <2> QED
        BY <1>3, <2>1 DEF CommitTrade, NoTrade, Keys
<1>4. CASE Tick
    <2>1. halts' \in [Keys -> 0..TTL]
        BY <1>4, HaltAssumption DEF Tick
    <2> QED
        BY <1>4, <2>1 DEF Tick
<1>5. CASE RedisDown
    BY <1>5, FaultTypes DEF RedisDown
<1>6. CASE RedisUp
    BY <1>6, HaltAssumption DEF RedisUp
<1>7. CASE UNCHANGED vars
    BY <1>7 DEF vars
<1> QED
    BY <1>1, <1>2, <1>3, <1>4, <1>5, <1>6, <1>7, DigestTypes DEF Next

LEMMA ArrivalTypes == TypeOK /\ ItemsArrive => TypeOK'
BY FaultTypes DEF TypeOK, ItemsArrive

-------------------------------------------------------------------------------
(* The one late order *)

\* Only a commit makes an order late; the order of a coin that was checked while
\* a halt of the coin stood does not exist; a halt that starts anew starts with
\* nothing late.
LEMMA LateStep == TypeOK /\ LateBounded /\ [Next]_vars => LateBounded'
<1> SUFFICES ASSUME TypeOK, LateBounded, [Next]_vars, NEW c \in Coins, halts'[c] > 0
             PROVE  late'[c] + PastCheck(c)' <= 1
    BY DEF LateBounded
<1>t. /\ c \in Keys /\ halts \in [Keys -> 0..TTL] /\ late \in [Keys -> 0..2]
      /\ trade \in [stage : {"idle", "checked"}, coin : Keys]
      /\ halts[c] \in Int /\ late[c] \in 0..2 /\ TTL \in Nat
    BY HaltAssumption DEF TypeOK, Keys
<1>h. halts[c] > 0 => late[c] + PastCheck(c) <= 1
    BY DEF LateBounded
<1> USE <1>t, <1>h DEF PastCheck
<1>1. ASSUME NEW d \in Digesters, NEW i \in Items, PublishHalt(d, i)
      PROVE  late'[c] + PastCheck(c)' <= 1
    <2>1. CASE Scope[i] = c
        BY <1>1, <2>1 DEF PublishHalt
    <2>2. CASE Scope[i] # c
        BY <1>1, <2>2, ScopeTypes DEF PublishHalt
    <2> QED
        BY <2>1, <2>2
<1>2. ASSUME NEW e \in Coins, CheckOperatorHalt(e)
      PROVE  late'[c] + PastCheck(c)' <= 1
    BY <1>2 DEF CheckOperatorHalt, IsHalted
<1>3. CASE RefuseTrade
    BY <1>3 DEF RefuseTrade, NoTrade
<1>4. CASE CommitTrade
    <2>1. c # AllCoins
        BY HaltAssumption
    <2> QED
        BY <1>4, <2>1 DEF CommitTrade, NoTrade
<1>5. CASE Tick
    BY <1>5 DEF Tick
<1>6. CASE RedisUp
    BY <1>6 DEF RedisUp
<1>7. ASSUME halts' = halts, late' = late, trade' = trade
      PROVE  late'[c] + PastCheck(c)' <= 1
    BY <1>7
<1>8. ASSUME NEW d \in Digesters, NEW i \in Items,
             PublishFails(d, i) \/ PublishInMemory(d, i) \/ CommitDigest(d, i) \/ DeadLetter(d, i)
      PROVE  late'[c] + PastCheck(c)' <= 1
    BY <1>7, <1>8 DEF PublishFails, PublishInMemory, CommitDigest, DeadLetter
<1>9. ASSUME NEW d \in Digesters, FetchPending(d) \/ EndBatch(d) \/ CrashDigester(d)
      PROVE  late'[c] + PastCheck(c)' <= 1
    BY <1>7, <1>9 DEF FetchPending, EndBatch, CrashDigester
<1>10. CASE RedisDown \/ UNCHANGED vars
    BY <1>7, <1>10 DEF RedisDown, vars
<1> QED
    BY <1>1, <1>2, <1>3, <1>4, <1>5, <1>6, <1>8, <1>9, <1>10 DEF Next, Digest

-------------------------------------------------------------------------------
(* The halts that are not lost *)

\* There is one item in hand.
LEMMA OneInHand ==
    ASSUME NEW d, NEW i \in Items, NEW j \in Items, InHand(d, i), InHand(d, j)
    PROVE  i = j
BY HaltAssumption DEF InHand

\* What a digester does, with the item it has in hand.
LEMMA AnnouncedDigest ==
    ASSUME TypeOK, HaltsAnnounced, NEW d \in Digesters, Digest(d) \/ CrashDigester(d)
    PROVE  HaltsAnnounced'
<1>t. /\ digester \in [Digesters -> [todo : SUBSET Items, stage : {"fetch", "digest", "commit"}]]
      /\ item \in [Items -> {"absent", "pending", "digested", "dead_letter"}]
      /\ digestedBy \in [Items -> SUBSET Digesters]
      /\ Wired \subseteq Digesters
    BY HaltAssumption DEF TypeOK
<1> USE <1>t DEF HaltsAnnounced, Announced
<1>1. ASSUME item' = item, digestedBy' = digestedBy,
             published \subseteq published', alarmed \subseteq alarmed',
             digester'[d].stage # "commit", \A e \in Digesters : e # d => digester'[e] = digester[e]
      PROVE  HaltsAnnounced'
    BY <1>1 DEF InHand
<1>2. CASE FetchPending(d) \/ EndBatch(d) \/ CrashDigester(d)
    BY <1>1, <1>2 DEF FetchPending, EndBatch, CrashDigester, Free
<1>3. ASSUME NEW i \in Items, InHand(d, i), d \in Wired => i \in Announced', Flushed(d),
             item' = item, digestedBy' = digestedBy,
             published \subseteq published', alarmed \subseteq alarmed'
      PROVE  HaltsAnnounced'
    <2>1. ASSUME NEW e \in Wired, NEW j \in Items, digester'[e].stage = "commit", InHand(e, j)'
          PROVE  j \in Announced'
        <3>1. CASE e = d
            <4>1. InHand(d, j)
                BY <1>3, <2>1, <3>1 DEF Flushed, InHand
            <4> QED
                BY <1>3, <3>1, <4>1, OneInHand
        <3>2. CASE e # d
            BY <1>3, <2>1, <3>2 DEF Flushed, InHand
        <3> QED
            BY <3>1, <3>2
    <2> QED
        BY <1>3, <2>1
<1>4. ASSUME NEW i \in Items, PublishHalt(d, i) \/ PublishFails(d, i) \/ PublishInMemory(d, i)
      PROVE  HaltsAnnounced'
    BY <1>3, <1>4 DEF PublishHalt, PublishFails, PublishInMemory
<1>5. ASSUME NEW i \in Items, CommitDigest(d, i)
      PROVE  HaltsAnnounced'
    <2>1. d \in Wired => i \in Announced
        BY <1>5 DEF CommitDigest
    <2>2. /\ item' = [item EXCEPT ![i] = "digested"]
          /\ digestedBy' = [digestedBy EXCEPT ![i] = @ \cup {d}]
          /\ digester'[d].stage = "digest"
          /\ \A e \in Digesters : e # d => digester'[e] = digester[e]
          /\ published' = published /\ alarmed' = alarmed
        BY <1>5 DEF CommitDigest
    <2>3. \A j \in Items : item'[j] = "digested" => digestedBy'[j] # {}
        BY <2>2
    <2>4. \A j \in Items : \A e \in digestedBy'[j] \cap Wired : j \in Announced
        BY <2>1, <2>2
    <2>5. \A e \in Wired, j \in Items :
              digester'[e].stage = "commit" /\ InHand(e, j)' => j \in Announced
        BY <2>2 DEF InHand
    <2> QED
        BY <2>2, <2>3, <2>4, <2>5
<1>6. ASSUME NEW i \in Items, DeadLetter(d, i)
      PROVE  HaltsAnnounced'
    <2>1. /\ item' = [item EXCEPT ![i] = "dead_letter"] /\ digestedBy' = digestedBy
          /\ digester'[d].stage = "digest"
          /\ \A e \in Digesters : e # d => digester'[e] = digester[e]
          /\ published' = published /\ alarmed' = alarmed
        BY <1>6 DEF DeadLetter
    <2> QED
        BY <2>1 DEF InHand
<1> QED
    BY <1>2, <1>4, <1>5, <1>6 DEF Digest

LEMMA AnnouncedStep == TypeOK /\ HaltsAnnounced /\ [Next]_vars => HaltsAnnounced'
<1> SUFFICES ASSUME TypeOK, HaltsAnnounced, [Next]_vars PROVE HaltsAnnounced'
    OBVIOUS
<1>1. ASSUME item' = item, digestedBy' = digestedBy, digester' = digester,
             published' = published, alarmed' = alarmed
      PROVE  HaltsAnnounced'
    BY <1>1 DEF HaltsAnnounced, Announced, InHand
<1>2. ASSUME NEW c \in Coins, CheckOperatorHalt(c)
      PROVE  HaltsAnnounced'
    BY <1>1, <1>2 DEF CheckOperatorHalt
<1>3. CASE RefuseTrade \/ CommitTrade \/ Tick \/ RedisDown \/ RedisUp \/ UNCHANGED vars
    BY <1>1, <1>3 DEF RefuseTrade, CommitTrade, Tick, RedisDown, RedisUp, vars
<1> QED
    BY <1>2, <1>3, AnnouncedDigest DEF Next

-------------------------------------------------------------------------------
(* OperatorHalt *)

LEMMA HaltInit ==
    ASSUME NEW status \in {"absent", "pending"}, InitWith(status)
    PROVE  HaltInv
<1>1. TypeOK
    BY HaltInitTypes
<1>2. LateBounded
    BY DEF LateBounded, InitWith, Keys
<1>3. HaltsAnnounced
    BY HaltAssumption DEF HaltsAnnounced, InitWith, Free
<1> QED
    BY <1>1, <1>2, <1>3 DEF HaltInv

LEMMA HaltStep == HaltInv /\ [Next]_vars => HaltInv'
BY HaltTypeStep, LateStep, AnnouncedStep DEF HaltInv

\* What the invariant says of the properties.
LEMMA HaltSafe == HaltInv => TypeOK /\ OneLateOrder /\ WiredNeverLoseHalts
<1> SUFFICES ASSUME HaltInv PROVE TypeOK /\ OneLateOrder /\ WiredNeverLoseHalts
    OBVIOUS
<1>1. OneLateOrder
    BY DEF HaltInv, TypeOK, LateBounded, PastCheck, OneLateOrder, Keys
<1>2. WiredNeverLoseHalts
    BY DEF HaltInv, HaltsAnnounced, Announced, WiredNeverLoseHalts
<1> QED
    BY <1>1, <1>2 DEF HaltInv

\* The invariant, where every item is there from the start
\* (operator_halt.publish_halt_for_event, PaperTradingService._check_operator_halt).
THEOREM HaltInvariant == Spec => []HaltInv
<1>1. Init => HaltInv
    BY HaltInit DEF Init
<1> QED
    BY <1>1, HaltStep, PTL DEF Spec

-------------------------------------------------------------------------------
(* The whole Wire *)

\* A step of the Wire is one of OperatorHalt, or items arrive, or neither: the
\* scheduler, the command line and the sources touch the halts in no other way.
LEMMA WireSteps == TypeOK /\ [WireNext]_wireVars => [Next]_vars \/ ItemsArrive
<1> SUFFICES ASSUME TypeOK, [WireNext]_wireVars PROVE [Next]_vars \/ ItemsArrive
    OBVIOUS
<1>d. daemon \in Digesters
    BY HaltAssumption, WireAssumption DEF daemon
<1>1. ASSUME NEW s \in Sources, NEW ok \in BOOLEAN, RunSource(s, ok), ItemsOnly
      PROVE  ItemsArrive
    <2>1. CASE ok
        <3>1. PICK feed \in Feeds(s) : item' = [i \in Items |->
                            IF i \in PersistItems(Stored, feed) THEN "pending" ELSE item[i]]
            BY <1>1, <2>1 DEF RunSource
        <3>2. item' = [i \in Items |-> IF i \in Items \cap PersistItems(Stored, feed)
                                       THEN "pending" ELSE item[i]]
            BY <3>1
        <3> QED
            BY <1>1, <3>2 DEF ItemsArrive, ItemsOnly
    <2>2. CASE ~ok
        BY <1>1, <2>2 DEF RunSource, ItemsArrive, ItemsOnly
    <2> QED
        BY <2>1, <2>2
<1>2. ASSUME NEW s \in Sources, NEW ok \in BOOLEAN, RunDue(s, ok) \/ CliFetch(s, ok)
      PROVE  ItemsArrive
    BY <1>1, <1>2 DEF RunDue, CliFetch
<1>3. ASSUME NEW S \in SUBSET Sources, BeginTick(S)
      PROVE  UNCHANGED vars
    BY <1>3 DEF BeginTick
<1>4. CASE DigestTick
    BY <1>4, <1>d DEF DigestTick, Next
<1>5. CASE CrashScheduler
    <2>1. CASE CrashDigester(daemon)
        BY <2>1, <1>d DEF Next
    <2>2. CASE /\ digester[daemon] = Free /\ Fault
               /\ UNCHANGED <<item, digester, halts, redisUp, trade, unknown,
                              published, alarmed, digestedBy, late>>
        BY <2>2 DEF ItemsArrive
    <2> QED
        BY <1>5, <2>1, <2>2 DEF CrashScheduler
<1>6. ASSUME NEW d \in Digesters, CliDigest(d)
      PROVE  Next
    BY <1>6 DEF CliDigest, Next
<1>7. ASSUME NEW i \in Items, Announce(i)
      PROVE  UNCHANGED vars
    BY <1>7 DEF Announce
<1>8. CASE Surroundings
    BY <1>8 DEF Surroundings, Next
<1>9. CASE UNCHANGED wireVars
    BY <1>9 DEF wireVars
<1> QED
    BY <1>2, <1>3, <1>4, <1>5, <1>6, <1>7, <1>8, <1>9 DEF WireNext

\* Items that arrive are pending: no halt is due for them yet.
LEMMA ArrivalStep == HaltInv /\ ItemsArrive => HaltInv'
<1> SUFFICES ASSUME HaltInv, ItemsArrive PROVE HaltInv'
    OBVIOUS
<1>1. TypeOK'
    BY ArrivalTypes DEF HaltInv
<1>2. LateBounded'
    BY DEF HaltInv, LateBounded, PastCheck, ItemsArrive
<1>3. \A i \in Items : item'[i] = "digested" => item[i] = "digested"
    BY DEF ItemsArrive
<1>4. HaltsAnnounced'
    BY <1>3 DEF HaltInv, HaltsAnnounced, Announced, InHand, ItemsArrive
<1> QED
    BY <1>1, <1>2, <1>4 DEF HaltInv

\* The invariant holds of the whole Wire, whatever its sources list and whenever
\* they fail.
THEOREM WireInvariant == WireSpec => []HaltInv
<1>1. WireInit => HaltInv
    BY HaltInit DEF WireInit
<1>2. HaltInv /\ [WireNext]_wireVars => HaltInv'
    BY WireSteps, HaltStep, ArrivalStep DEF HaltInv
<1> QED
    BY <1>1, <1>2, PTL DEF WireSpec

\* Under the halt of a coin at most one order of the coin is committed, the one
\* checked before the halt was written (PaperTradingService._check_operator_halt,
\* operator_halt.publish).
THEOREM LateOrderOnce == WireSpec => []OneLateOrder
BY HaltSafe, WireInvariant, PTL

\* An item committed by digesters with a store has had its halt written or an
\* alarm raised, wherever one of them crashed (HaikuDigester.digest_item publishes
\* before it commits).
THEOREM HaltsNotLost == WireSpec => []WiredNeverLoseHalts
BY HaltSafe, WireInvariant, PTL

-------------------------------------------------------------------------------
(* The scheduler *)

\* What a run of a source leaves in its health.
LEMMA HealthTypes ==
    ASSUME WireTypes, NEW s \in Sources, NEW ok \in BOOLEAN, RunSource(s, ok)
    PROVE  failures' \in [Sources -> 0..DisabledAt]
<1>1. failures \in [Sources -> 0..DisabledAt] /\ DisabledAt \in Nat
    BY WireAssumption DEF WireTypes
<1>2. RecordSuccess(s) \/ RecordFailure(s)
    BY DEF RunSource
<1>3. CASE RecordSuccess(s)
    BY <1>1, <1>3 DEF RecordSuccess
<1>4. CASE RecordFailure(s)
    BY <1>1, <1>4 DEF RecordFailure
<1> QED
    BY <1>2, <1>3, <1>4

LEMMA WireTypeStep == WireTypes /\ [WireNext]_wireVars => WireTypes'
<1> SUFFICES ASSUME WireTypes, [WireNext]_wireVars PROVE WireTypes'
    OBVIOUS
<1> USE DEF WireTypes, tick
<1>1. ASSUME NEW S \in SUBSET Sources, BeginTick(S)
      PROVE  WireTypes'
    BY <1>1 DEF BeginTick
<1>2. ASSUME NEW s \in Sources, NEW ok \in BOOLEAN, RunDue(s, ok) \/ CliFetch(s, ok)
      PROVE  WireTypes'
    BY <1>2, HealthTypes DEF RunDue, CliFetch
<1>3. CASE DigestTick
    BY <1>3 DEF DigestTick
<1>4. CASE CrashScheduler
    BY <1>4 DEF CrashScheduler
<1>5. ASSUME NEW d \in Digesters, CliDigest(d)
      PROVE  WireTypes'
    BY <1>5 DEF CliDigest
<1>6. ASSUME NEW i \in Items, Announce(i)
      PROVE  WireTypes'
    BY <1>6 DEF Announce
<1>7. CASE Surroundings
    BY <1>7 DEF Surroundings
<1>8. CASE UNCHANGED wireVars
    BY <1>8 DEF wireVars
<1> QED
    BY <1>1, <1>2, <1>3, <1>4, <1>5, <1>6, <1>7, <1>8 DEF WireNext

\* Type correctness of the Wire: digesters, halts and the order in progress, the
\* scheduler's tick and the health of its sources.
THEOREM WireTypesHold == WireSpec => [](TypeOK /\ WireTypes)
<1>1. 0 \in 0..DisabledAt
    BY WireAssumption
<1>2. WireInit => WireTypes
    BY <1>1 DEF WireInit, WireTypes
<1> QED
    BY <1>2, WireTypeStep, WireInvariant, HaltSafe, PTL DEF WireSpec

-------------------------------------------------------------------------------
(* Agora *)

Read(m) == m \in seen \cup overtaken \cup dropped

\* What the cycle in progress is dated by has happened.
SessionDated ==
    /\ session \in [pc : {"none", "think", "post", "posted", "written"},
                    by : Posters \cup {"nobody"}, since : 0..MaxDate, message : 0..MaxDate]
    /\ session.pc # "none" => session.by \in Posters /\ session.since > 0
    /\ session.pc \in {"post", "posted", "written"} => session.message > 0

\* The receipt covers what is accounted for; between the read and its receipt
\* the whole channel is.
ReceiptCovers ==
    /\ \A m \in channel : m <= receipt => Read(m)
    /\ monitor.pc = "read" => \A m \in channel : Read(m)

\* The inductive invariant.
AgoraInv ==
    /\ AgoraTypes
    /\ monitor \in [pc : {"idle", "unread", "read", "review"}, found : SUBSET (1..MaxDate)]
    /\ SessionDated /\ ReceiptCovers

\* A step that reads, commits and marks nothing.
LEMMA NothingRead ==
    ASSUME ReceiptCovers, UNCHANGED <<channel, receipt, read>>, monitor'.pc # "read" \/ UNCHANGED monitor
    PROVE  ReceiptCovers'
BY DEF ReceiptCovers, Read, read

\* A message that comes too late is entered as overtaken.
LEMMA CommitStep ==
    ASSUME ReceiptCovers, NEW m, Commit(m), UNCHANGED <<receipt, monitor>>
    PROVE  ReceiptCovers' /\ channel' = channel \cup {m}
BY DEF ReceiptCovers, Read, Commit

LEMMA AgoraInitInv == AgoraInit => AgoraInv
<1> SUFFICES ASSUME AgoraInit PROVE AgoraInv
    OBVIOUS
<1>1. 0 \in 0..MaxDate /\ 0 \in 0..RateLimit /\ 0 \in 0..MaxTroubles
    BY AgoraAssumption
<1>2. AgoraTypes
    BY <1>1 DEF AgoraInit, AgoraTypes, NoSession, NotReading
<1>3. monitor \in [pc : {"idle", "unread", "read", "review"}, found : SUBSET (1..MaxDate)]
    BY DEF AgoraInit, NotReading
<1>4. SessionDated
    BY <1>1 DEF AgoraInit, SessionDated, NoSession
<1>5. ReceiptCovers
    BY DEF AgoraInit, ReceiptCovers, NotReading
<1> QED
    BY <1>2, <1>3, <1>4, <1>5 DEF AgoraInv

\* The steps of a cycle that commit no message.
LEMMA SessionStep ==
    ASSUME AgoraInv, NEW a \in Posters,
           BeginSession(a) \/ ExpireAllowance(a) \/ PostMessage \/ WriteMessageDirectly
             \/ LoseSession
    PROVE  AgoraInv'
<1>1. /\ UNCHANGED <<channel, receipt, monitor, read>>
      /\ proposals' = proposals
    BY DEF BeginSession, ExpireAllowance, PostMessage, WriteMessageDirectly, LoseSession
<1>2. ReceiptCovers'
    BY <1>1, NothingRead DEF AgoraInv
<1>3. /\ date \in 0..MaxDate /\ MaxDate \in Nat /\ RateLimit \in Nat /\ MaxTroubles \in Nat
      /\ troubles \in 0..MaxTroubles /\ allowance \in [Posters -> 0..RateLimit]
      /\ session \in [pc : {"none", "think", "post", "posted", "written"},
                    by : Posters \cup {"nobody"}, since : 0..MaxDate, message : 0..MaxDate]
      /\ session.pc # "none" => session.by \in Posters /\ session.since > 0
      /\ session.pc \in {"post", "posted", "written"} => session.message > 0
    BY AgoraAssumption DEF AgoraInv, AgoraTypes, SessionDated
<1>4. date' \in 0..MaxDate
    BY <1>3 DEF BeginSession, ExpireAllowance, PostMessage, WriteMessageDirectly, LoseSession, Dated
<1>5. troubles' \in 0..MaxTroubles
    BY <1>3 DEF BeginSession, ExpireAllowance, PostMessage, WriteMessageDirectly, LoseSession, Trouble
<1>6. allowance' \in [Posters -> 0..RateLimit]
    <2>1. CASE ExpireAllowance(a)
        BY <1>3, <2>1 DEF ExpireAllowance
    <2>2. CASE PostMessage
        BY <1>3, <2>2 DEF PostMessage, Allowed, Counted
    <2> QED
        BY <1>3, <2>1, <2>2 DEF BeginSession, WriteMessageDirectly, LoseSession
<1>7. SessionDated'
    <2>1. CASE BeginSession(a)
        BY <1>3, <1>4, <2>1 DEF BeginSession, Dated, SessionDated
    <2>2. CASE PostMessage
        <3>1. date' > 0 /\ session.pc = "think"
              /\ session' = [session EXCEPT !.pc = "post", !.message = date']
            BY <1>3, <2>2 DEF PostMessage, Dated
        <3> QED
            BY <1>3, <1>4, <3>1 DEF SessionDated
    <2>3. CASE WriteMessageDirectly
        <3>1. session' = [session EXCEPT !.pc = "written", !.message = session.since]
              /\ session.pc # "none"
            BY <2>3 DEF WriteMessageDirectly
        <3> QED
            BY <1>3, <3>1 DEF SessionDated
    <2>4. CASE LoseSession
        BY <1>3, <2>4 DEF LoseSession, SessionDated, NoSession
    <2>5. CASE ExpireAllowance(a)
        BY <1>3, <2>5 DEF ExpireAllowance, SessionDated
    <2> QED
        BY <2>1, <2>2, <2>3, <2>4, <2>5
<1>8. AgoraTypes'
    BY <1>1, <1>4, <1>5, <1>6, <1>7 DEF AgoraInv, AgoraTypes, SessionDated
<1> QED
    BY <1>1, <1>2, <1>7, <1>8 DEF AgoraInv

\* The commit of the service, and of the cycle.
LEMMA CommittedStep == AgoraInv /\ (CommitPost \/ EndSession) => AgoraInv'
<1> SUFFICES ASSUME AgoraInv, CommitPost \/ EndSession PROVE AgoraInv'
    OBVIOUS
<1>1. /\ session \in [pc : {"none", "think", "post", "posted", "written"},
                    by : Posters \cup {"nobody"}, since : 0..MaxDate, message : 0..MaxDate]
      /\ session.pc # "none" => session.by \in Posters /\ session.since > 0
      /\ session.pc \in {"post", "posted", "written"} => session.message > 0
      /\ session.pc \in {"post", "posted", "written"}
    BY DEF AgoraInv, SessionDated, CommitPost, EndSession
<1>2. UNCHANGED <<date, allowance, receipt, monitor, troubles>>
    BY DEF CommitPost, EndSession
<1>3. session.message \in 1..MaxDate /\ session.since \in 1..MaxDate
    BY <1>1, AgoraAssumption
<1>4. ReceiptCovers' /\ channel \subseteq channel' /\ channel' \subseteq channel \cup {session.message}
    <2>1. CASE Commit(session.message)
        BY <1>2, <2>1, CommitStep DEF AgoraInv
    <2>2. CASE UNCHANGED <<channel, read>>
        BY <1>2, <2>2, NothingRead DEF AgoraInv
    <2> QED
        BY <2>1, <2>2 DEF CommitPost, EndSession
<1>5. proposals' \subseteq 1..MaxDate
    BY <1>3 DEF AgoraInv, AgoraTypes, CommitPost, EndSession
<1>6. SessionDated'
    <2>1. CASE CommitPost
        BY <1>1, <2>1 DEF CommitPost, SessionDated
    <2>2. CASE EndSession
        BY AgoraAssumption, <2>2 DEF EndSession, SessionDated, NoSession
    <2> QED
        BY <2>1, <2>2
<1>7. AgoraTypes'
    BY <1>2, <1>3, <1>4, <1>5, <1>6 DEF AgoraInv, AgoraTypes, SessionDated
<1> QED
    BY <1>2, <1>4, <1>6, <1>7 DEF AgoraInv

\* Genesis: what it read, what was beyond its limit and what came too late are
\* all that its receipt passes over.
LEMMA MonitorStep ==
    ASSUME AgoraInv, CountUnread \/ ReadUnread \/ MarkRead \/ ReviewProposals \/ LoseMonitor
    PROVE  AgoraInv'
<1> DEFINE Monitors == [pc : {"idle", "unread", "read", "review"}, found : SUBSET (1..MaxDate)]
<1>1. UNCHANGED <<channel, allowance, session>>
    BY DEF CountUnread, ReadUnread, MarkRead, ReviewProposals, LoseMonitor
<1>2. /\ monitor \in Monitors /\ monitor.found \subseteq channel /\ channel \subseteq 1..MaxDate
      /\ date \in 0..MaxDate /\ receipt \in 0..MaxDate /\ troubles \in 0..MaxTroubles
      /\ MaxDate \in Nat /\ MaxTroubles \in Nat /\ proposals \subseteq 1..MaxDate
    BY AgoraAssumption DEF AgoraInv, AgoraTypes
<1>3. /\ date' \in 0..MaxDate /\ receipt' \in 0..MaxDate /\ troubles' \in 0..MaxTroubles
      /\ proposals' \subseteq 1..MaxDate
    BY <1>2 DEF CountUnread, ReadUnread, MarkRead, ReviewProposals, LoseMonitor, Dated, Trouble
<1>4. /\ monitor' \in Monitors /\ monitor'.found \subseteq channel
      /\ ReceiptCovers'
    <2>1. CASE CountUnread
        <3>1. monitor' = [monitor EXCEPT !.pc = "unread"] /\ UNCHANGED <<receipt, read>>
            BY <2>1 DEF CountUnread
        <3>2. monitor' \in Monitors /\ monitor'.found \subseteq channel /\ monitor'.pc # "read"
            BY <1>2, <3>1
        <3> QED
            BY <1>1, <3>1, <3>2, NothingRead DEF AgoraInv
    <2>2. CASE ReadUnread
        <3> DEFINE found == ReadChannel(receipt)
        <3>1. /\ monitor' = [pc |-> "read", found |-> found] /\ seen' = seen \cup found
              /\ dropped' = dropped \cup (Unread \ found)
              /\ overtaken' = overtaken /\ receipt' = receipt
            BY <2>2 DEF ReadUnread
        <3>2. found \subseteq channel
            BY DEF ReadChannel
        <3> HIDE DEF found
        <3>3. \A m \in channel : m <= receipt \/ m \in Unread
            BY <1>2 DEF Unread
        <3>4. \A m \in channel : Read(m)'
            BY <3>1, <3>3 DEF AgoraInv, ReceiptCovers, Read
        <3>5. ReceiptCovers'
            BY <1>1, <3>4 DEF ReceiptCovers
        <3> QED
            BY <1>2, <3>1, <3>2, <3>5
    <2>3. CASE MarkRead
        <3>1. /\ monitor.pc = "read" /\ monitor' = [pc |-> "review", found |-> {}]
              /\ UNCHANGED <<seen, overtaken, dropped>>
            BY <2>3 DEF MarkRead, read
        <3> QED
            BY <1>1, <3>1 DEF AgoraInv, ReceiptCovers, Read
    <2>4. CASE ReviewProposals \/ LoseMonitor
        <3>1. monitor' = [pc |-> "idle", found |-> {}] /\ UNCHANGED <<receipt, read>>
            BY <2>4 DEF ReviewProposals, LoseMonitor, NotReading
        <3> QED
            BY <1>1, <3>1, NothingRead DEF AgoraInv
    <2> QED
        BY <2>1, <2>2, <2>3, <2>4
<1>5. SessionDated'
    BY <1>1 DEF AgoraInv, SessionDated
<1>6. AgoraTypes'
    BY <1>1, <1>2, <1>3, <1>4 DEF AgoraInv, AgoraTypes
<1> QED
    BY <1>4, <1>5, <1>6 DEF AgoraInv

\* However commits, reads and failures interleave, the inductive invariant holds.
THEOREM AgoraInvariant == AgoraSpec => []AgoraInv
<1>1. AgoraInit => AgoraInv
    BY AgoraInitInv
<1>2. AgoraInv /\ [AgoraNext]_agoraVars => AgoraInv'
    <2> SUFFICES ASSUME AgoraInv, [AgoraNext]_agoraVars PROVE AgoraInv'
        OBVIOUS
    <2>1. CASE UNCHANGED agoraVars
        BY <2>1 DEF agoraVars, AgoraInv, AgoraTypes, SessionDated, ReceiptCovers, Read
    <2>2. CASE \E a \in Posters : BeginSession(a) \/ ExpireAllowance(a)
        BY <2>2, SessionStep
    <2>3. CASE PostMessage \/ WriteMessageDirectly \/ LoseSession
        <3>1. session.pc # "none"
            BY <2>3 DEF PostMessage, WriteMessageDirectly, LoseSession
        <3>2. session.by \in Posters
            BY <3>1 DEF AgoraInv, SessionDated
        <3> QED
            BY <2>3, <3>2, SessionStep
    <2>4. CASE CommitPost \/ EndSession
        BY <2>4, CommittedStep
    <2>5. CASE CountUnread \/ ReadUnread \/ MarkRead \/ ReviewProposals \/ LoseMonitor
        BY <2>5, MonitorStep
    <2> QED
        BY <2>1, <2>2, <2>3, <2>4, <2>5 DEF AgoraNext
<1> QED
    BY <1>1, <1>2, PTL DEF AgoraSpec

\* The variables of the channel keep their types.
THEOREM AgoraTypesHold == AgoraSpec => []AgoraTypes
<1>1. AgoraInv => AgoraTypes
    BY DEF AgoraInv
<1> QED
    BY <1>1, AgoraInvariant, PTL

\* Read receipts pass over a message that nobody has read only if it was committed
\* too late for its read or was beyond the limit of it.
THEOREM MissedWithReason == AgoraSpec => []MissedForAReason
<1>1. AgoraInv => MissedForAReason
    BY DEF AgoraInv, ReceiptCovers, Read, MissedForAReason, Missed
<1> QED
    BY <1>1, AgoraInvariant, PTL

-------------------------------------------------------------------------------
(* Bonds *)

\* What a turn writes fits the rows it read: only a turn writes an alliance, but
\* for the burials, which end some.  A tie is written for an agent that was born.
TurnFits ==
    /\ turn = [by |-> turn.by, step |-> turn.step, write |-> turn.write]
    /\ turn.step # "none" => turn.by \in Agents \ Unborn
    /\ turn.write.alliance \in 0..(Len(alliances) + 1)
    /\ turn.write.alliance = Len(alliances) + 1 => turn.write.row \in AllianceRows
    /\ turn.write.alliance \in DOMAIN alliances =>
        \/ turn.write.row.status = "dissolved"
        \/ /\ turn.write.row.status = "active"
           /\ alliances[turn.write.alliance].status = "proposed"
    /\ \A p \in turn.write.ties : p[1] \notin Unborn

\* What a burial will end was accepted, and what it will archive was there.
BurialFits ==
    /\ burial = [of |-> burial.of, step |-> burial.step, ends |-> burial.ends,
                 due |-> burial.due, ties |-> burial.ties]
    /\ burial.due = burial.ends
    /\ \A i \in burial.ends : i \in DOMAIN alliances
                              /\ alliances[i].status \in {"active", "dissolved"}
    /\ \A p \in burial.ties : p \in Pairs /\ ties[p].row # "none"

\* The unborn hold no ties: what is inherited overwrites none.
TiesOfTheBorn == \A p \in Pairs : ties[p].row # "none" => p[1] \notin Unborn

\* What a burial released stays released.
ReleasedStays ==
    /\ \A i \in released.alliances : i \in DOMAIN alliances /\ alliances[i].status = "dissolved"
    /\ \A p \in released.ties : p \in Pairs /\ ties[p].row = "archived"

\* The inductive invariant.
BondsInv ==
    /\ alive \subseteq Agents /\ alliances \in Seq(AllianceRows) /\ ties \in [Pairs -> TieRows]
    /\ released = [agents |-> released.agents, alliances |-> released.alliances,
                   ties |-> released.ties]
    /\ TurnFits /\ BurialFits /\ TiesOfTheBorn /\ ReleasedStays

LEMMA BondsInitInv == BondsInit => BondsInv
<1> SUFFICES ASSUME BondsInit PROVE BondsInv
    OBVIOUS
<1>1. /\ alive = Founders /\ alliances = <<>>
      /\ ties = [p \in Pairs |-> NoTie]
      /\ turn = NoTurn /\ burial = NoBurial
      /\ released = [agents |-> {}, alliances |-> {}, ties |-> {}]
    BY DEF BondsInit
<1>2. NoTie \in TieRows /\ NoTie.row = "none"
    BY DEF NoTie, TieRows
<1>3. ties \in [Pairs -> TieRows] /\ TiesOfTheBorn
    BY <1>1, <1>2 DEF TiesOfTheBorn
<1>4. alive \subseteq Agents /\ alliances \in Seq(AllianceRows) /\ Len(alliances) = 0
      /\ DOMAIN alliances = {}
    BY <1>1, BondsAssumption
<1>5. TurnFits
    <2>1. turn = [by |-> NoAgent, step |-> "none", write |-> Unwritten]
        BY <1>1 DEF NoTurn
    <2>2. Unwritten.alliance = 0 /\ Unwritten.ties = {}
        BY DEF Unwritten
    <2> QED
        BY <1>4, <2>1, <2>2 DEF TurnFits
<1>6. BurialFits
    BY <1>1 DEF BurialFits, NoBurial
<1>7. ReleasedStays
    BY <1>1 DEF ReleasedStays
<1> QED
    BY <1>1, <1>3, <1>4, <1>5, <1>6, <1>7 DEF BondsInv

\* A step of a turn that commits nothing.
LEMMA TurnOnly ==
    ASSUME BondsInv, UNCHANGED <<rows, burial, released>>, TurnFits'
    PROVE  BondsInv'
BY DEF BondsInv, rows, BurialFits, TiesOfTheBorn, ReleasedStays, Unborn

\* A step of a burial that commits nothing.
LEMMA BurialOnly ==
    ASSUME BondsInv, UNCHANGED <<rows, turn, released>>, BurialFits'
    PROVE  BondsInv'
BY DEF BondsInv, rows, TurnFits, TiesOfTheBorn, ReleasedStays, Unborn

\* What a turn decides.
LEMMA DecideStep ==
    ASSUME BondsInv, NEW write, Decide(write),
           write.alliance \in 0..(Len(alliances) + 1),
           write.alliance = Len(alliances) + 1 => write.row \in AllianceRows,
           write.alliance \in DOMAIN alliances =>
                \/ write.row.status = "dissolved"
                \/ write.row.status = "active" /\ alliances[write.alliance].status = "proposed",
           \A p \in write.ties : p[1] \notin Unborn
    PROVE  BondsInv'
<1>1. /\ turn.step = "decide" /\ turn' = [turn EXCEPT !.step = "flush", !.write = write]
      /\ UNCHANGED <<rows, burial, turns, released>>
    BY DEF Decide
<1>2. /\ turn = [by |-> turn.by, step |-> turn.step, write |-> turn.write]
      /\ turn.by \in Agents \ Unborn
    BY <1>1 DEF BondsInv, TurnFits
<1>3. turn' = [by |-> turn.by, step |-> "flush", write |-> write]
    BY <1>1, <1>2
<1>4. UNCHANGED <<alive, alliances, released>> /\ Unborn' = Unborn
    BY <1>1 DEF rows, Unborn
<1>5. TurnFits'
    BY <1>2, <1>3, <1>4 DEF TurnFits
<1> QED
    BY <1>1, <1>5, TurnOnly

LEMMA ProposeStep == ASSUME BondsInv, NEW b \in Agents, ProposeAlliance(b), turn.step = "decide" PROVE BondsInv'
<1> DEFINE r == [from |-> turn.by, to |-> b, status |-> "proposed"]
           w == [Unwritten EXCEPT !.alliance = Len(alliances) + 1, !.row = r]
<1>1. Decide(w)
    BY DEF ProposeAlliance
<1>2. turn.by \in Agents /\ Len(alliances) \in Nat /\ DOMAIN alliances = 1..Len(alliances)
    BY DEF BondsInv, TurnFits
<1>3. r \in AllianceRows
    BY <1>2 DEF AllianceRows
<1>4. w.alliance = Len(alliances) + 1 /\ w.row = r /\ w.ties = {}
    BY DEF Unwritten
<1> HIDE DEF w, r
<1> QED
    BY <1>1, <1>2, <1>3, <1>4, DecideStep

LEMMA AnswerStep ==
    ASSUME BondsInv, NEW i \in DOMAIN alliances, AcceptAlliance(i) \/ DissolveAlliance(i)
    PROVE  BondsInv'
<1>1. /\ Len(alliances) \in Nat /\ DOMAIN alliances = 1..Len(alliances)
      /\ i \in 1..Len(alliances) /\ alliances[i] \in AllianceRows
    BY DEF BondsInv
<1>2. CASE AcceptAlliance(i)
    <2> DEFINE r == [alliances[i] EXCEPT !.status = "active"]
               w == [Unwritten EXCEPT !.alliance = i, !.row = r]
    <2>1. Decide(w) /\ alliances[i].status = "proposed"
        BY <1>2 DEF AcceptAlliance
    <2>2. r.status = "active"
        BY <1>1 DEF AllianceRows
    <2> HIDE DEF r
    <2>3. w.alliance = i /\ w.row = r /\ w.ties = {}
        BY DEF Unwritten
    <2> HIDE DEF w
    <2> QED
        BY <1>1, <2>1, <2>2, <2>3, DecideStep
<1>3. CASE DissolveAlliance(i)
    <2> DEFINE r == [alliances[i] EXCEPT !.status = "dissolved"]
               w == [Unwritten EXCEPT !.alliance = i, !.row = r]
    <2>1. Decide(w)
        BY <1>3 DEF DissolveAlliance
    <2>2. r.status = "dissolved"
        BY <1>1 DEF AllianceRows
    <2> HIDE DEF r
    <2>3. w.alliance = i /\ w.row = r /\ w.ties = {}
        BY DEF Unwritten
    <2> HIDE DEF w
    <2> QED
        BY <1>1, <2>1, <2>2, <2>3, DecideStep
<1> QED
    BY <1>2, <1>3

\* Trust is written for the operator, who takes its turn, and for the strategist,
\* who was born.
LEMMA ClosePositionStep ==
    ASSUME BondsInv, NEW t \in Trades, ClosePosition(t), turn.step = "decide"
    PROVE  BondsInv'
<1>1. PICK outcome \in {"positive", "negative"} :
        Decide([Unwritten EXCEPT !.ties = PipelineTies(t), !.outcome = outcome])
    BY DEF ClosePosition
<1> DEFINE w == [Unwritten EXCEPT !.ties = PipelineTies(t), !.outcome = outcome]
<1>2. w.alliance = 0 /\ w.ties = PipelineTies(t)
    BY DEF Unwritten
<1>3. t.operator \notin Unborn /\ t.strategist \notin Unborn
    BY DEF ClosePosition, BondsInv, TurnFits
<1>4. \A p \in PipelineTies(t) : p[1] \in {t.operator, t.strategist}
    BY DEF PipelineTies
<1>5. Len(alliances) \in Nat /\ DOMAIN alliances = 1..Len(alliances)
    BY DEF BondsInv
<1>6. Decide(w)
    BY <1>1
<1> HIDE DEF w
<1> QED
    BY <1>2, <1>3, <1>4, <1>5, <1>6, DecideStep

LEMMA ReflectStep == BondsInv /\ Reflect => BondsInv'
<1> SUFFICES ASSUME BondsInv, Reflect PROVE BondsInv'
    OBVIOUS
<1>1. PICK lessons : Decide([Unwritten EXCEPT !.lessons = lessons])
    BY DEF Reflect
<1> DEFINE w == [Unwritten EXCEPT !.lessons = lessons]
<1>2. w.alliance = 0 /\ w.ties = {} /\ Decide(w)
    BY <1>1 DEF Unwritten
<1>3. Len(alliances) \in Nat /\ DOMAIN alliances = 1..Len(alliances)
    BY DEF BondsInv
<1> HIDE DEF w
<1> QED
    BY <1>2, <1>3, DecideStep

\* A turn begins, is flushed, or is lost.
LEMMA TurnStep ==
    ASSUME BondsInv, NEW a, BeginTurn(a) \/ FlushTurn \/ AbortTurn
    PROVE  BondsInv'
<1>1. UNCHANGED <<rows, burial, released>> /\ UNCHANGED <<alive, alliances>> /\ Unborn' = Unborn
    BY DEF BeginTurn, FlushTurn, AbortTurn, rows, Unborn
<1>2. Len(alliances) \in Nat /\ DOMAIN alliances = 1..Len(alliances) /\ alive \subseteq Agents
    BY DEF BondsInv
<1>3. TurnFits'
    <2>1. CASE BeginTurn(a)
        <3>1. turn' = [by |-> a, step |-> "decide", write |-> Unwritten] /\ a \in Agents \ Unborn
            BY <1>2, <2>1 DEF BeginTurn, NoTurn, Unborn
        <3>2. Unwritten.alliance = 0 /\ Unwritten.ties = {}
            BY DEF Unwritten
        <3> QED
            BY <1>1, <1>2, <3>1, <3>2 DEF TurnFits
    <2>2. CASE FlushTurn
        <3>1. turn.step = "flush" /\ turn' = [by |-> turn.by, step |-> "commit", write |-> turn.write]
            BY <2>2 DEF FlushTurn, BondsInv, TurnFits
        <3> QED
            BY <1>1, <3>1 DEF BondsInv, TurnFits
    <2>3. CASE AbortTurn
        <3>1. turn' = [by |-> NoAgent, step |-> "none", write |-> Unwritten]
            BY <2>3 DEF AbortTurn, NoTurn
        <3>2. Unwritten.alliance = 0 /\ Unwritten.ties = {}
            BY DEF Unwritten
        <3> QED
            BY <1>1, <1>2, <3>1, <3>2 DEF TurnFits
    <2> QED
        BY <2>1, <2>2, <2>3
<1> QED
    BY <1>1, <1>3, TurnOnly

\* An outcome adds no tie to the archive and takes none out of it.
LEMMA InteractionTypes ==
    ASSUME NEW tie \in TieRows, NEW outcome
    PROVE  /\ RecordInteraction(tie, outcome) \in TieRows
           /\ tie.row # "none" => RecordInteraction(tie, outcome).row = tie.row
<1> DEFINE known == IF tie.row = "none" THEN NewTie ELSE tie
<1>1. known \in TieRows /\ (tie.row # "none" => known.row = tie.row)
    BY DEF NewTie, NoTie, TieRows
<1> HIDE DEF known
<1>2. [known EXCEPT !.positive = 1] \in TieRows /\ [known EXCEPT !.positive = 1].row = known.row
    BY <1>1 DEF TieRows
<1>3. [known EXCEPT !.negative = 1] \in TieRows /\ [known EXCEPT !.negative = 1].row = known.row
    BY <1>1 DEF TieRows
<1>4. RecordInteraction(tie, outcome) = IF outcome = "positive" THEN [known EXCEPT !.positive = 1]
                                        ELSE [known EXCEPT !.negative = 1]
    BY DEF RecordInteraction, known
<1> QED
    BY <1>1, <1>2, <1>3, <1>4

\* What a committed write does to the alliances: it appends one, dissolves one or
\* accepts one that was proposed.
LEMMA AllianceWritten ==
    ASSUME BondsInv
    PROVE  LET after == WithAlliance(turn.write)
           IN  /\ after \in Seq(AllianceRows)
               /\ DOMAIN alliances \subseteq DOMAIN after
               /\ \A i \in DOMAIN alliances :
                    \/ after[i].status = alliances[i].status
                    \/ after[i].status = "dissolved"
                    \/ after[i].status = "active" /\ alliances[i].status = "proposed"
<1> DEFINE w == turn.write
           n == Len(alliances)
<1>1. /\ n \in Nat /\ DOMAIN alliances = 1..n
      /\ \A i \in 1..n : alliances[i] \in AllianceRows
      /\ alliances \in Seq(AllianceRows)
      /\ w.alliance \in 0..(n + 1)
      /\ w.alliance = n + 1 => w.row \in AllianceRows
      /\ w.alliance \in 1..n =>
            \/ w.row.status = "dissolved"
            \/ w.row.status = "active" /\ alliances[w.alliance].status = "proposed"
    BY DEF BondsInv, TurnFits
<1>2. CASE w.alliance = 0
    BY <1>1, <1>2 DEF WithAlliance
<1>3. CASE w.alliance = n + 1
    <2> DEFINE after == Append(alliances, w.row)
    <2>1. WithAlliance(w) = after
        BY <1>1, <1>3 DEF WithAlliance
    <2>2. /\ after \in Seq(AllianceRows) /\ DOMAIN after = 1..(n + 1)
          /\ \A i \in 1..n : after[i] = alliances[i]
        BY <1>1, <1>3
    <2> HIDE DEF after
    <2> QED
        BY <1>1, <2>1, <2>2
<1>4. CASE w.alliance \in 1..n
    <2> DEFINE j == w.alliance
               r == [alliances[j] EXCEPT !.status = w.row.status]
               after == [alliances EXCEPT ![j] = r]
    <2>1. WithAlliance(w) = after
        <3>1. w.alliance # 0 /\ ~(w.alliance > Len(alliances))
            BY <1>1, <1>4
        <3>2. WithAlliance(w) = [alliances EXCEPT ![j].status = w.row.status]
            BY <3>1 DEF WithAlliance
        <3> QED
            BY <1>1, <1>4, <3>2
    <2>2. r \in AllianceRows /\ r.status = w.row.status
        BY <1>1, <1>4 DEF AllianceRows
    <2> HIDE DEF r
    <2>3. /\ after \in Seq(AllianceRows) /\ DOMAIN after = 1..n
          /\ \A i \in 1..n : after[i] = IF i = j THEN r ELSE alliances[i]
        BY <1>1, <1>4, <2>2
    <2> HIDE DEF after
    <2> QED
        BY <1>1, <1>4, <2>1, <2>2, <2>3
<1> QED
    BY <1>1, <1>2, <1>3, <1>4

LEMMA CommitTurnStep == BondsInv /\ CommitTurn => BondsInv'
<1> SUFFICES ASSUME BondsInv, CommitTurn PROVE BondsInv'
    OBVIOUS
<1>1. /\ alliances' = WithAlliance(turn.write) /\ turn' = NoTurn
      /\ UNCHANGED <<alive, burial, turns, released>> /\ Unborn' = Unborn
      /\ ties' = [p \in Pairs |-> IF p \in turn.write.ties
                                  THEN RecordInteraction(ties[p], turn.write.outcome) ELSE ties[p]]
    BY DEF CommitTurn, Unborn
<1>2. /\ alliances' \in Seq(AllianceRows) /\ DOMAIN alliances \subseteq DOMAIN alliances'
      /\ \A i \in DOMAIN alliances :
            \/ alliances'[i].status = alliances[i].status
            \/ alliances'[i].status = "dissolved"
            \/ alliances'[i].status = "active" /\ alliances[i].status = "proposed"
    BY <1>1, AllianceWritten
<1>3. /\ ties' \in [Pairs -> TieRows]
      /\ \A p \in Pairs : ties[p].row # "none" => ties'[p].row = ties[p].row
      /\ \A p \in Pairs : p \notin turn.write.ties => ties'[p] = ties[p]
    <2>1. \A p \in Pairs : ties[p] \in TieRows
        BY DEF BondsInv
    <2>2. \A p \in Pairs : /\ ties'[p] \in TieRows
                           /\ ties[p].row # "none" => ties'[p].row = ties[p].row
        BY <1>1, <2>1, InteractionTypes
    <2> QED
        BY <1>1, <2>2
<1>4. TurnFits'
    <2>1. turn' = [by |-> NoAgent, step |-> "none", write |-> Unwritten]
        BY <1>1 DEF NoTurn
    <2>2. Unwritten.alliance = 0 /\ Unwritten.ties = {}
        BY DEF Unwritten
    <2>3. Len(alliances') \in Nat /\ DOMAIN alliances' = 1..Len(alliances')
        BY <1>2
    <2> QED
        BY <2>1, <2>2, <2>3 DEF TurnFits
<1>5. BurialFits'
    BY <1>1, <1>2, <1>3 DEF BondsInv, BurialFits
<1>6. TiesOfTheBorn'
    <2>1. \A p \in Pairs : ties'[p].row # "none" => p \in turn.write.ties \/ ties[p].row # "none"
        BY <1>3
    <2> QED
        BY <1>1, <2>1 DEF BondsInv, TiesOfTheBorn, TurnFits
<1>7. ReleasedStays'
    BY <1>1, <1>2, <1>3 DEF BondsInv, ReleasedStays
<1> QED
    BY <1>1, <1>2, <1>3, <1>4, <1>5, <1>6, <1>7 DEF BondsInv

\* A burial before its commit.
LEMMA BurialStep ==
    ASSUME BondsInv, NEW a,
           BeginBurial(a) \/ FindAlliances \/ DissolveOnDeath \/ ArchiveRelationships
             \/ RollbackBurial
    PROVE  BondsInv'
<1>1. UNCHANGED <<rows, turn, released>> /\ UNCHANGED <<alliances, ties>>
    BY DEF BeginBurial, FindAlliances, DissolveOnDeath, ArchiveRelationships, RollbackBurial, rows
<1>2. burial = [of |-> burial.of, step |-> burial.step, ends |-> burial.ends,
                due |-> burial.due, ties |-> burial.ties]
    BY DEF BondsInv, BurialFits
<1>3. BurialFits'
    <2>1. CASE BeginBurial(a)
        BY <2>1 DEF BeginBurial, NoBurial, BurialFits
    <2>2. CASE FindAlliances
        <3> DEFINE S == ActiveAlliances(burial.of)
        <3>1. S = Allied(burial.of) /\ \A i \in S : i \in DOMAIN alliances /\ alliances[i].status = "active"
            BY DEF ActiveAlliances, Allied, Members
        <3>2. burial' = [of |-> burial.of, step |-> "found", ends |-> S, due |-> S,
                         ties |-> burial.ties]
            BY <1>2, <2>2, <3>1 DEF FindAlliances
        <3> HIDE DEF S
        <3> QED
            BY <1>1, <3>1, <3>2 DEF BondsInv, BurialFits
    <2>3. CASE DissolveOnDeath
        <3>1. burial' = [of |-> burial.of, step |-> "flushed", ends |-> burial.ends,
                         due |-> burial.due, ties |-> burial.ties]
            BY <1>2, <2>3 DEF DissolveOnDeath
        <3> QED
            BY <1>1, <3>1 DEF BondsInv, BurialFits
    <2>4. CASE ArchiveRelationships
        <3> DEFINE S == LiveTies(burial.of)
        <3>1. \A p \in S : p \in Pairs /\ ties[p].row = "live"
            BY DEF LiveTies
        <3>2. burial' = [of |-> burial.of, step |-> "archived", ends |-> burial.ends,
                         due |-> burial.due, ties |-> S]
            BY <1>2, <2>4 DEF ArchiveRelationships
        <3> HIDE DEF S
        <3> QED
            BY <1>1, <3>1, <3>2 DEF BondsInv, BurialFits
    <2>5. CASE RollbackBurial
        BY <2>5 DEF RollbackBurial, NoBurial, BurialFits
    <2> QED
        BY <2>1, <2>2, <2>3, <2>4, <2>5
<1> QED
    BY <1>1, <1>3, BurialOnly

\* A burial ends the alliances it found and archives the ties; an acceptance under
\* way is of an alliance that was only proposed, which no burial touches.
LEMMA CommitBurialStep == BondsInv /\ CommitBurial => BondsInv'
<1> SUFFICES ASSUME BondsInv, CommitBurial PROVE BondsInv'
    OBVIOUS
<1> DEFINE n == Len(alliances)
<1>1. /\ alive' = alive \ {burial.of} /\ turn' = turn /\ burial' = NoBurial
      /\ alliances' = [i \in DOMAIN alliances |->
                          IF i \in burial.ends THEN [alliances[i] EXCEPT !.status = "dissolved"]
                          ELSE alliances[i]]
      /\ ties' = [p \in Pairs |-> IF p \in burial.ties THEN [ties[p] EXCEPT !.row = "archived"]
                                  ELSE ties[p]]
      /\ released' = [agents |-> released.agents \union {burial.of},
                      alliances |-> released.alliances \union burial.due,
                      ties |-> released.ties \union burial.ties]
    BY DEF CommitBurial
<1>2. /\ n \in Nat /\ DOMAIN alliances = 1..n /\ \A i \in 1..n : alliances[i] \in AllianceRows
      /\ \A p \in Pairs : ties[p] \in TieRows
    BY DEF BondsInv
<1>3. /\ \A i \in 1..n : /\ alliances'[i] \in AllianceRows
                         /\ alliances'[i].status = IF i \in burial.ends THEN "dissolved"
                                                   ELSE alliances[i].status
      /\ DOMAIN alliances' = 1..n
    BY <1>1, <1>2 DEF AllianceRows
<1>4. alliances' \in Seq(AllianceRows) /\ Len(alliances') = n
    <2> DEFINE after == [i \in 1..n |-> alliances'[i]]
    <2>1. alliances' = after
        BY <1>1, <1>2
    <2>2. after \in Seq(AllianceRows) /\ Len(after) = n
        BY <1>2, <1>3
    <2> QED
        BY <2>1, <2>2
<1>5. \A p \in Pairs : /\ ties'[p] \in TieRows
                       /\ ties'[p].row = IF p \in burial.ties THEN "archived" ELSE ties[p].row
    BY <1>1, <1>2 DEF TieRows
<1>6. ties' \in [Pairs -> TieRows]
    BY <1>1, <1>5
<1>7. Unborn' \subseteq Unborn /\ alive' \subseteq Agents
    BY <1>1 DEF Unborn, BondsInv
<1>8. BurialFits /\ TiesOfTheBorn /\ ReleasedStays /\ TurnFits
    BY DEF BondsInv
<1>9. TurnFits'
    <2>1. turn.write.alliance \in 0..(n + 1)
          /\ (turn.write.alliance = n + 1 => turn.write.row \in AllianceRows)
        BY <1>8 DEF TurnFits
    <2>2. turn.write.alliance \in 1..n =>
            \/ turn.write.row.status = "dissolved"
            \/ turn.write.row.status = "active" /\ alliances'[turn.write.alliance].status = "proposed"
        BY <1>2, <1>3, <1>8 DEF TurnFits, BurialFits
    <2>3. /\ turn = [by |-> turn.by, step |-> turn.step, write |-> turn.write]
          /\ turn.step # "none" => turn.by \in Agents \ Unborn'
          /\ \A p \in turn.write.ties : p[1] \notin Unborn'
        BY <1>7, <1>8 DEF TurnFits
    <2> QED
        BY <1>1, <1>3, <1>4, <2>1, <2>2, <2>3 DEF TurnFits
<1>10. BurialFits'
    BY <1>1 DEF BurialFits, NoBurial
<1>11. TiesOfTheBorn'
    BY <1>5, <1>7, <1>8 DEF TiesOfTheBorn, BurialFits
<1>12. ReleasedStays'
    <2>1. \A i \in released'.alliances : i \in 1..n /\ alliances'[i].status = "dissolved"
        BY <1>1, <1>2, <1>3, <1>8 DEF ReleasedStays, BurialFits
    <2>2. \A p \in released'.ties : p \in Pairs /\ ties'[p].row = "archived"
        BY <1>1, <1>5, <1>8 DEF ReleasedStays, BurialFits
    <2> QED
        BY <1>3, <2>1, <2>2 DEF ReleasedStays
<1>13. released' = [agents |-> released'.agents, alliances |-> released'.alliances,
                    ties |-> released'.ties]
    BY <1>1
<1> QED
    BY <1>4, <1>6, <1>7, <1>9, <1>10, <1>11, <1>12, <1>13 DEF BondsInv

\* A birth adds ties of one who had none.
LEMMA BearChildStep ==
    ASSUME BondsInv, NEW parent \in Agents, NEW child \in Agents, BearChild(parent, child)
    PROVE  BondsInv'
<1>1. /\ child \in Unborn /\ alive' = alive \union {child}
      /\ ties' = [p \in Pairs |-> IF p[1] = child /\ ties[<<parent, p[2]>>].row = "live" THEN NewTie
                                  ELSE ties[p]]
      /\ UNCHANGED <<alliances, turn, burial, turns, released>>
    BY DEF BearChild, TransferRelationships
<1>2. BurialFits /\ TiesOfTheBorn /\ ReleasedStays /\ TurnFits
    BY DEF BondsInv
<1>3. \A p \in Pairs : p[1] = child => ties[p].row = "none"
    BY <1>1, <1>2 DEF TiesOfTheBorn
<1>4. /\ ties' \in [Pairs -> TieRows]
      /\ \A p \in Pairs : p[1] # child => ties'[p] = ties[p]
      /\ \A p \in Pairs : ties[p].row # "none" => ties'[p] = ties[p]
    <2>1. NewTie \in TieRows
        BY DEF NewTie, NoTie, TieRows
    <2>2. \A p \in Pairs : ties'[p] \in TieRows
        BY <1>1, <2>1 DEF BondsInv
    <2> QED
        BY <1>1, <1>3, <2>2
<1>5. Unborn' = Unborn \ {child} /\ alive' \subseteq Agents
    BY <1>1 DEF Unborn, BondsInv
<1>6. TurnFits'
    BY <1>1, <1>2, <1>5 DEF TurnFits
<1>7. BurialFits'
    BY <1>1, <1>2, <1>4 DEF BurialFits
<1>8. TiesOfTheBorn'
    BY <1>2, <1>4, <1>5 DEF TiesOfTheBorn
<1>9. ReleasedStays'
    <2>1. \A p \in released.ties : p \in Pairs /\ ties[p].row = "archived"
        BY <1>2 DEF ReleasedStays
    <2>2. \A p \in released.ties : p \in Pairs /\ ties'[p].row = "archived"
        BY <1>4, <2>1
    <2> QED
        BY <1>1, <1>2, <2>2 DEF ReleasedStays
<1> QED
    BY <1>1, <1>4, <1>5, <1>6, <1>7, <1>8, <1>9 DEF BondsInv

\* However cycles, burials and births interleave, the inductive invariant holds.
THEOREM BondsInvariant == BondsSpec => []BondsInv
<1>1. BondsInit => BondsInv
    BY BondsInitInv
<1>2. BondsInv /\ [BondsNext]_bondsVars => BondsInv'
    <2> SUFFICES ASSUME BondsInv, [BondsNext]_bondsVars PROVE BondsInv'
        OBVIOUS
    <2>1. CASE UNCHANGED bondsVars
        BY <2>1 DEF bondsVars, BondsInv, TurnFits, BurialFits, TiesOfTheBorn, ReleasedStays, Unborn
    <2>2. CASE TurnNext
        <3>1. CASE turn.step = "decide" /\ ActOnBonds
            BY <3>1, ProposeStep, AnswerStep, ClosePositionStep, ReflectStep DEF ActOnBonds
        <3> QED
            BY <2>2, <3>1, TurnStep, CommitTurnStep DEF TurnNext
    <2>3. CASE GenesisNext
        BY <2>3, BurialStep, CommitBurialStep, BearChildStep DEF GenesisNext
    <2> QED
        BY <2>1, <2>2, <2>3 DEF BondsNext
<1> QED
    BY <1>1, <1>2, PTL DEF BondsSpec

\* The alliances that were active when an agent was buried are over and its ties
\* are archived, whatever cycle was writing them at the time.
THEOREM DeadReleased == BondsSpec => []DeadAreReleased
<1>1. BondsInv => DeadAreReleased
    BY DEF BondsInv, ReleasedStays, DeadAreReleased
<1> QED
    BY <1>1, BondsInvariant, PTL

===============================================================================
