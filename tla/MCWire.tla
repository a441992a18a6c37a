--------------------------------- MODULE MCWire --------------------------------
(* Two announcements of Kraken, whose feed lists the newest first, of one coin;   *)
(* FRED, which comes first by name, has no API key.                               *)
EXTENDS Wire

CONSTANTS btc

fred == 1
kraken == 2

MCScope == [i \in Items |-> btc]
MCSources == {fred, kraken}
MCSourceOf == [i \in Items |-> kraken]
MCSeries == [i \in Items |-> IF i = 1 THEN {1, 2} ELSE {2}]
MCBucket == [i \in Items |-> 1]
MCKindOf == [s \in Sources |-> IF s = kraken THEN "kraken_announcements" ELSE "fred"]
MCKeyless == {fred}

\* What the database keeps of a feed is what stands after its last known item.
ASSUME KeptIsTheTail ==
    \A known \in SUBSET (1..4), n \in 0..3 : \A feed \in [1..n -> 1..4] :
        IsInjective(feed) =>
            PersistItems(known, feed) =
                {feed[k] : k \in {k \in 1..n : \A l \in k..n : feed[l] \notin known}}

\* A feed by date keeps all its new items; one that lists the newest first keeps the
\* first fetch, and then nothing until the known items have left its window.
ASSUME OrderDecides ==
    \A old \in 1..3, new \in 1..3 :
        old < new =>
            /\ PersistItems(1..old, TradingEconomics(1..new)) = (old + 1)..new
            /\ PersistItems(1..old, KrakenAnnouncements(1..new)) =
                  IF new - old >= Window THEN (new - Window + 1)..new ELSE {}
            /\ PersistItems(1..old, CryptoPanic(1..new)) =
                  PersistItems(1..old, KrakenAnnouncements(1..new))

\* A transfer between two watched wallets is lost whenever both of them answer, with
\* all that is listed before its second place.
ASSUME BothSidesLoseIt ==
    /\ PersistItems({}, EtherscanTransfers({1, 2}, {1, 2})) = {}
    /\ PersistItems({}, EtherscanTransfers({1, 2}, {1})) = {1}
    /\ PersistItems({}, EtherscanTransfers({1, 2}, {2})) = {1, 2}

===============================================================================
