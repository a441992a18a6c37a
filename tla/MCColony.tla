------------------------------- MODULE MCColony -------------------------------
(* Three founders in two waves, and three rows.  A behaviour looks at one of   *)
(* two parts.  In the one nobody starts to think, is born or put on probation: *)
(* the boots of a colony, from the start or with the first founder dead in the *)
(* middle of its cycle, from which it may rise, and two waiting.  The other is *)
(* the life of a colony whose first founder is active and whose third is dead, *)
(* as is the second, which had another name and is left out: the row that      *)
(* remains is the second founder spawned again, a child, or the first founder  *)
(* spawned again.                                                              *)
EXTENDS Colony

CONSTANTS alpha, prime, other, a1, a2, a3
VARIABLE part

MCWaves == <<{alpha}, {prime, other}>>

MCVars == <<colonyVars, part>>

Veteran(n, a) ==
    [Unborn EXCEPT !.status = "active", !.spec = n, !.name = n, !.oriented = TRUE, !.line = a]
Dead(n, a) == [Veteran(n, a) EXCEPT !.status = "terminated", !.seasoned = TRUE, !.clock = "out"]

Started(rows, dead) ==
    /\ agent = rows
    /\ dynasty = [a \in Agents |->
                     LET living == Cardinality(Living(a)) IN
                     [living |-> living, status |-> CASE rows[a].spec = Nobody -> "none"
                                                      [] living = 0 -> "extinct" [] OTHER -> "active"]]
    /\ verdict = [a \in Agents |-> IF a \in dead THEN "terminated" ELSE "none"]
    /\ graves = [a \in Agents |-> IF a \in dead THEN 1 ELSE 0]
    /\ order = {} /\ genesis = Idle /\ births = 0 /\ upsets = 0

Rising ==
    /\ Started([a \in Agents |-> CASE a = a1 -> Dead(alpha, a1)
                                    [] a = a2 -> Founder(prime, a2)
                                    [] OTHER -> Founder(other, a3)], {a1})
    /\ thinking = a1

Lives ==
    /\ Started([a \in Agents |-> CASE a = a1 -> Veteran(alpha, a1)
                                    [] a = a3 -> Dead(other, a3)
                                    [] OTHER -> Unborn], {a3})
    /\ thinking = Nobody

MCInit ==
    \/ part = "boots" /\ (ColonyInit \/ Rising)
    \/ part = "lives" /\ Lives

MCNext ==
    /\ ColonyNext
    /\ UNCHANGED part
    /\ part = "boots" =>
           /\ thinking' \in {thinking, Nobody} /\ births' = 0
           /\ \A a \in Agents : genesis'.judged[a] # "probation"

MCSpec == MCInit /\ [][MCNext]_MCVars /\ WF_colonyVars(GenesisNext)

===============================================================================
