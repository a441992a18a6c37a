----------------------------- MODULE MCAgentCycles -----------------------------
(***************************************************************************)
(* Two agents, a1 with an interval of its own and a2 a critic, or one, a3, *)
(* whose budget changes and whose last words cost something; the others    *)
(* are dead.  a1 may lack its orientation.                                 *)
(***************************************************************************)
EXTENDS AgentCycles, TLC

CONSTANTS a1, a2, a3

MCInterval == a1 :> 2 @@ a2 :> 0 @@ a3 :> 2
MCBudgets == a1 :> {1} @@ a2 :> {1} @@ a3 :> {1, 2}
MCLastWords == a1 :> 0 @@ a2 :> 0 @@ a3 :> 1

Living == {a \in Agents : status[a] = "active"}

MCInit ==
    /\ Init
    /\ Living \in {{a1, a2}, {a3}}
    /\ {a2, a3} \subseteq oriented
    /\ runner.agent \in Living
    /\ budget = [a \in Agents |-> 1]

MCSpec == MCInit /\ [][Next]_vars /\ Fairness

===============================================================================
