------------------------------ MODULE MCPipeline ------------------------------
(* One agent of each role that hands something on.  A behaviour looks at one  *)
(* of three parts: what agents hand to each other; the two tables of waiting  *)
(* results; or a backlog of archive results beyond what one cycle takes.      *)
EXTENDS Pipeline, TLC
CONSTANTS scout, strategist, critic, r1, r2, r3
VARIABLE part

MCType == scout :> "scout" @@ strategist :> "strategist" @@ critic :> "critic"
MCPerCycle == "archive" :> 2 @@ "consult" :> 2

MCVars == <<pipelineVars, part>>

(* The tables that a row may be in.                                           *)
Tables(r) ==
    {"none"} \union (CASE part = "papers" -> {}
                       [] part = "backlog" -> {"archive"}
                       [] part = "tables" -> (r1 :> {"archive", "consult"} @@ r2 :> {"consult"} @@ r3 :> {})[r])

Alone == part # "papers" => Agents \ {strategist} \subseteq away

MCInit ==
    /\ PipelineInit
    /\ part \in {"papers", "tables", "backlog"}
    /\ Alone

MCNext ==
    /\ PipelineNext
    /\ UNCHANGED part
    /\ Alone'
    /\ part # "papers" => UNCHANGED <<opportunity, plan>>
    /\ \A r \in Results : result'[r].table \in Tables(r)

MCSpec == MCInit /\ [][MCNext]_MCVars /\ PipelineFairness
===============================================================================
