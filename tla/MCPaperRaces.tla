------------------------------ MODULE MCPaperRaces -----------------------------
(* An order of 2 and one of -1, which nothing refuses. *)
EXTENDS PaperRaces

MCSize == [t \in Trades |-> IF t = 1 THEN 2 ELSE -1]

===============================================================================
