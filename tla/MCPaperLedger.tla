----------------------------- MODULE MCPaperLedger -----------------------------
(* Two agents with 10 each and a flat fee of 1.  The size -4 is what an agent   *)
(* may write and nothing refuses; -2 is the value of a position whose           *)
(* take-profit price is negative.                                               *)
EXTENDS PaperLedger

MCSizes == {3, 9, -4}
MCValues == {5, -2}
MCFee == [v \in MCSizes \cup MCValues |-> IF v < 0 THEN -1 ELSE 1]

===============================================================================
