----------------------------- MODULE MCOperatorHalt ----------------------------
(* Two announcements of one coin and one of the whole exchange. *)
EXTENDS OperatorHalt

CONSTANTS btc, eth

MCScope == [i \in Items |-> IF i = 3 THEN AllCoins ELSE btc]

===============================================================================
