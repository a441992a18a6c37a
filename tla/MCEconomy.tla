------------------------------ MODULE MCEconomy ------------------------------
(* One scout, who also asks for reviews, and two agents who endorse and review. *)
EXTENDS Economy

CONSTANTS a1, a2, a3, s1, r1

MCScout == [s \in Signals |-> a1]
MCRequester == [r \in Requests |-> a1]

===============================================================================
