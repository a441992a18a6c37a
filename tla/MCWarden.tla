------------------------------- MODULE MCWarden -------------------------------
(* Who watches the treasury, and who hands it out: each behaviour is one of   *)
(* the Warden and the gate, or one of the rounds of capital: of Genesis (row  *)
(* 1), an operator, a scout and a child of the operator.                      *)
EXTENDS Warden, Treasury
VARIABLE agenda

MCBirthright == [h \in Holders |-> StartingTreasury \div 10]

DeskInit == agenda \in {"warden", "treasury"} /\ Init /\ TreasuryInit

DeskNext ==
    \/ agenda = "warden" /\ Next /\ UNCHANGED <<agenda, treasuryVars>>
    \/ agenda = "treasury" /\ TreasuryNext /\ UNCHANGED <<agenda, vars>>

deskVars == <<agenda, vars, treasuryVars>>

\* The fairness of the Warden, where the Warden is the concern.
DeskSpec ==
    /\ DeskInit /\ [][DeskNext]_deskVars
    /\ WF_deskVars(agenda = "warden" /\ Cycle /\ UNCHANGED <<agenda, treasuryVars>>)
    /\ WF_deskVars(agenda = "warden" /\ DatabaseUp /\ UNCHANGED <<agenda, treasuryVars>>)

===============================================================================
