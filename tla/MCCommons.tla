------------------------------ MODULE MCCommons ------------------------------
(***************************************************************************)
(* Four concerns of the agents that share no state: each behaviour is a   *)
(* behaviour of one of them, and the others stay at rest.                  *)
(***************************************************************************)
EXTENDS Library, Mind, Bonds, Agora
CONSTANTS c1, a1, a2, a3
VARIABLE agenda

MCSubmitter == [c \in Contributions |-> a1]
MCPrice == [m \in Models |-> IF m = "haiku" THEN 1 ELSE 3]
MCTrades == {[operator |-> "o", strategist |-> "s", scout |-> "o", critic |-> NoAgent]}

CommonsInit ==
    /\ agenda \in {"library", "mind", "bonds", "agora"}
    /\ LibraryInit /\ MindInit /\ BondsInit /\ AgoraInit

CommonsNext ==
    \/ agenda = "library" /\ LibraryNext /\ UNCHANGED <<agenda, mindVars, bondsVars, agoraVars>>
    \/ agenda = "mind" /\ MindNext /\ UNCHANGED <<agenda, libraryVars, bondsVars, agoraVars>>
    \/ agenda = "bonds" /\ BondsNext /\ UNCHANGED <<agenda, libraryVars, mindVars, agoraVars>>
    \/ agenda = "agora" /\ AgoraNext /\ UNCHANGED <<agenda, libraryVars, mindVars, bondsVars>>

commonsVars == <<agenda, libraryVars, mindVars, bondsVars, agoraVars>>

\* The fairness of the library, where the library is the concern.
CommonsFairness ==
    /\ WF_commonsVars(agenda = "library" /\ AgentsProceed /\ UNCHANGED <<agenda, mindVars, bondsVars, agoraVars>>)
    /\ WF_commonsVars(agenda = "library" /\ GenesisMaintains /\ UNCHANGED <<agenda, mindVars, bondsVars, agoraVars>>)
    /\ WF_commonsVars(agenda = "library" /\ Passing /\ UNCHANGED <<agenda, mindVars, bondsVars, agoraVars>>)

CommonsSpec == CommonsInit /\ [][CommonsNext]_commonsVars /\ CommonsFairness

===============================================================================
