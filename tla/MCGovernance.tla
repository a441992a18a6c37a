----------------------------- MODULE MCGovernance -----------------------------
(* Two proposals and two voters, against two evaluation weights that add up   *)
(* to 90 hundredths, as the seeded ones do, a structural parameter and a      *)
(* forbidden one.                                                             *)
EXTENDS Governance

CONSTANTS p1, p2, w1, w2, structural, forbidden

MCWeight == [v \in Voters |-> IF v = 1 THEN 1 ELSE 2]
MCSeed == [p \in Parameters |->
    CASE p = w1 -> [value |-> 60, min |-> 40, max |-> 70, tier |-> 1,
                    evaluation |-> TRUE, weight |-> TRUE]
      [] p = w2 -> [value |-> 30, min |-> 0, max |-> 40, tier |-> 1,
                    evaluation |-> TRUE, weight |-> TRUE]
      [] p = structural -> [value |-> 2, min |-> 1, max |-> 5, tier |-> 2,
                    evaluation |-> FALSE, weight |-> FALSE]
      [] OTHER -> [value |-> 1, min |-> 1, max |-> 1, tier |-> 3,
                    evaluation |-> FALSE, weight |-> FALSE]]
MCProposals == [s \in Sips |->
    IF s = p1
    THEN {[key |-> w1, value |-> 70], [key |-> structural, value |-> 3],
          [key |-> forbidden, value |-> 2], [key |-> None, value |-> None]}
    ELSE {[key |-> w2, value |-> 40], [key |-> w2, value |-> None],
          [key |-> structural, value |-> 3]}]
MCPassAt == <<60, 60, 60, 65>>
MCStructuralAt == <<75, 75, 75, 80>>
MCSipsFor == <<0, 1, 1, 2>>

===============================================================================
