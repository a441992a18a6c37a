--------------------------------- MODULE Tally ---------------------------------
(***************************************************************************)
(* The sum of the entries 1..n of a function, as a recursive function so   *)
(* that it can be both computed by TLC and reasoned about by TLAPS.        *)
(***************************************************************************)
EXTENDS Integers

\* s is the function of the partial sums of the entries 1..n of f.
PartialSums(s, f, n) == s = [i \in 0..n |-> IF i = 0 THEN 0 ELSE s[i - 1] + f[i]]

Tally(f, n) ==
    LET s[i \in 0..n] == IF i = 0 THEN 0 ELSE s[i - 1] + f[i]
    IN  s[n]

===============================================================================
