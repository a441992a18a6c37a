----------------------------- MODULE TallyTheorems -----------------------------
(***************************************************************************)
(* What Tally computes, for functions of any length: it exists, changes by *)
(* what an entry changes, and is at least any entry if none is negative.   *)
(***************************************************************************)
EXTENDS Tally, WellFoundedInduction, TLAPS

\* Induction, with a set in the place of the predicate: a set that holds 0 and
\* the successor of each of its numbers holds every number.
LEMMA SetInduction ==
    ASSUME NEW S, 0 \in S, \A n \in Nat : n \in S => n + 1 \in S
    PROVE  Nat \subseteq S
<1> DEFINE T == Nat \ S
<1> SUFFICES ASSUME T # {} PROVE FALSE
    OBVIOUS
<1>1. PICK x \in T : \A y \in T : ~(<<y, x>> \in OpToRel(<, Nat))
    <2>1. T \subseteq Nat
        OBVIOUS
    <2> QED
        BY <2>1, NatLessThanWellFounded, WFMin, Zenon
<1>2. x \in Nat /\ x # 0 /\ x - 1 \in Nat /\ x - 1 < x /\ (x - 1) + 1 = x
    OBVIOUS
<1>3. x - 1 \in T
    BY <1>2
<1>4. <<x - 1, x>> \in OpToRel(<, Nat)
    BY <1>2 DEF OpToRel
<1> QED
    BY <1>1, <1>3, <1>4

-------------------------------------------------------------------------------
(* Partial sums *)

\* The partial sums of a function exist.
LEMMA PartialSumsExist ==
    ASSUME NEW n \in Nat, NEW f \in [1..n -> Int]
    PROVE  \E s \in [0..n -> Int] : PartialSums(s, f, n)
<1> DEFINE P(k) == \E s \in [0..k -> Int] : PartialSums(s, f, k)
           S == {k \in Nat : k <= n => P(k)}
<1>1. 0 \in S
    <2>1. PartialSums([i \in 0..0 |-> 0], f, 0) /\ [i \in 0..0 |-> 0] \in [0..0 -> Int]
        BY DEF PartialSums
    <2> QED
        BY <2>1
<1>2. ASSUME NEW k \in Nat, k \in S PROVE k + 1 \in S
    <2> SUFFICES ASSUME k + 1 <= n PROVE P(k + 1)
        OBVIOUS
    <2>1. PICK s \in [0..k -> Int] : PartialSums(s, f, k)
        BY <1>2
    <2> DEFINE t == [i \in 0..(k + 1) |-> IF i = k + 1 THEN s[k] + f[k + 1] ELSE s[i]]
    <2>2. \A i \in 0..k : s[i] = IF i = 0 THEN 0 ELSE s[i - 1] + f[i]
        BY <2>1, Zenon DEF PartialSums
    <2>3. t \in [0..(k + 1) -> Int]
        OBVIOUS
    <2>4. ASSUME NEW i \in 0..(k + 1)
          PROVE  t[i] = IF i = 0 THEN 0 ELSE t[i - 1] + f[i]
        <3>1. CASE i = k + 1
            BY <3>1
        <3>2. CASE i # k + 1
            <4>1. i \in 0..k /\ (i # 0 => i - 1 \in 0..k /\ i - 1 # k + 1)
                BY <3>2
            <4> QED
                BY <4>1, <2>2, <3>2
        <3> QED
            BY <3>1, <3>2
    <2>5. PartialSums(t, f, k + 1)
        BY <2>4, Zenon DEF PartialSums
    <2> QED
        BY <2>3, <2>5
<1>3. Nat \subseteq S
    <2> HIDE DEF S
    <2> QED
        BY <1>1, <1>2, SetInduction
<1> QED
    BY <1>3

\* Partial sums are a function into the integers.
LEMMA PartialSumsType ==
    ASSUME NEW n \in Nat, NEW f \in [1..n -> Int], NEW s, PartialSums(s, f, n)
    PROVE  s \in [0..n -> Int]
<1> DEFINE S == {k \in Nat : k <= n => s[k] \in Int}
<1>1. \A i \in 0..n : s[i] = IF i = 0 THEN 0 ELSE s[i - 1] + f[i]
    BY Zenon DEF PartialSums
<1>2. 0 \in S
    BY <1>1
<1>3. ASSUME NEW k \in Nat, k \in S PROVE k + 1 \in S
    BY <1>1, <1>3
<1>4. Nat \subseteq S
    <2> HIDE DEF S
    <2> QED
        BY <1>2, <1>3, SetInduction
<1>5. \A k \in 0..n : s[k] \in Int
    BY <1>4
<1>6. s = [i \in 0..n |-> s[i]]
    BY Zenon DEF PartialSums
<1> QED
    BY <1>5, <1>6

\* Tally(f, n) is the last of some partial sums of f.
LEMMA TallyIsLast ==
    ASSUME NEW n \in Nat, NEW f \in [1..n -> Int]
    PROVE  \E s \in [0..n -> Int] : PartialSums(s, f, n) /\ Tally(f, n) = s[n]
<1> DEFINE c == CHOOSE s : PartialSums(s, f, n)
<1>1. PartialSums(c, f, n)
    BY PartialSumsExist
<1>2. Tally(f, n) = c[n]
    BY DEF Tally, PartialSums
<1>3. c \in [0..n -> Int]
    BY <1>1, PartialSumsType
<1> QED
    BY <1>1, <1>2, <1>3

-------------------------------------------------------------------------------
(* Tally *)

\* The sum of integers is an integer.
LEMMA TallyType ==
    ASSUME NEW n \in Nat, NEW f \in [1..n -> Int]
    PROVE  Tally(f, n) \in Int
BY TallyIsLast

\* Two functions that differ in entry o only: so do their sums, by as much.
LEMMA TallyChange ==
    ASSUME NEW n \in Nat, NEW f \in [1..n -> Int], NEW g \in [1..n -> Int],
           NEW o \in 1..n, \A i \in 1..n : i # o => g[i] = f[i]
    PROVE  Tally(g, n) = Tally(f, n) + (g[o] - f[o])
<1>1. PICK s \in [0..n -> Int] : PartialSums(s, f, n) /\ Tally(f, n) = s[n]
    BY TallyIsLast
<1>2. PICK t \in [0..n -> Int] : PartialSums(t, g, n) /\ Tally(g, n) = t[n]
    BY TallyIsLast
<1>3. \A i \in 0..n : s[i] = IF i = 0 THEN 0 ELSE s[i - 1] + f[i]
    BY <1>1, Zenon DEF PartialSums
<1>4. \A i \in 0..n : t[i] = IF i = 0 THEN 0 ELSE t[i - 1] + g[i]
    BY <1>2, Zenon DEF PartialSums
<1>5. PICK d \in Int : d = g[o] - f[o]
    OBVIOUS
<1> DEFINE S == {k \in Nat : k <= n => /\ k < o => t[k] = s[k]
                                       /\ k >= o => t[k] = s[k] + d}
<1>6. 0 \in S
    BY <1>3, <1>4
<1>7. ASSUME NEW k \in Nat, k \in S PROVE k + 1 \in S
    <2> SUFFICES ASSUME k + 1 <= n
                 PROVE  /\ k + 1 < o => t[k + 1] = s[k + 1]
                        /\ k + 1 >= o => t[k + 1] = s[k + 1] + d
        OBVIOUS
    <2>1. k + 1 \in 1..n /\ k + 1 \in 0..n /\ k \in 0..n /\ (k + 1) - 1 = k /\ k + 1 # 0
        OBVIOUS
    <2>2. s[k + 1] = s[k] + f[k + 1] /\ t[k + 1] = t[k] + g[k + 1]
        BY <2>1, <1>3, <1>4
    <2>3. f[k + 1] \in Int /\ g[k + 1] \in Int /\ s[k] \in Int /\ t[k] \in Int
        BY <2>1
    <2>4. /\ k < o => t[k] = s[k]
          /\ k >= o => t[k] = s[k] + d
        BY <1>7
    <2>5. CASE k + 1 = o
        <3>1. d = g[k + 1] - f[k + 1]
            BY <2>5, <1>5
        <3> QED
            BY <2>2, <2>3, <2>4, <2>5, <3>1
    <2>6. CASE k + 1 # o
        <3>1. g[k + 1] = f[k + 1]
            BY <2>1, <2>6
        <3> QED
            BY <2>2, <2>3, <2>4, <2>6, <3>1
    <2> QED
        BY <2>5, <2>6
<1>8. Nat \subseteq S
    <2> HIDE DEF S
    <2> QED
        BY <1>6, <1>7, SetInduction
<1>9. t[n] = s[n] + d
    BY <1>8
<1> QED
    BY <1>9, <1>5, <1>1, <1>2

\* A sum of naturals is at least any one of them.
LEMMA TallyAtLeast ==
    ASSUME NEW n \in Nat, NEW f \in [1..n -> Nat]
    PROVE  Tally(f, n) \in Nat /\ \A o \in 1..n : f[o] <= Tally(f, n)
<1>1. PICK s \in [0..n -> Int] : PartialSums(s, f, n) /\ Tally(f, n) = s[n]
    <2>1. f \in [1..n -> Int]
        OBVIOUS
    <2> QED
        BY <2>1, TallyIsLast
<1>2. \A i \in 0..n : s[i] = IF i = 0 THEN 0 ELSE s[i - 1] + f[i]
    BY <1>1, Zenon DEF PartialSums
<1> DEFINE S == {k \in Nat : k <= n => s[k] \in Nat /\ \A o \in 1..k : f[o] <= s[k]}
<1>3. 0 \in S
    BY <1>2
<1>4. ASSUME NEW k \in Nat, k \in S PROVE k + 1 \in S
    <2> SUFFICES ASSUME k + 1 <= n
                 PROVE  s[k + 1] \in Nat /\ \A o \in 1..(k + 1) : f[o] <= s[k + 1]
        OBVIOUS
    <2>1. s[k + 1] = s[k] + f[k + 1]
        BY <1>2
    <2>2. s[k] \in Nat /\ \A o \in 1..k : f[o] <= s[k]
        BY <1>4
    <2>3. ASSUME NEW o \in 1..(k + 1) PROVE f[o] <= s[k + 1]
        <3>1. CASE o = k + 1
            BY <2>1, <2>2, <3>1
        <3>2. CASE o # k + 1
            <4>1. o \in 1..k
                BY <3>2
            <4> QED
                BY <4>1, <2>1, <2>2
        <3> QED
            BY <3>1, <3>2
    <2> QED
        BY <2>1, <2>2, <2>3
<1>5. Nat \subseteq S
    <2> HIDE DEF S
    <2> QED
        BY <1>3, <1>4, SetInduction
<1> QED
    BY <1>5, <1>1

\* The sum of zeros.
LEMMA TallyZero ==
    ASSUME NEW n \in Nat, NEW f \in [1..n -> Int], \A o \in 1..n : f[o] = 0
    PROVE  Tally(f, n) = 0
<1>1. PICK s \in [0..n -> Int] : PartialSums(s, f, n) /\ Tally(f, n) = s[n]
    BY TallyIsLast
<1>2. \A i \in 0..n : s[i] = IF i = 0 THEN 0 ELSE s[i - 1] + f[i]
    BY <1>1, Zenon DEF PartialSums
<1> DEFINE S == {k \in Nat : k <= n => s[k] = 0}
<1>3. 0 \in S
    BY <1>2
<1>4. ASSUME NEW k \in Nat, k \in S PROVE k + 1 \in S
    BY <1>2, <1>4
<1>5. Nat \subseteq S
    <2> HIDE DEF S
    <2> QED
        BY <1>3, <1>4, SetInduction
<1> QED
    BY <1>5, <1>1

\* A sum grows with its entries.
LEMMA TallyMonotone ==
    ASSUME NEW n \in Nat, NEW f \in [1..n -> Nat], NEW g \in [1..n -> Nat],
           \A o \in 1..n : f[o] <= g[o]
    PROVE  Tally(f, n) <= Tally(g, n)
<1>1. f \in [1..n -> Int] /\ g \in [1..n -> Int]
    OBVIOUS
<1>2. PICK s \in [0..n -> Int] : PartialSums(s, f, n) /\ Tally(f, n) = s[n]
    BY <1>1, TallyIsLast
<1>3. PICK t \in [0..n -> Int] : PartialSums(t, g, n) /\ Tally(g, n) = t[n]
    BY <1>1, TallyIsLast
<1>4. \A i \in 0..n : s[i] = IF i = 0 THEN 0 ELSE s[i - 1] + f[i]
    BY <1>2, Zenon DEF PartialSums
<1>5. \A i \in 0..n : t[i] = IF i = 0 THEN 0 ELSE t[i - 1] + g[i]
    BY <1>3, Zenon DEF PartialSums
<1> DEFINE S == {k \in Nat : k <= n => s[k] <= t[k]}
<1>6. 0 \in S
    BY <1>4, <1>5
<1>7. ASSUME NEW k \in Nat, k \in S PROVE k + 1 \in S
    <2> SUFFICES ASSUME k + 1 <= n PROVE s[k + 1] <= t[k + 1]
        OBVIOUS
    <2>1. /\ s[k + 1] = s[k] + f[k + 1] /\ t[k + 1] = t[k] + g[k + 1]
          /\ s[k] \in Int /\ t[k] \in Int /\ f[k + 1] \in Nat /\ g[k + 1] \in Nat
        <3>1. k + 1 \in 0..n /\ k \in 0..n /\ k + 1 \in 1..n /\ k + 1 # 0 /\ (k + 1) - 1 = k
            OBVIOUS
        <3>2. s[k + 1] = s[k] + f[k + 1] /\ t[k + 1] = t[k] + g[k + 1]
            BY <1>4, <1>5, <3>1
        <3>3. s[k] \in Int /\ t[k] \in Int
            BY <1>2, <1>3, <3>1
        <3> QED
            BY <3>1, <3>2, <3>3
    <2>2. s[k] <= t[k] /\ f[k + 1] <= g[k + 1]
        BY <1>7
    <2> QED
        BY <2>1, <2>2
<1>8. Nat \subseteq S
    <2> HIDE DEF S
    <2> QED
        BY <1>6, <1>7, SetInduction
<1> QED
    BY <1>2, <1>3, <1>8

===============================================================================
