---------------------------- MODULE VersionsProofs ----------------------------
(***************************************************************************)
(* The properties of Versions, for every set of versions that              *)
(* ValidateVersion lets through and every number of them.                  *)
(*                                                                         *)
(* The comparisons of the code are shown to be orders one on top of the     *)
(* other (integers, strings, digit strings, fields, lists of fields,        *)
(* pre-releases, versions), each as a function that yields -1, 0 or 1; the   *)
(* lexical comparison lifts an order on elements to one on sequences.       *)
(* Induction is over a set: the least number that is not in it.             *)
(***************************************************************************)
EXTENDS Versions, WellFoundedInduction, FiniteSetTheorems, SequenceTheorems, TLAPS

-----------------------------------------------------------------------------
(* Induction, with a set in place of a predicate.                          *)

LEMMA LeastExists ==
    ASSUME NEW S \in SUBSET Nat, S # {}
    PROVE  \E i \in S : \A j \in S : i <= j
<1>1. PICK x \in S : \A y \in S : ~ (<<y, x>> \in OpToRel(<, Nat))
    BY NatLessThanWellFounded, WFMin
<1>2. \A y \in S : ~ (y < x)
    BY <1>1 DEF OpToRel
<1> QED
    BY <1>2

LEMMA LeastIs ==
    ASSUME NEW S \in SUBSET Nat, S # {}
    PROVE  Least(S) \in S /\ \A j \in S : Least(S) <= j
BY LeastExists DEF Least

LEMMA Induction ==
    ASSUME NEW N \in Nat, NEW S, 0 \in S,
           \A n \in 0 .. N - 1 : n \in S => n + 1 \in S
    PROVE  0 .. N \subseteq S
<1> DEFINE missed == {n \in 0 .. N : n \notin S}
<1> SUFFICES ASSUME missed # {} PROVE FALSE
    OBVIOUS
<1>0. missed \in SUBSET Nat
    OBVIOUS
<1>1. PICK i \in missed : \A j \in missed : i <= j
    <2> HIDE DEF missed
    <2> QED
        BY <1>0, LeastExists
<1>2. i # 0 /\ i - 1 \in 0 .. N - 1
    OBVIOUS
<1>3. i - 1 \in S
    BY <1>1, <1>2
<1> QED
    BY <1>2, <1>3

Steps(N, T) == [1 .. N -> [T -> T]]
Runs(N, T, base, step) ==
    {f \in [0 .. N -> T] :
        \A n \in 0 .. N : f[n] = IF n = 0 THEN base ELSE step[n][f[n - 1]]}

\* A function that is defined step by step exists.
LEMMA RecursionExists ==
    ASSUME NEW N \in Nat, NEW T, NEW base \in T, NEW step \in Steps(N, T)
    PROVE  \E f \in Runs(N, T, base, step) : TRUE
<1>0. step \in [1 .. N -> [T -> T]]
    BY DEF Steps
<1> DEFINE Up(m, f) ==
              \A n \in 0 .. m : f[n] = IF n = 0 THEN base ELSE step[n][f[n - 1]]
           S == {m \in 0 .. N : \E f \in [0 .. m -> T] : Up(m, f)}
<1>1. 0 \in S
    <2> DEFINE f == [n \in 0 .. 0 |-> base]
    <2>1. f \in [0 .. 0 -> T] /\ Up(0, f)
        OBVIOUS
    <2> HIDE DEF f
    <2>2. \E g \in [0 .. 0 -> T] : Up(0, g)
        BY <2>1
    <2> QED
        BY <2>2
<1>2. ASSUME NEW m \in 0 .. N - 1, m \in S PROVE m + 1 \in S
    <2>1. PICK g \in [0 .. m -> T] : Up(m, g)
        BY <1>2
    <2> DEFINE f == [n \in 0 .. m + 1 |-> IF n <= m THEN g[n] ELSE step[m + 1][g[m]]]
    <2>2. f \in [0 .. m + 1 -> T]
        <3>1. g[m] \in T /\ m + 1 \in 1 .. N
            OBVIOUS
        <3>2. step[m + 1][g[m]] \in T
            BY <1>0, <3>1
        <3> QED
            BY <3>2
    <2>3. Up(m + 1, f)
        BY <2>1
    <2>5. m + 1 \in 0 .. N
        OBVIOUS
    <2> HIDE DEF f
    <2> QED
        BY <2>2, <2>3, <2>5
<1> HIDE DEF S
<1>3. N \in S
    <2>1. \A m \in 0 .. N - 1 : m \in S => m + 1 \in S
        BY <1>2
    <2>2. 0 .. N \subseteq S
        BY <1>1, <2>1, Induction
    <2> QED
        BY <2>2
<1>4. PICK f \in [0 .. N -> T] : Up(N, f)
    BY <1>3 DEF S
<1> QED
    BY <1>4 DEF Runs
-----------------------------------------------------------------------------
(* Orders with ties, as functions that yield -1, 0 or 1.                   *)

IsOrder(cmp, D) ==
    /\ cmp \in [D -> [D -> {-1, 0, 1}]]
    /\ \A x, y \in D : cmp[x][y] = -cmp[y][x]
    /\ \A x, y, z \in D :
          cmp[x][y] <= 0 /\ cmp[y][z] <= 0 =>
             cmp[x][z] <= 0 /\ (cmp[x][z] = 0 => cmp[x][y] = 0)

\* How two comparisons in a row combine.
LEMMA InARow ==
    ASSUME NEW D, NEW cmp, IsOrder(cmp, D), NEW x \in D, NEW y \in D, NEW z \in D
    PROVE  /\ cmp[x][y] = 0 /\ cmp[y][z] = 0 => cmp[x][z] = 0
           /\ cmp[x][y] = 0 /\ cmp[y][z] = -1 => cmp[x][z] = -1
           /\ cmp[x][y] = -1 /\ cmp[y][z] = 0 => cmp[x][z] = -1
           /\ cmp[x][y] = -1 /\ cmp[y][z] = -1 => cmp[x][z] = -1
<1>1. /\ cmp[x][y] \in {-1, 0, 1} /\ cmp[y][z] \in {-1, 0, 1} /\ cmp[x][z] \in {-1, 0, 1}
      /\ cmp[y][x] \in {-1, 0, 1} /\ cmp[z][y] \in {-1, 0, 1} /\ cmp[z][x] \in {-1, 0, 1}
    BY DEF IsOrder
<1>2. cmp[x][y] = -cmp[y][x] /\ cmp[y][z] = -cmp[z][y] /\ cmp[x][z] = -cmp[z][x]
    BY DEF IsOrder
<1>3. /\ cmp[x][y] <= 0 /\ cmp[y][z] <= 0 => cmp[x][z] <= 0
      /\ cmp[z][y] <= 0 /\ cmp[y][x] <= 0 => cmp[z][x] <= 0
      /\ cmp[z][x] <= 0 /\ cmp[x][y] <= 0 => cmp[z][y] <= 0
      /\ cmp[y][x] <= 0 /\ cmp[x][z] <= 0 => cmp[y][z] <= 0
      /\ cmp[y][z] <= 0 /\ cmp[z][x] <= 0 => cmp[y][x] <= 0
      /\ cmp[x][z] <= 0 /\ cmp[z][y] <= 0 => cmp[x][y] <= 0
      /\ cmp[x][y] <= 0 /\ cmp[y][z] <= 0 => (cmp[x][z] = 0 => cmp[x][y] = 0)
    BY DEF IsOrder
<1>4. ASSUME NEW a \in {-1, 0, 1}, NEW b \in {-1, 0, 1}, NEW c \in {-1, 0, 1},
             a <= 0 /\ b <= 0 => c <= 0,
             -b <= 0 /\ -a <= 0 => -c <= 0,
             -c <= 0 /\ a <= 0 => -b <= 0,
             -a <= 0 /\ c <= 0 => b <= 0,
             b <= 0 /\ -c <= 0 => -a <= 0,
             c <= 0 /\ -b <= 0 => a <= 0,
             a <= 0 /\ b <= 0 => (c = 0 => a = 0)
      PROVE  /\ a = 0 /\ b = 0 => c = 0
             /\ a = 0 /\ b = -1 => c = -1
             /\ a = -1 /\ b = 0 => c = -1
             /\ a = -1 /\ b = -1 => c = -1
    BY <1>4
<1>5. cmp[y][x] = -cmp[x][y] /\ cmp[z][y] = -cmp[y][z] /\ cmp[z][x] = -cmp[x][z]
    BY DEF IsOrder
<1> HIDE DEF IsOrder
<1> QED
    BY <1>1, <1>5, <1>3, <1>4

Ints == [m \in Nat |-> [n \in Nat |-> CompareInt(m, n)]]

LEMMA IntsAreOrdered == IsOrder(Ints, Nat)
BY DEF IsOrder, Ints, CompareInt

\* CompareBy, with the comparison of the elements as a function.
Diffs(cmp, s, t) == {i \in DOMAIN s \cap DOMAIN t : cmp[s[i]][t[i]] # 0}

Lex(cmp, s, t) ==
    IF Diffs(cmp, s, t) = {} THEN CompareInt(Len(s), Len(t))
    ELSE cmp[s[Least(Diffs(cmp, s, t))]][t[Least(Diffs(cmp, s, t))]]

LexOn(cmp, D) == [s \in Seq(D) |-> [t \in Seq(D) |-> Lex(cmp, s, t)]]

\* s and t differ first at i.
FirstDiff(cmp, s, t, i) ==
    /\ i \in 1 .. Len(s) /\ i \in 1 .. Len(t)
    /\ cmp[s[i]][t[i]] # 0
    /\ \A j \in 1 .. i - 1 : cmp[s[j]][t[j]] = 0

NoDiff(cmp, s, t) ==
    \A i \in 1 .. Len(s) : i <= Len(t) => cmp[s[i]][t[i]] = 0

LEMMA LexCases ==
    ASSUME NEW D, NEW cmp, NEW s \in Seq(D), NEW t \in Seq(D)
    PROVE  /\ NoDiff(cmp, s, t) \/ \E i \in Nat : FirstDiff(cmp, s, t, i)
           /\ NoDiff(cmp, s, t) => Lex(cmp, s, t) = CompareInt(Len(s), Len(t))
           /\ \A i \in Nat :
                 FirstDiff(cmp, s, t, i) => Lex(cmp, s, t) = cmp[s[i]][t[i]]
<1> DEFINE S == Diffs(cmp, s, t)
<1>1. /\ Len(s) \in Nat /\ DOMAIN s = 1 .. Len(s)
      /\ Len(t) \in Nat /\ DOMAIN t = 1 .. Len(t)
    BY LenProperties
<1>2. S \in SUBSET Nat
    BY <1>1 DEF Diffs
<1>3. NoDiff(cmp, s, t) <=> S = {}
    BY <1>1 DEF Diffs, NoDiff
<1>4. CASE S = {}
    <2>1. \A i \in Nat : ~FirstDiff(cmp, s, t, i)
        BY <1>1, <1>4 DEF FirstDiff, Diffs
    <2> QED
        BY <1>3, <1>4, <2>1 DEF Lex
<1>5. CASE S # {}
    <2>1. Least(S) \in S /\ \A j \in S : Least(S) <= j
        BY <1>2, <1>5, LeastIs
    <2>2. FirstDiff(cmp, s, t, Least(S))
        <3>1. ASSUME NEW i \in S, \A j \in S : i <= j
              PROVE  FirstDiff(cmp, s, t, i)
            <4>1. /\ i \in 1 .. Len(s) /\ i \in 1 .. Len(t)
                  /\ cmp[s[i]][t[i]] # 0
                BY <1>1 DEF Diffs
            <4>2. ASSUME NEW j \in 1 .. i - 1, cmp[s[j]][t[j]] # 0 PROVE FALSE
                <5>1. j \in S
                    BY <1>1, <4>1, <4>2 DEF Diffs
                <5> QED
                    BY <5>1, <3>1, <4>1
            <4> QED
                BY <4>1, <4>2 DEF FirstDiff
        <3> HIDE DEF S
        <3> QED
            BY <2>1, <3>1
    <2>3. \A i \in Nat : FirstDiff(cmp, s, t, i) => i = Least(S)
        <3> SUFFICES ASSUME NEW i \in Nat, FirstDiff(cmp, s, t, i) PROVE i = Least(S)
            OBVIOUS
        <3>1. i \in S
            BY <1>1 DEF FirstDiff, Diffs
        <3>2. Least(S) <= i /\ Least(S) \in Nat
            BY <3>1, <2>1, <1>2
        <3>3. ~(Least(S) < i)
            BY <3>2, <2>2 DEF FirstDiff
        <3> QED
            BY <3>2, <3>3
    <2>4. Least(S) \in Nat
        BY <2>1, <1>2
    <2> QED
        BY <1>3, <1>5, <2>2, <2>3, <2>4 DEF Lex
<1> QED
    BY <1>4, <1>5

LEMMA LexOfNoDiff ==
    ASSUME NEW D, NEW cmp, NEW s \in Seq(D), NEW t \in Seq(D), NoDiff(cmp, s, t)
    PROVE  Lex(cmp, s, t) = CompareInt(Len(s), Len(t))
<1>1. /\ Len(s) \in Nat /\ DOMAIN s = 1 .. Len(s)
      /\ Len(t) \in Nat /\ DOMAIN t = 1 .. Len(t)
    BY LenProperties
<1>2. Diffs(cmp, s, t) = {}
    BY <1>1 DEF Diffs, NoDiff
<1> QED
    BY <1>2 DEF Lex

LEMMA LexOfFirstDiff ==
    ASSUME NEW D, NEW cmp, NEW s \in Seq(D), NEW t \in Seq(D),
           NEW i \in Nat, FirstDiff(cmp, s, t, i)
    PROVE  Lex(cmp, s, t) = cmp[s[i]][t[i]]
BY LexCases

LEMMA CompareIntIs ==
    ASSUME NEW m \in Nat, NEW n \in Nat
    PROVE  /\ CompareInt(m, n) \in {-1, 0, 1}
           /\ CompareInt(m, n) = -1 <=> m < n
           /\ CompareInt(m, n) = 0 <=> m = n
           /\ CompareInt(m, n) = 1 <=> n < m
BY DEF CompareInt

LEMMA OrderValues ==
    ASSUME NEW D, NEW cmp, IsOrder(cmp, D), NEW x \in D, NEW y \in D
    PROVE  /\ cmp[x][y] \in {-1, 0, 1}
           /\ cmp[x][y] = 0 <=> cmp[y][x] = 0
           /\ cmp[x][y] = -1 <=> cmp[y][x] = 1
           /\ cmp[x][x] = 0
<1>1. cmp[x][y] \in {-1, 0, 1} /\ cmp[y][x] \in {-1, 0, 1} /\ cmp[x][x] \in {-1, 0, 1}
    BY DEF IsOrder
<1>2. cmp[x][y] = -cmp[y][x] /\ cmp[x][x] = -cmp[x][x]
    BY DEF IsOrder
<1>3. ASSUME NEW a \in {-1, 0, 1}, NEW b \in {-1, 0, 1}, a = -b
      PROVE  (a = 0 <=> b = 0) /\ (a = -1 <=> b = 1)
    BY <1>3
<1>4. ASSUME NEW a \in {-1, 0, 1}, a = -a PROVE a = 0
    BY <1>4
<1> HIDE DEF IsOrder
<1> QED
    BY <1>1, <1>2, <1>3, <1>4

LEMMA LexBackwards ==
    ASSUME NEW D, NEW cmp, IsOrder(cmp, D), NEW s \in Seq(D), NEW t \in Seq(D)
    PROVE  /\ Lex(cmp, s, t) \in {-1, 0, 1}
           /\ Lex(cmp, s, t) = -Lex(cmp, t, s)
<1>1. /\ Len(s) \in Nat /\ \A i \in 1 .. Len(s) : s[i] \in D
      /\ Len(t) \in Nat /\ \A i \in 1 .. Len(t) : t[i] \in D
    BY LenProperties
<1>2. CASE NoDiff(cmp, s, t)
    <2>1. NoDiff(cmp, t, s)
        <3> SUFFICES ASSUME NEW i \in 1 .. Len(t), i <= Len(s) PROVE cmp[t[i]][s[i]] = 0
            BY DEF NoDiff
        <3>1. i \in 1 .. Len(s) /\ s[i] \in D /\ t[i] \in D
            BY <1>1
        <3>2. cmp[s[i]][t[i]] = 0
            BY <1>1, <1>2, <3>1 DEF NoDiff
        <3> QED
            BY <3>1, <3>2, OrderValues
    <2>2. Lex(cmp, s, t) = CompareInt(Len(s), Len(t)) /\ Lex(cmp, t, s) = CompareInt(Len(t), Len(s))
        BY <1>2, <2>1, LexOfNoDiff, LexOfFirstDiff
    <2> QED
        BY <1>1, <2>2 DEF CompareInt
<1>3. ASSUME NEW i \in Nat, FirstDiff(cmp, s, t, i)
      PROVE  /\ Lex(cmp, s, t) \in {-1, 0, 1}
             /\ Lex(cmp, s, t) = -Lex(cmp, t, s)
    <2>1. /\ i \in 1 .. Len(s) /\ i \in 1 .. Len(t) /\ cmp[s[i]][t[i]] # 0
          /\ \A j \in 1 .. i - 1 : cmp[s[j]][t[j]] = 0
        BY <1>3 DEF FirstDiff
    <2>2. s[i] \in D /\ t[i] \in D
        BY <1>1, <2>1
    <2>3. cmp[t[i]][s[i]] # 0
        BY <2>1, <2>2, OrderValues
    <2>4. ASSUME NEW j \in 1 .. i - 1 PROVE cmp[t[j]][s[j]] = 0
        <3>1. s[j] \in D /\ t[j] \in D
            BY <1>1, <2>1
        <3> QED
            BY <2>1, <3>1, OrderValues
    <2>5. FirstDiff(cmp, t, s, i)
        BY <2>1, <2>3, <2>4 DEF FirstDiff
    <2>6. Lex(cmp, s, t) = cmp[s[i]][t[i]] /\ Lex(cmp, t, s) = cmp[t[i]][s[i]]
        BY <1>3, <2>5, LexOfNoDiff, LexOfFirstDiff
    <2>7. cmp[s[i]][t[i]] = -cmp[t[i]][s[i]] /\ cmp[s[i]][t[i]] \in {-1, 0, 1}
        BY <2>2 DEF IsOrder
    <2> QED
        BY <2>6, <2>7
<1> QED
    BY <1>2, <1>3, LexCases

LEMMA LexInARow ==
    ASSUME NEW D, NEW cmp, IsOrder(cmp, D),
           NEW s \in Seq(D), NEW t \in Seq(D), NEW u \in Seq(D),
           Lex(cmp, s, t) <= 0, Lex(cmp, t, u) <= 0
    PROVE  Lex(cmp, s, u) <= 0 /\ (Lex(cmp, s, u) = 0 => Lex(cmp, s, t) = 0)
<1>1. /\ Len(s) \in Nat /\ \A i \in 1 .. Len(s) : s[i] \in D
      /\ Len(t) \in Nat /\ \A i \in 1 .. Len(t) : t[i] \in D
      /\ Len(u) \in Nat /\ \A i \in 1 .. Len(u) : u[i] \in D
    BY LenProperties
<1>a. ASSUME NEW i \in Nat, i \in 1 .. Len(s), i \in 1 .. Len(t), i \in 1 .. Len(u),
             \A j \in 1 .. i - 1 : cmp[s[j]][t[j]] = 0 /\ cmp[t[j]][u[j]] = 0,
             \/ cmp[s[i]][t[i]] = -1 /\ cmp[t[i]][u[i]] \in {0, -1}
             \/ cmp[s[i]][t[i]] \in {0, -1} /\ cmp[t[i]][u[i]] = -1
      PROVE  Lex(cmp, s, u) = -1
    <2>1. ASSUME NEW j \in 1 .. i - 1 PROVE cmp[s[j]][u[j]] = 0
        <3>1. s[j] \in D /\ t[j] \in D /\ u[j] \in D
            BY <1>1, <1>a
        <3>2. cmp[s[j]][t[j]] = 0 /\ cmp[t[j]][u[j]] = 0
            BY <1>a
        <3> QED
            BY <3>1, <3>2, InARow
    <2>2. s[i] \in D /\ t[i] \in D /\ u[i] \in D
        BY <1>1, <1>a
    <2>3. cmp[s[i]][u[i]] = -1
        BY <1>a, <2>2, InARow
    <2>4. FirstDiff(cmp, s, u, i)
        <3>1. i \in 1 .. Len(s) /\ i \in 1 .. Len(u) /\ cmp[s[i]][u[i]] # 0
            BY <1>a, <2>3
        <3>2. \A j \in 1 .. i - 1 : cmp[s[j]][u[j]] = 0
            BY <2>1
        <3> QED
            BY <3>1, <3>2 DEF FirstDiff
    <2> QED
        BY <2>3, <2>4, LexOfNoDiff, LexOfFirstDiff
<1>2. CASE NoDiff(cmp, s, t) /\ NoDiff(cmp, t, u)
    <2>1. Len(s) <= Len(t) /\ Len(t) <= Len(u)
        <3>1. Lex(cmp, s, t) = CompareInt(Len(s), Len(t)) /\ Lex(cmp, t, u) = CompareInt(Len(t), Len(u))
            BY <1>2, LexOfNoDiff, LexOfFirstDiff
        <3> QED
            BY <1>1, <3>1 DEF CompareInt
    <2>2. ASSUME NEW i \in 1 .. Len(s) PROVE cmp[s[i]][u[i]] = 0
        <3>1. i \in 1 .. Len(t) /\ i \in 1 .. Len(u)
            BY <1>1, <2>1
        <3>2. s[i] \in D /\ t[i] \in D /\ u[i] \in D
            BY <1>1, <3>1
        <3>3. cmp[s[i]][t[i]] = 0 /\ cmp[t[i]][u[i]] = 0
            BY <1>2, <3>1 DEF NoDiff
        <3> QED
            BY <3>2, <3>3, InARow
    <2>3. NoDiff(cmp, s, u)
        BY <2>2 DEF NoDiff
    <2>4. Lex(cmp, s, u) = CompareInt(Len(s), Len(u)) /\ Lex(cmp, s, t) = CompareInt(Len(s), Len(t))
        BY <1>2, <2>3, LexOfNoDiff, LexOfFirstDiff
    <2> QED
        BY <1>1, <2>1, <2>4 DEF CompareInt
<1>3. ASSUME NoDiff(cmp, s, t), NEW k \in Nat, FirstDiff(cmp, t, u, k)
      PROVE  Lex(cmp, s, u) = -1
    <2>1. Len(s) <= Len(t)
        <3>1. Lex(cmp, s, t) = CompareInt(Len(s), Len(t))
            BY <1>3, LexOfNoDiff, LexOfFirstDiff
        <3> QED
            BY <1>1, <3>1 DEF CompareInt
    <2>2. /\ k \in 1 .. Len(t) /\ k \in 1 .. Len(u) /\ cmp[t[k]][u[k]] # 0
          /\ \A j \in 1 .. k - 1 : cmp[t[j]][u[j]] = 0
        BY <1>3 DEF FirstDiff
    <2>3. cmp[t[k]][u[k]] = -1
        <3>1. t[k] \in D /\ u[k] \in D
            BY <1>1, <2>2
        <3>2. cmp[t[k]][u[k]] <= 0
            BY <1>3, LexOfNoDiff, LexOfFirstDiff
        <3>3. cmp[t[k]][u[k]] \in {-1, 0, 1}
            BY <3>1, OrderValues
        <3> QED
            BY <2>2, <3>2, <3>3
    <2>4. \A j \in 1 .. Len(s) : j <= Len(t) /\ cmp[s[j]][t[j]] = 0
        BY <1>1, <1>3, <2>1 DEF NoDiff
    <2>5. CASE k <= Len(s)
        <3>1. k \in 1 .. Len(s) /\ \A j \in 1 .. k - 1 : j \in 1 .. Len(s)
            BY <1>1, <2>2, <2>5
        <3>2. cmp[s[k]][t[k]] = 0
            BY <2>4, <3>1
        <3>3. \A j \in 1 .. k - 1 : cmp[s[j]][t[j]] = 0 /\ cmp[t[j]][u[j]] = 0
            BY <2>2, <2>4, <3>1
        <3> QED
            BY <1>a, <2>2, <2>3, <3>1, <3>2, <3>3
    <2>6. CASE Len(s) < k
        <3>1. ASSUME NEW i \in 1 .. Len(s) PROVE cmp[s[i]][u[i]] = 0
            <4>1. i \in 1 .. k - 1 /\ i \in 1 .. Len(t) /\ i \in 1 .. Len(u)
                BY <1>1, <2>1, <2>2, <2>6
            <4>2. cmp[s[i]][t[i]] = 0 /\ cmp[t[i]][u[i]] = 0
                BY <4>1, <2>2, <2>4
            <4>3. s[i] \in D /\ t[i] \in D /\ u[i] \in D
                BY <4>1, <1>1
            <4> QED
                BY <4>2, <4>3, InARow
        <3>2. NoDiff(cmp, s, u)
            BY <3>1 DEF NoDiff
        <3>3. Lex(cmp, s, u) = CompareInt(Len(s), Len(u))
            BY <3>2, LexOfNoDiff, LexOfFirstDiff
        <3> QED
            BY <1>1, <2>2, <2>6, <3>3 DEF CompareInt
    <2> QED
        BY <1>1, <2>2, <2>5, <2>6
<1>b. ASSUME NEW i \in Nat, FirstDiff(cmp, s, t, i)
      PROVE  /\ i \in 1 .. Len(s) /\ i \in 1 .. Len(t) /\ cmp[s[i]][t[i]] = -1
             /\ \A j \in 1 .. i - 1 : cmp[s[j]][t[j]] = 0
    <2>1. i \in 1 .. Len(s) /\ i \in 1 .. Len(t) /\ cmp[s[i]][t[i]] # 0
        BY <1>b DEF FirstDiff
    <2>2. s[i] \in D /\ t[i] \in D
        BY <1>1, <2>1
    <2>3. cmp[s[i]][t[i]] <= 0
        BY <1>b, LexOfNoDiff, LexOfFirstDiff
    <2>4. cmp[s[i]][t[i]] \in {-1, 0, 1}
        BY <2>2, OrderValues
    <2> QED
        BY <1>b, <2>1, <2>3, <2>4 DEF FirstDiff
<1>4. ASSUME NEW i \in Nat, FirstDiff(cmp, s, t, i), NoDiff(cmp, t, u)
      PROVE  Lex(cmp, s, u) = -1
    <2>1. Len(t) <= Len(u)
        <3>1. Lex(cmp, t, u) = CompareInt(Len(t), Len(u))
            BY <1>4, LexOfNoDiff, LexOfFirstDiff
        <3> QED
            BY <1>1, <3>1 DEF CompareInt
    <2>2. \A j \in 1 .. Len(t) : cmp[t[j]][u[j]] = 0
        BY <1>1, <1>4, <2>1 DEF NoDiff
    <2>3. /\ i \in 1 .. Len(s) /\ i \in 1 .. Len(t) /\ cmp[s[i]][t[i]] = -1
          /\ \A j \in 1 .. i - 1 : cmp[s[j]][t[j]] = 0
        BY <1>4, <1>b
    <2>4. i \in 1 .. Len(u) /\ \A j \in 1 .. i - 1 : j \in 1 .. Len(t)
        BY <1>1, <2>1, <2>3
    <2>5. \A j \in 1 .. i - 1 : cmp[s[j]][t[j]] = 0 /\ cmp[t[j]][u[j]] = 0
        BY <2>2, <2>3, <2>4
    <2>6. cmp[t[i]][u[i]] \in {0, -1}
        BY <2>2, <2>3
    <2> QED
        BY <1>a, <2>3, <2>4, <2>5, <2>6
<1>5. ASSUME NEW i \in Nat, FirstDiff(cmp, s, t, i), NEW k \in Nat, FirstDiff(cmp, t, u, k)
      PROVE  Lex(cmp, s, u) = -1
    <2>1. /\ i \in 1 .. Len(s) /\ i \in 1 .. Len(t) /\ cmp[s[i]][t[i]] = -1
          /\ \A j \in 1 .. i - 1 : cmp[s[j]][t[j]] = 0
        BY <1>5, <1>b
    <2>2. /\ k \in 1 .. Len(t) /\ k \in 1 .. Len(u) /\ cmp[t[k]][u[k]] # 0
          /\ \A j \in 1 .. k - 1 : cmp[t[j]][u[j]] = 0
        BY <1>5 DEF FirstDiff
    <2>3. cmp[t[k]][u[k]] = -1
        <3>1. t[k] \in D /\ u[k] \in D
            BY <1>1, <2>2
        <3>2. cmp[t[k]][u[k]] <= 0
            BY <1>5, LexOfNoDiff, LexOfFirstDiff
        <3>3. cmp[t[k]][u[k]] \in {-1, 0, 1}
            BY <3>1, OrderValues
        <3> QED
            BY <2>2, <3>2, <3>3
    <2>4. CASE i <= k
        <3>1. i \in 1 .. Len(u) /\ (\A j \in 1 .. i - 1 : j \in 1 .. k - 1) /\ (i = k \/ i \in 1 .. k - 1)
            BY <1>1, <2>1, <2>2, <2>4
        <3>2. \A j \in 1 .. i - 1 : cmp[s[j]][t[j]] = 0 /\ cmp[t[j]][u[j]] = 0
            BY <2>1, <2>2, <3>1
        <3>3. cmp[t[i]][u[i]] \in {0, -1}
            BY <2>2, <2>3, <3>1
        <3> QED
            BY <1>a, <2>1, <3>1, <3>2, <3>3
    <2>5. CASE k < i
        <3>1. k \in 1 .. Len(s) /\ (\A j \in 1 .. k - 1 : j \in 1 .. i - 1) /\ k \in 1 .. i - 1
            BY <1>1, <2>1, <2>2, <2>5
        <3>2. \A j \in 1 .. k - 1 : cmp[s[j]][t[j]] = 0 /\ cmp[t[j]][u[j]] = 0
            BY <2>1, <2>2, <3>1
        <3>3. cmp[s[k]][t[k]] \in {0, -1}
            BY <2>1, <3>1
        <3> QED
            BY <1>a, <2>2, <2>3, <3>1, <3>2, <3>3
    <2> QED
        BY <2>4, <2>5
<1>6. NoDiff(cmp, s, t) \/ \E i \in Nat : FirstDiff(cmp, s, t, i)
    BY LexCases
<1>7. NoDiff(cmp, t, u) \/ \E i \in Nat : FirstDiff(cmp, t, u, i)
    BY LexCases
<1> QED
    BY <1>2, <1>3, <1>4, <1>5, <1>6, <1>7

LEMMA LexIsOrder ==
    ASSUME NEW D, NEW cmp, IsOrder(cmp, D)
    PROVE  IsOrder(LexOn(cmp, D), Seq(D))
<1>1. \A s, t \in Seq(D) : LexOn(cmp, D)[s][t] = Lex(cmp, s, t)
    BY DEF LexOn
<1>2. \A s, t \in Seq(D) : Lex(cmp, s, t) \in {-1, 0, 1} /\ Lex(cmp, s, t) = -Lex(cmp, t, s)
    BY LexBackwards
<1>3. \A s, t, u \in Seq(D) :
          Lex(cmp, s, t) <= 0 /\ Lex(cmp, t, u) <= 0 =>
             Lex(cmp, s, u) <= 0 /\ (Lex(cmp, s, u) = 0 => Lex(cmp, s, t) = 0)
    BY LexInARow
<1>4. LexOn(cmp, D) \in [Seq(D) -> [Seq(D) -> {-1, 0, 1}]]
    BY <1>2 DEF LexOn
<1> QED
    BY <1>1, <1>2, <1>3, <1>4 DEF IsOrder

-----------------------------------------------------------------------------
(* Strings and their parts.                                                *)

Str == Seq(Nat)

LEMMA StrIs ==
    ASSUME NEW s \in Str
    PROVE  /\ Len(s) \in Nat /\ DOMAIN s = 1 .. Len(s)
           /\ \A i \in 1 .. Len(s) : s[i] \in Nat
BY LenProperties DEF Str

LEMMA PartIs ==
    ASSUME NEW s \in Str, NEW m \in Nat \ {0}, NEW n \in Int, n <= Len(s)
    PROVE  /\ SubSeq(s, m, n) \in Str
           /\ Len(SubSeq(s, m, n)) = IF m <= n THEN n - m + 1 ELSE 0
           /\ \A i \in 1 .. n - m + 1 : SubSeq(s, m, n)[i] = s[m + i - 1]
<1>1. \A i \in m .. n : s[i] \in Nat
    BY StrIs
<1> QED
    BY <1>1, SubSeqProperties DEF Str

LEMMA WhereIs ==
    ASSUME NEW s \in Str, NEW ch
    PROVE  /\ Where(s, ch) \in SUBSET (1 .. Len(s))
           /\ Where(s, ch) \in SUBSET Nat
           /\ IsFiniteSet(Where(s, ch))
<1>1. Len(s) \in Nat /\ Where(s, ch) \in SUBSET (1 .. Len(s))
    BY StrIs DEF Where
<1>2. IsFiniteSet(1 .. Len(s))
    BY <1>1, FS_Interval
<1> QED
    BY <1>1, <1>2, FS_Subset

LEMMA BeforeIs ==
    ASSUME NEW s \in Str, NEW ch
    PROVE  Before(s, ch) \in Str
<1>1. CASE Where(s, ch) # {}
    <2>1. Least(Where(s, ch)) \in 1 .. Len(s)
        BY <1>1, WhereIs, LeastIs
    <2>2. Len(s) \in Nat
        BY StrIs
    <2>3. Least(Where(s, ch)) - 1 \in Int /\ Least(Where(s, ch)) - 1 <= Len(s)
        BY <2>1, <2>2
    <2> QED
        BY <1>1, <2>3, PartIs DEF Before
<1> QED
    BY <1>1 DEF Before

LEMMA AfterIs ==
    ASSUME NEW s \in Str, NEW ch
    PROVE  After(s, ch) \in Str
<1>0. Empty \in Str
    BY EmptySeq DEF Empty, Str
<1>1. CASE Where(s, ch) # {}
    <2>1. Least(Where(s, ch)) \in 1 .. Len(s)
        BY <1>1, WhereIs, LeastIs
    <2>2. Len(s) \in Nat
        BY StrIs
    <2>3. Least(Where(s, ch)) + 1 \in Nat \ {0}
        BY <2>1, <2>2
    <2> QED
        BY <1>1, <2>2, <2>3, PartIs DEF After
<1> QED
    BY <1>0, <1>1 DEF After

LEMMA CutIs ==
    ASSUME NEW s \in Str, NEW k \in Nat
    PROVE  /\ Cut(s, k) \in 0 .. Len(s) + 1
           /\ k = 0 => Cut(s, k) = 0
<1> DEFINE S == {i \in Where(s, Dot) : Cardinality(Where(s, Dot) \cap 1 .. i) = k}
                  \cup {Len(s) + 1}
<1>1. Len(s) \in Nat
    BY StrIs
<1>2. S \in SUBSET (1 .. Len(s) + 1)
    BY <1>1, WhereIs
<1>3. S \in SUBSET Nat /\ S # {}
    BY <1>1, <1>2
<1>4. Least(S) \in 1 .. Len(s) + 1
    <2> HIDE DEF S
    <2> QED
        BY <1>2, <1>3, LeastIs
<1>5. Cut(s, k) = IF k = 0 THEN 0 ELSE Least(S)
    BY DEF Cut
<1> HIDE DEF S
<1> QED
    BY <1>1, <1>4, <1>5

LEMMA FieldsAre ==
    ASSUME NEW s \in Str
    PROVE  /\ Fields(s) \in Seq(Str)
           /\ Len(Fields(s)) = Cardinality(Where(s, Dot)) + 1
<1> DEFINE n == Cardinality(Where(s, Dot)) + 1
           field(k) == SubSeq(s, Cut(s, k - 1) + 1, Cut(s, k) - 1)
<1>1. n \in Nat
    BY WhereIs, FS_CardinalityType
<1>2. ASSUME NEW k \in 1 .. n PROVE field(k) \in Str
    <2>1. Cut(s, k - 1) \in 0 .. Len(s) + 1 /\ Cut(s, k) \in 0 .. Len(s) + 1
        BY <1>1, CutIs
    <2>2. Len(s) \in Nat
        BY StrIs
    <2>3. Cut(s, k - 1) + 1 \in Nat \ {0} /\ Cut(s, k) - 1 \in Int /\ Cut(s, k) - 1 <= Len(s)
        BY <2>1, <2>2
    <2> QED
        BY <2>3, PartIs
<1>3. Fields(s) = [k \in 1 .. n |-> field(k)]
    BY DEF Fields
<1> HIDE DEF n, field
<1>4. Fields(s) \in [1 .. n -> Str]
    BY <1>2, <1>3
<1>5. Len(Fields(s)) = n /\ Fields(s) \in Seq(Str)
    BY <1>1, <1>4
<1> QED
    BY <1>5 DEF n

LEMMA TrimIs ==
    ASSUME NEW s \in Str
    PROVE  TrimZeros(s) \in Str
<1> DEFINE kept == {i \in DOMAIN s : s[i] # Zero}
<1>0. Empty \in Str
    BY EmptySeq DEF Empty, Str
<1>1. Len(s) \in Nat /\ kept \in SUBSET (1 .. Len(s)) /\ kept \in SUBSET Nat
    BY StrIs
<1>2. TrimZeros(s) = IF kept = {} THEN Empty ELSE SubSeq(s, Least(kept), Len(s))
    BY DEF TrimZeros
<1> HIDE DEF kept
<1>3. CASE kept # {}
    <2>1. Least(kept) \in kept
        BY <1>1, <1>3, LeastIs
    <2>2. Least(kept) \in 1 .. Len(s) /\ Least(kept) \in Nat \ {0}
        <3>1. Least(kept) \in 1 .. Len(s)
            BY <1>1, <2>1
        <3> QED
            BY <3>1
    <2>3. Len(s) \in Int /\ Len(s) <= Len(s)
        BY <1>1
    <2>4. SubSeq(s, Least(kept), Len(s)) \in Str
        BY <2>2, <2>3, PartIs
    <2> QED
        BY <1>2, <1>3, <2>4
<1> QED
    BY <1>0, <1>2, <1>3

-----------------------------------------------------------------------------
(* The comparisons of the code are orders.                                 *)

Strings == LexOn(Ints, Nat)

LEMMA StringsAreOrdered == IsOrder(Strings, Str)
BY IntsAreOrdered, LexIsOrder DEF Strings, Str

LEMMA CompareStringsIs ==
    ASSUME NEW s \in Str, NEW t \in Str
    PROVE  CompareStrings(s, t) = Strings[s][t]
<1> DEFINE diffs == {i \in DOMAIN s \cap DOMAIN t : CompareInt(s[i], t[i]) # 0}
<1>1. \A i \in DOMAIN s \cap DOMAIN t : CompareInt(s[i], t[i]) = Ints[s[i]][t[i]]
    BY StrIs DEF Ints
<1>2. diffs = Diffs(Ints, s, t)
    BY <1>1 DEF Diffs
<1>3. CompareStrings(s, t) =
         IF diffs = {} THEN CompareInt(Len(s), Len(t))
         ELSE CompareInt(s[Least(diffs)], t[Least(diffs)])
    BY DEF CompareStrings, CompareBy
<1>4. CASE diffs # {}
    <2>1. diffs \in SUBSET Nat
        BY StrIs
    <2>2. Least(diffs) \in diffs
        BY <2>1, <1>4, LeastIs
    <2>3. CompareInt(s[Least(diffs)], t[Least(diffs)]) = Ints[s[Least(diffs)]][t[Least(diffs)]]
        BY <1>1, <2>2
    <2> HIDE DEF diffs
    <2> QED
        BY <1>2, <1>3, <1>4, <2>3 DEF Lex, Strings, LexOn, Str
<1> HIDE DEF diffs
<1>5. CASE diffs = {}
    BY <1>2, <1>3, <1>5 DEF Lex, Strings, LexOn, Str
<1> QED
    BY <1>4, <1>5

Numbers == [s \in Str |-> [t \in Str |-> CompareNumeric(s, t)]]

LEMMA CompareNumericIs ==
    ASSUME NEW a \in Str, NEW b \in Str
    PROVE  /\ TrimZeros(a) \in Str /\ TrimZeros(b) \in Str
           /\ CompareNumeric(a, b) =
                IF Len(TrimZeros(a)) # Len(TrimZeros(b))
                THEN CompareInt(Len(TrimZeros(a)), Len(TrimZeros(b)))
                ELSE Strings[TrimZeros(a)][TrimZeros(b)]
BY TrimIs, CompareStringsIs DEF CompareNumeric

LEMMA NumbersAreOrdered == IsOrder(Numbers, Str)
<1>1. \A s \in Str : Len(TrimZeros(s)) \in Nat /\ TrimZeros(s) \in Str
    BY TrimIs, StrIs
<1>2. ASSUME NEW a \in Str, NEW b \in Str
      PROVE  /\ CompareNumeric(a, b) \in {-1, 0, 1}
             /\ CompareNumeric(a, b) = -CompareNumeric(b, a)
    <2>1. /\ Strings[TrimZeros(a)][TrimZeros(b)] \in {-1, 0, 1}
          /\ Strings[TrimZeros(a)][TrimZeros(b)] = -Strings[TrimZeros(b)][TrimZeros(a)]
        BY <1>1, StringsAreOrdered DEF IsOrder
    <2>2. CASE Len(TrimZeros(a)) # Len(TrimZeros(b))
        BY <1>1, <2>2, CompareNumericIs DEF CompareInt
    <2>3. CASE Len(TrimZeros(a)) = Len(TrimZeros(b))
        BY <1>1, <2>1, <2>3, CompareNumericIs
    <2> QED
        BY <2>2, <2>3
<1>3. ASSUME NEW a \in Str, NEW b \in Str, NEW c \in Str,
             CompareNumeric(a, b) <= 0, CompareNumeric(b, c) <= 0
      PROVE  CompareNumeric(a, c) <= 0 /\ (CompareNumeric(a, c) = 0 => CompareNumeric(a, b) = 0)
    <2> DEFINE k == Len(TrimZeros(a))
               l == Len(TrimZeros(b))
               m == Len(TrimZeros(c))
               ab == Strings[TrimZeros(a)][TrimZeros(b)]
               bc == Strings[TrimZeros(b)][TrimZeros(c)]
               ac == Strings[TrimZeros(a)][TrimZeros(c)]
    <2>1. k \in Nat /\ l \in Nat /\ m \in Nat
        BY <1>1
    <2>2. ab <= 0 /\ bc <= 0 => ac <= 0 /\ (ac = 0 => ab = 0)
        BY <1>1, StringsAreOrdered DEF IsOrder
    <2>3. /\ CompareNumeric(a, b) = IF k # l THEN CompareInt(k, l) ELSE ab
          /\ CompareNumeric(b, c) = IF l # m THEN CompareInt(l, m) ELSE bc
          /\ CompareNumeric(a, c) = IF k # m THEN CompareInt(k, m) ELSE ac
        BY CompareNumericIs
    <2> HIDE DEF k, l, m, ab, bc, ac
    <2>4. k <= l /\ l <= m
        BY <1>3, <2>1, <2>3 DEF CompareInt
    <2>5. CASE k = m
        BY <1>3, <2>1, <2>2, <2>3, <2>4, <2>5
    <2>6. CASE k # m
        BY <1>3, <2>1, <2>3, <2>4, <2>6 DEF CompareInt
    <2> QED
        BY <2>5, <2>6
<1>4. Numbers \in [Str -> [Str -> {-1, 0, 1}]]
    BY <1>2 DEF Numbers
<1>5. \A s, t \in Str : Numbers[s][t] = CompareNumeric(s, t)
    BY DEF Numbers
<1> QED
    BY <1>2, <1>3, <1>4, <1>5 DEF IsOrder

PreFields == [f \in Str |-> [g \in Str |-> ComparePrereleaseField(f, g)]]

LEMMA ComparePrereleaseFieldIs ==
    ASSUME NEW f \in Str, NEW g \in Str
    PROVE  /\ IsNumeric(f) /\ IsNumeric(g) => ComparePrereleaseField(f, g) = Numbers[f][g]
           /\ IsNumeric(f) /\ ~IsNumeric(g) => ComparePrereleaseField(f, g) = -1
           /\ ~IsNumeric(f) /\ IsNumeric(g) => ComparePrereleaseField(f, g) = 1
           /\ ~IsNumeric(f) /\ ~IsNumeric(g) => ComparePrereleaseField(f, g) = Strings[f][g]
<1>1. CompareStrings(f, g) = Strings[f][g] /\ CompareNumeric(f, g) = Numbers[f][g]
    BY CompareStringsIs DEF Numbers
<1> QED
    BY <1>1 DEF ComparePrereleaseField

LEMMA PreFieldsAreOrdered == IsOrder(PreFields, Str)
<1>1. ASSUME NEW f \in Str, NEW g \in Str
      PROVE  /\ ComparePrereleaseField(f, g) \in {-1, 0, 1}
             /\ ComparePrereleaseField(f, g) = -ComparePrereleaseField(g, f)
    <2>1. /\ Numbers[f][g] \in {-1, 0, 1} /\ Numbers[f][g] = -Numbers[g][f]
          /\ Strings[f][g] \in {-1, 0, 1} /\ Strings[f][g] = -Strings[g][f]
        BY NumbersAreOrdered, StringsAreOrdered DEF IsOrder
    <2> QED
        BY <2>1, ComparePrereleaseFieldIs
<1>2. ASSUME NEW f \in Str, NEW g \in Str, NEW h \in Str,
             ComparePrereleaseField(f, g) <= 0, ComparePrereleaseField(g, h) <= 0
      PROVE  /\ ComparePrereleaseField(f, h) <= 0
             /\ ComparePrereleaseField(f, h) = 0 => ComparePrereleaseField(f, g) = 0
    <2>1. /\ Numbers[f][g] <= 0 /\ Numbers[g][h] <= 0 =>
                Numbers[f][h] <= 0 /\ (Numbers[f][h] = 0 => Numbers[f][g] = 0)
          /\ Strings[f][g] <= 0 /\ Strings[g][h] <= 0 =>
                Strings[f][h] <= 0 /\ (Strings[f][h] = 0 => Strings[f][g] = 0)
        BY NumbersAreOrdered, StringsAreOrdered DEF IsOrder
    <2> QED
        BY <1>2, <2>1, ComparePrereleaseFieldIs
<1>3. PreFields \in [Str -> [Str -> {-1, 0, 1}]]
    BY <1>1 DEF PreFields
<1>4. \A f, g \in Str : PreFields[f][g] = ComparePrereleaseField(f, g)
    BY DEF PreFields
<1> QED
    BY <1>1, <1>2, <1>3, <1>4 DEF IsOrder

\* A comparison of sequences of strings, with the comparison as a function.
LEMMA CompareByIs ==
    ASSUME NEW s \in Seq(Str), NEW t \in Seq(Str)
    PROVE  /\ CompareBy(ComparePrereleaseField, s, t) = Lex(PreFields, s, t)
           /\ CompareBy(CompareNumeric, s, t) = Lex(Numbers, s, t)
<1>1. /\ Len(s) \in Nat /\ DOMAIN s = 1 .. Len(s) /\ \A i \in DOMAIN s : s[i] \in Str
      /\ Len(t) \in Nat /\ DOMAIN t = 1 .. Len(t) /\ \A i \in DOMAIN t : t[i] \in Str
    BY LenProperties
<1>2. \A i \in DOMAIN s \cap DOMAIN t :
          /\ ComparePrereleaseField(s[i], t[i]) = PreFields[s[i]][t[i]]
          /\ CompareNumeric(s[i], t[i]) = Numbers[s[i]][t[i]]
    BY <1>1 DEF PreFields, Numbers
<1>3. CompareBy(ComparePrereleaseField, s, t) = Lex(PreFields, s, t)
    <2> DEFINE diffs == {i \in DOMAIN s \cap DOMAIN t : ComparePrereleaseField(s[i], t[i]) # 0}
    <2>1. diffs = Diffs(PreFields, s, t)
        BY <1>2 DEF Diffs
    <2>2. CompareBy(ComparePrereleaseField, s, t) =
             IF diffs = {} THEN CompareInt(Len(s), Len(t))
             ELSE ComparePrereleaseField(s[Least(diffs)], t[Least(diffs)])
        BY DEF CompareBy
    <2>3. CASE diffs # {}
        <3>1. diffs \in SUBSET Nat
            BY <1>1
        <3>2. Least(diffs) \in diffs
            BY <3>1, <2>3, LeastIs
        <3>3. ComparePrereleaseField(s[Least(diffs)], t[Least(diffs)]) =
                 PreFields[s[Least(diffs)]][t[Least(diffs)]]
            BY <1>2, <3>2
        <3> HIDE DEF diffs
        <3> QED
            BY <2>1, <2>2, <2>3, <3>3 DEF Lex
    <2> HIDE DEF diffs
    <2>4. CASE diffs = {}
        BY <2>1, <2>2, <2>4 DEF Lex
    <2> QED
        BY <2>3, <2>4
<1>4. CompareBy(CompareNumeric, s, t) = Lex(Numbers, s, t)
    <2> DEFINE diffs == {i \in DOMAIN s \cap DOMAIN t : CompareNumeric(s[i], t[i]) # 0}
    <2>1. diffs = Diffs(Numbers, s, t)
        BY <1>2 DEF Diffs
    <2>2. CompareBy(CompareNumeric, s, t) =
             IF diffs = {} THEN CompareInt(Len(s), Len(t))
             ELSE CompareNumeric(s[Least(diffs)], t[Least(diffs)])
        BY DEF CompareBy
    <2>3. CASE diffs # {}
        <3>1. diffs \in SUBSET Nat
            BY <1>1
        <3>2. Least(diffs) \in diffs
            BY <3>1, <2>3, LeastIs
        <3>3. CompareNumeric(s[Least(diffs)], t[Least(diffs)]) =
                 Numbers[s[Least(diffs)]][t[Least(diffs)]]
            BY <1>2, <3>2
        <3> HIDE DEF diffs
        <3> QED
            BY <2>1, <2>2, <2>3, <3>3 DEF Lex
    <2> HIDE DEF diffs
    <2>4. CASE diffs = {}
        BY <2>1, <2>2, <2>4 DEF Lex
    <2> QED
        BY <2>3, <2>4
<1> QED
    BY <1>3, <1>4

Rows(cmp) == LexOn(cmp, Str)

LEMMA RowsAreOrdered ==
    /\ IsOrder(Rows(PreFields), Seq(Str))
    /\ IsOrder(Rows(Numbers), Seq(Str))
BY PreFieldsAreOrdered, NumbersAreOrdered, LexIsOrder DEF Rows

Pres == [a \in Str |-> [b \in Str |-> ComparePrerelease(a, b)]]

LEMMA ComparePrereleaseIs ==
    ASSUME NEW a \in Str, NEW b \in Str
    PROVE  ComparePrerelease(a, b) =
              IF a = Empty THEN IF b = Empty THEN 0 ELSE 1
              ELSE IF b = Empty THEN -1
              ELSE Rows(PreFields)[Fields(a)][Fields(b)]
<1>1. Fields(a) \in Seq(Str) /\ Fields(b) \in Seq(Str)
    BY FieldsAre
<1>2. CompareBy(ComparePrereleaseField, Fields(a), Fields(b)) =
         Rows(PreFields)[Fields(a)][Fields(b)]
    BY <1>1, CompareByIs DEF Rows, LexOn
<1>3. Rows(PreFields)[Fields(a)][Fields(a)] = 0
    BY <1>1, RowsAreOrdered, OrderValues
<1>4. CASE a = b
    BY <1>3, <1>4 DEF ComparePrerelease
<1>5. CASE a # b
    BY <1>2, <1>5 DEF ComparePrerelease
<1> QED
    BY <1>4, <1>5

LEMMA PresAreOrdered == IsOrder(Pres, Str)
<1>0. \A a \in Str : Fields(a) \in Seq(Str)
    BY FieldsAre
<1>1. ASSUME NEW a \in Str, NEW b \in Str
      PROVE  /\ ComparePrerelease(a, b) \in {-1, 0, 1}
             /\ ComparePrerelease(a, b) = -ComparePrerelease(b, a)
    <2> DEFINE ab == Rows(PreFields)[Fields(a)][Fields(b)]
               ba == Rows(PreFields)[Fields(b)][Fields(a)]
    <2>1. ab \in {-1, 0, 1} /\ ab = -ba
        BY <1>0, RowsAreOrdered DEF IsOrder
    <2>2. /\ ComparePrerelease(a, b) =
                IF a = Empty THEN IF b = Empty THEN 0 ELSE 1
                ELSE IF b = Empty THEN -1 ELSE ab
          /\ ComparePrerelease(b, a) =
                IF b = Empty THEN IF a = Empty THEN 0 ELSE 1
                ELSE IF a = Empty THEN -1 ELSE ba
        BY ComparePrereleaseIs
    <2> HIDE DEF ab, ba
    <2> QED
        BY <2>1, <2>2
<1>2. ASSUME NEW a \in Str, NEW b \in Str, NEW c \in Str,
             ComparePrerelease(a, b) <= 0, ComparePrerelease(b, c) <= 0
      PROVE  /\ ComparePrerelease(a, c) <= 0
             /\ ComparePrerelease(a, c) = 0 => ComparePrerelease(a, b) = 0
    <2> DEFINE ab == Rows(PreFields)[Fields(a)][Fields(b)]
               bc == Rows(PreFields)[Fields(b)][Fields(c)]
               ac == Rows(PreFields)[Fields(a)][Fields(c)]
    <2>1. ab <= 0 /\ bc <= 0 => ac <= 0 /\ (ac = 0 => ab = 0)
        BY <1>0, RowsAreOrdered DEF IsOrder
    <2>2. /\ ComparePrerelease(a, b) =
                IF a = Empty THEN IF b = Empty THEN 0 ELSE 1
                ELSE IF b = Empty THEN -1 ELSE ab
          /\ ComparePrerelease(b, c) =
                IF b = Empty THEN IF c = Empty THEN 0 ELSE 1
                ELSE IF c = Empty THEN -1 ELSE bc
          /\ ComparePrerelease(a, c) =
                IF a = Empty THEN IF c = Empty THEN 0 ELSE 1
                ELSE IF c = Empty THEN -1 ELSE ac
        BY ComparePrereleaseIs
    <2> HIDE DEF ab, bc, ac
    <2> QED
        BY <1>2, <2>1, <2>2
<1>3. Pres \in [Str -> [Str -> {-1, 0, 1}]]
    BY <1>1 DEF Pres
<1>4. \A a, b \in Str : Pres[a][b] = ComparePrerelease(a, b)
    BY DEF Pres
<1> QED
    BY <1>1, <1>2, <1>3, <1>4 DEF IsOrder

LEMMA PartsOfVersions ==
    ASSUME NEW v \in Candidates
    PROVE  /\ v \in Str /\ Core(v) \in Seq(Str) /\ Pre(v) \in Str
           /\ SplitVersion(v).core = Core(v) /\ SplitVersion(v).pre = Pre(v)
<1>1. v \in Str /\ Before(v, Plus) \in Str
    BY CandidatesAssumption, BeforeIs DEF Str
<1>2. Pre(v) \in Str /\ Before(Before(v, Plus), Hyphen) \in Str
    BY <1>1, BeforeIs, AfterIs DEF Pre
<1>3. Core(v) \in Seq(Str)
    BY <1>2, FieldsAre DEF Core
<1> QED
    BY <1>1, <1>2, <1>3 DEF SplitVersion, Core, Pre

LEMMA CompareVersionsIs ==
    ASSUME NEW a \in Candidates, NEW b \in Candidates
    PROVE  CompareVersions[a][b] =
              IF Rows(Numbers)[Core(a)][Core(b)] # 0
              THEN Rows(Numbers)[Core(a)][Core(b)]
              ELSE Pres[Pre(a)][Pre(b)]
<1>1. CompareBy(CompareNumeric, Core(a), Core(b)) = Rows(Numbers)[Core(a)][Core(b)]
    BY PartsOfVersions, CompareByIs DEF Rows, LexOn
<1>2. ComparePrerelease(Pre(a), Pre(b)) = Pres[Pre(a)][Pre(b)]
    BY PartsOfVersions DEF Pres
<1>3. CompareVersions[a][b] =
         IF CompareBy(CompareNumeric, SplitVersion(a).core, SplitVersion(b).core) # 0
         THEN CompareBy(CompareNumeric, SplitVersion(a).core, SplitVersion(b).core)
         ELSE ComparePrerelease(SplitVersion(a).pre, SplitVersion(b).pre)
    BY DEF CompareVersions
<1> QED
    BY <1>1, <1>2, <1>3, PartsOfVersions

LEMMA VersionsAreOrdered == IsOrder(CompareVersions, Candidates)
<1>1. ASSUME NEW a \in Candidates, NEW b \in Candidates
      PROVE  /\ CompareVersions[a][b] \in {-1, 0, 1}
             /\ CompareVersions[a][b] = -CompareVersions[b][a]
    <2> DEFINE ab == Rows(Numbers)[Core(a)][Core(b)]
               ba == Rows(Numbers)[Core(b)][Core(a)]
               pab == Pres[Pre(a)][Pre(b)]
               pba == Pres[Pre(b)][Pre(a)]
    <2>1. ab \in {-1, 0, 1} /\ ba \in {-1, 0, 1} /\ ab = -ba
        BY PartsOfVersions, RowsAreOrdered DEF IsOrder
    <2>2. pab \in {-1, 0, 1} /\ pba \in {-1, 0, 1} /\ pab = -pba
        BY PartsOfVersions, PresAreOrdered DEF IsOrder
    <2>3. /\ CompareVersions[a][b] = IF ab # 0 THEN ab ELSE pab
          /\ CompareVersions[b][a] = IF ba # 0 THEN ba ELSE pba
        BY CompareVersionsIs
    <2> HIDE DEF ab, ba, pab, pba
    <2> QED
        BY <2>1, <2>2, <2>3
<1>2. ASSUME NEW a \in Candidates, NEW b \in Candidates, NEW c \in Candidates,
             CompareVersions[a][b] <= 0, CompareVersions[b][c] <= 0
      PROVE  /\ CompareVersions[a][c] <= 0
             /\ CompareVersions[a][c] = 0 => CompareVersions[a][b] = 0
    <2> DEFINE ab == Rows(Numbers)[Core(a)][Core(b)]
               bc == Rows(Numbers)[Core(b)][Core(c)]
               ac == Rows(Numbers)[Core(a)][Core(c)]
               pab == Pres[Pre(a)][Pre(b)]
               pbc == Pres[Pre(b)][Pre(c)]
               pac == Pres[Pre(a)][Pre(c)]
    <2>1. /\ ab \in {-1, 0, 1} /\ bc \in {-1, 0, 1} /\ ac \in {-1, 0, 1}
          /\ ab = 0 /\ bc = 0 => ac = 0
          /\ ab = 0 /\ bc = -1 => ac = -1
          /\ ab = -1 /\ bc = 0 => ac = -1
          /\ ab = -1 /\ bc = -1 => ac = -1
        <3>1. Core(a) \in Seq(Str) /\ Core(b) \in Seq(Str) /\ Core(c) \in Seq(Str)
            BY PartsOfVersions
        <3> QED
            BY <3>1, RowsAreOrdered, InARow, OrderValues
    <2>2. pab <= 0 /\ pbc <= 0 => pac <= 0 /\ (pac = 0 => pab = 0)
        BY PartsOfVersions, PresAreOrdered DEF IsOrder
    <2>3. /\ CompareVersions[a][b] = IF ab # 0 THEN ab ELSE pab
          /\ CompareVersions[b][c] = IF bc # 0 THEN bc ELSE pbc
          /\ CompareVersions[a][c] = IF ac # 0 THEN ac ELSE pac
        BY CompareVersionsIs
    <2> HIDE DEF ab, bc, ac, pab, pbc, pac
    <2> QED
        BY <1>2, <2>1, <2>2, <2>3
<1>3. CompareVersions \in [Candidates -> [Candidates -> {-1, 0, 1}]]
    <2>1. CompareVersions = [a \in Candidates |-> [b \in Candidates |-> CompareVersions[a][b]]]
        BY DEF CompareVersions
    <2> QED
        BY <1>1, <2>1
<1> QED
    BY <1>1, <1>2, <1>3 DEF IsOrder

-----------------------------------------------------------------------------
(* One pass over the list finds the highest version.                       *)

InstallableUpTo(list, withheld, n) == {list[i] : i \in 1 .. n} \ withheld

\* What the pass has found after n versions.
IsTop(list, withheld, n, v) ==
    IF InstallableUpTo(list, withheld, n) = {} THEN v = Empty
    ELSE /\ v \in InstallableUpTo(list, withheld, n)
         /\ \A w \in InstallableUpTo(list, withheld, n) : CompareVersions[w][v] <= 0

LEMMA VersionsAreNotEmpty == Empty \notin Candidates
<1> SUFFICES ASSUME Empty \in Candidates PROVE FALSE
    OBVIOUS
<1>1. Empty \in Str /\ Len(Empty) = 0
    BY EmptySeq DEF Empty, Str
<1>2. \A ch : Where(Empty, ch) = {}
    BY <1>1, WhereIs
<1>3. Before(Before(Empty, Plus), Hyphen) = Empty
    BY <1>2 DEF Before
<1>4. Len(Core(Empty)) = Cardinality({}) + 1
    BY <1>1, <1>2, <1>3, FieldsAre DEF Core
<1>5. Len(Core(Empty)) = 3
    BY CandidatesAssumption
<1> QED
    BY <1>4, <1>5, FS_EmptySet

LEMMA TopGoesOn ==
    ASSUME NEW list \in Seq(Candidates), NEW withheld, NEW n \in 1 .. Len(list),
           NEW old, IsTop(list, withheld, n - 1, old)
    PROVE  IsTop(list, withheld, n,
                 IF /\ list[n] \notin withheld
                    /\ \/ old = Empty
                       \/ CompareVersions[list[n]][old] > 0
                 THEN list[n] ELSE old)
<1> DEFINE I == InstallableUpTo(list, withheld, n - 1)
           J == InstallableUpTo(list, withheld, n)
           v == list[n]
           new == IF v \notin withheld /\ (old = Empty \/ CompareVersions[v][old] > 0)
                  THEN v ELSE old
<1>1. /\ Len(list) \in Nat
      /\ \A i \in 1 .. Len(list) : list[i] \in Candidates
    BY LenProperties
<1>2. I \subseteq Candidates /\ v \in Candidates
    BY <1>1 DEF InstallableUpTo
<1>3. J = IF v \in withheld THEN I ELSE I \cup {v}
    <2>1. 1 .. n = (1 .. n - 1) \cup {n}
        BY <1>1
    <2> QED
        BY <2>1 DEF InstallableUpTo
<1>4. IF I = {} THEN old = Empty ELSE old \in I /\ \A w \in I : CompareVersions[w][old] <= 0
    BY DEF IsTop
<1>5. v # Empty /\ (old \in I => old # Empty)
    BY <1>2, VersionsAreNotEmpty
<1> HIDE DEF I, J, v
<1>6. IF J = {} THEN new = Empty
      ELSE new \in J /\ \A w \in J : CompareVersions[w][new] <= 0
    <2>1. CASE v \in withheld
        BY <1>3, <1>4, <2>1
    <2>2. CASE v \notin withheld /\ I = {}
        <3>1. new = v /\ J = {v}
            BY <1>3, <1>4, <2>2
        <3>2. CompareVersions[v][v] = 0
            BY <1>2, VersionsAreOrdered, OrderValues
        <3> QED
            BY <3>1, <3>2
    <2>3. CASE v \notin withheld /\ I # {}
        <3>1. old \in I /\ old \in Candidates /\ old # Empty /\ J = I \cup {v}
            BY <1>2, <1>3, <1>4, <1>5, <2>3
        <3>2. CompareVersions[v][old] \in {-1, 0, 1} /\ CompareVersions[old][v] = -CompareVersions[v][old]
            BY <1>2, <3>1, VersionsAreOrdered DEF IsOrder
        <3>3. CASE CompareVersions[v][old] > 0
            <4>1. new = v /\ CompareVersions[old][v] <= 0
                BY <2>3, <3>2, <3>3
            <4>2. ASSUME NEW w \in I PROVE CompareVersions[w][v] <= 0
                <5>1. w \in Candidates /\ CompareVersions[w][old] <= 0
                    BY <1>2, <1>4, <2>3
                <5> QED
                    BY <1>2, <3>1, <4>1, <5>1, VersionsAreOrdered DEF IsOrder
            <4>3. CompareVersions[v][v] = 0
                BY <1>2, VersionsAreOrdered, OrderValues
            <4> QED
                BY <3>1, <4>1, <4>2, <4>3
        <3>4. CASE ~(CompareVersions[v][old] > 0)
            <4>1. new = old /\ CompareVersions[v][old] <= 0
                BY <2>3, <3>1, <3>2, <3>4
            <4> QED
                BY <1>4, <2>3, <3>1, <4>1
        <3> QED
            BY <3>3, <3>4
    <2> QED
        BY <2>1, <2>2, <2>3
<1> QED
    BY <1>6 DEF IsTop, I, J, v

LEMMA LatestIs ==
    ASSUME NEW list \in Seq(Candidates), NEW withheld
    PROVE  IsTop(list, withheld, Len(list), LatestInstallableVersion(list, withheld))
<1> DEFINE N == Len(list)
           T == Candidates \cup {Empty}
           Chosen(n, old) ==
              IF /\ list[n] \notin withheld
                 /\ \/ old = Empty
                    \/ CompareVersions[list[n]][old] > 0
              THEN list[n] ELSE old
           Pass(f) == f = [n \in 0 .. N |-> IF n = 0 THEN Empty ELSE Chosen(n, f[n - 1])]
           top == CHOOSE f : Pass(f)
           step == [n \in 1 .. N |-> [x \in T |-> Chosen(n, x)]]
<1>1. N \in Nat /\ \A i \in 1 .. N : list[i] \in Candidates
    BY LenProperties
<1>2. LatestInstallableVersion(list, withheld) = top[N]
    BY DEF LatestInstallableVersion
<1>3. Pass(top)
    <2>1. step \in [1 .. N -> [T -> T]] /\ Empty \in T
        BY <1>1
    <2>2. PICK f \in [0 .. N -> T] :
             \A n \in 0 .. N : f[n] = IF n = 0 THEN Empty ELSE step[n][f[n - 1]]
        <3>1. N \in Nat /\ step \in Steps(N, T)
            BY <1>1, <2>1 DEF Steps
        <3>2. \E f \in Runs(N, T, Empty, step) : TRUE
            <4> HIDE DEF step, N, T
            <4> QED
                BY <2>1, <3>1, RecursionExists
        <3> HIDE DEF step, N, T
        <3> QED
            BY <3>2 DEF Runs
    <2>3. \A n \in 0 .. N : n # 0 => step[n][f[n - 1]] = Chosen(n, f[n - 1])
        <3> SUFFICES ASSUME NEW n \in 0 .. N, n # 0
                     PROVE  step[n][f[n - 1]] = Chosen(n, f[n - 1])
            OBVIOUS
        <3>1. n \in 1 .. N /\ n - 1 \in 0 .. N
            BY <1>1
        <3>2. f[n - 1] \in T
            BY <3>1
        <3> HIDE DEF Chosen, T
        <3> QED
            BY <3>1, <3>2
    <2>4. Pass(f)
        <3> HIDE DEF Chosen, step
        <3> QED
            BY <2>2, <2>3
    <2> HIDE DEF Pass
    <2> QED
        BY <2>4
<1> DEFINE S == {n \in 0 .. N : IsTop(list, withheld, n, top[n])}
<1>4. 0 \in S
    <2>1. top[0] = Empty
        <3>1. 0 \in 0 .. N
            BY <1>1
        <3> HIDE DEF top, Chosen
        <3> QED
            BY <1>3, <3>1
    <2>2. InstallableUpTo(list, withheld, 0) = {}
        BY DEF InstallableUpTo
    <2>3. 0 \in 0 .. N
        BY <1>1
    <2> HIDE DEF top
    <2> QED
        BY <2>1, <2>2, <2>3 DEF IsTop
<1>5. ASSUME NEW n \in 0 .. N - 1, n \in S PROVE n + 1 \in S
    <2>1. n + 1 \in 1 .. Len(list) /\ n + 1 \in 0 .. N /\ (n + 1) - 1 = n
        BY <1>1
    <2>2. top[n + 1] = Chosen(n + 1, top[n])
        <3> HIDE DEF top, Chosen
        <3> QED
            BY <1>3, <2>1
    <2>3. IsTop(list, withheld, (n + 1) - 1, top[n])
        BY <1>5, <2>1
    <2>4. IsTop(list, withheld, n + 1, Chosen(n + 1, top[n]))
        <3> HIDE DEF top
        <3> QED
            BY <2>1, <2>3, TopGoesOn
    <2> HIDE DEF top, Chosen
    <2> QED
        BY <2>1, <2>2, <2>4
<1>6. N \in S
    <2> HIDE DEF S
    <2>1. 0 .. N \subseteq S
        BY <1>1, <1>4, <1>5, Induction
    <2> QED
        BY <1>1, <2>1
<1> HIDE DEF top
<1> QED
    BY <1>2, <1>6

-----------------------------------------------------------------------------
(* What a string of digits denotes.                                        *)

DigitStr == {s \in Str : \A i \in 1 .. Len(s) : s[i] \in Digits}

\* The value of every prefix.
Values(s) ==
    CHOOSE value : value = [n \in 0 .. Len(s) |->
        IF n = 0 THEN 0 ELSE 10 * value[n - 1] + (s[n] - Zero)]

LEMMA ValueIs == \A s : Value(s) = Values(s)[Len(s)]
BY DEF Value, Values

LEMMA DigitStrIs ==
    ASSUME NEW s \in DigitStr
    PROVE  /\ s \in Str /\ Len(s) \in Nat
           /\ \A i \in 1 .. Len(s) : s[i] \in Int /\ s[i] - Zero \in 0 .. 9
BY StrIs DEF DigitStr, Digits, Zero

LEMMA ValuesAre ==
    ASSUME NEW s \in DigitStr
    PROVE  /\ \A n \in 0 .. Len(s) : Values(s)[n] \in Nat
           /\ Values(s)[0] = 0
           /\ \A n \in 1 .. Len(s) : Values(s)[n] = 10 * Values(s)[n - 1] + (s[n] - Zero)
<1> DEFINE N == Len(s)
           Pass(f) == f = [n \in 0 .. N |-> IF n = 0 THEN 0 ELSE 10 * f[n - 1] + (s[n] - Zero)]
           step == [n \in 1 .. N |-> [x \in Nat |-> 10 * x + (s[n] - Zero)]]
<1>1. N \in Nat /\ \A i \in 1 .. N : s[i] - Zero \in Nat
    BY DigitStrIs
<1>2. step \in Steps(N, Nat)
    BY <1>1 DEF Steps
<1>3. \E f \in Runs(N, Nat, 0, step) : TRUE
    <2> HIDE DEF step, N
    <2> QED
        BY <1>1, <1>2, RecursionExists
<1>4. PICK f \in [0 .. N -> Nat] :
          \A n \in 0 .. N : f[n] = IF n = 0 THEN 0 ELSE step[n][f[n - 1]]
    <2> HIDE DEF step, N
    <2> QED
        BY <1>3 DEF Runs
<1>5. \A n \in 0 .. N : f[n] = IF n = 0 THEN 0 ELSE 10 * f[n - 1] + (s[n] - Zero)
    <2> SUFFICES ASSUME NEW n \in 0 .. N, n # 0
                 PROVE  f[n] = 10 * f[n - 1] + (s[n] - Zero)
        BY <1>4
    <2>1. n \in 1 .. N /\ n - 1 \in 0 .. N
        BY <1>1
    <2>2. f[n - 1] \in Nat /\ f[n] = step[n][f[n - 1]]
        BY <1>4, <2>1
    <2> QED
        BY <2>1, <2>2
<1>6. Pass(f)
    BY <1>4, <1>5
<1>7. Pass(Values(s))
    <2>1. Values(s) = CHOOSE g : Pass(g)
        BY DEF Values
    <2> HIDE DEF Pass
    <2> QED
        BY <1>6, <2>1
<1> DEFINE v == Values(s)
<1>8. \A n \in 0 .. N : v[n] = IF n = 0 THEN 0 ELSE 10 * v[n - 1] + (s[n] - Zero)
    <2> HIDE DEF v
    <2> QED
        BY <1>7 DEF v
<1> DEFINE S == {n \in 0 .. N : v[n] \in Nat}
<1> HIDE DEF v
<1>9. 0 \in S
    BY <1>1, <1>8
<1>10. ASSUME NEW n \in 0 .. N - 1, n \in S PROVE n + 1 \in S
    <2>1. n + 1 \in 1 .. N /\ (n + 1) - 1 = n /\ n + 1 # 0
        BY <1>1
    <2>2. v[n + 1] = 10 * v[n] + (s[n + 1] - Zero)
        BY <1>8, <2>1
    <2>3. v[n] \in Nat
        BY <1>10
    <2>4. 10 * v[n] + (s[n + 1] - Zero) \in Nat
        BY <1>1, <2>1, <2>3
    <2> QED
        BY <2>1, <2>2, <2>4
<1>11. 0 .. N \subseteq S
    <2> HIDE DEF S
    <2> QED
        BY <1>1, <1>9, <1>10, Induction
<1>12. \A n \in 0 .. N : v[n] \in Nat
    BY <1>11
<1>13. v[0] = 0
    BY <1>1, <1>8
<1>14. \A n \in 1 .. N : n \in 0 .. N /\ n # 0
    BY <1>1
<1>15. \A n \in 1 .. N : v[n] = 10 * v[n - 1] + (s[n] - Zero)
    BY <1>8, <1>14
<1> QED
    BY <1>12, <1>13, <1>15 DEF v
LEMMA ValueType ==
    ASSUME NEW s \in DigitStr
    PROVE  Value(s) \in Nat
<1>1. Len(s) \in 0 .. Len(s)
    BY DigitStrIs
<1> QED
    BY <1>1, ValuesAre, ValueIs

\* Without its leading zeros a number is what is left of it, and starts with
\* another digit.
LEMMA TrimmedIs ==
    ASSUME NEW s \in DigitStr
    PROVE  \E k \in Nat :
              /\ Len(s) = k + Len(TrimZeros(s))
              /\ \A i \in 1 .. k : s[i] = Zero
              /\ \A i \in 1 .. Len(TrimZeros(s)) : TrimZeros(s)[i] = s[k + i]
              /\ Len(TrimZeros(s)) # 0 => TrimZeros(s)[1] # Zero
<1> DEFINE kept == {i \in DOMAIN s : s[i] # Zero}
           t == TrimZeros(s)
<1>1. /\ Len(s) \in Nat /\ DOMAIN s = 1 .. Len(s) /\ s \in Str
      /\ kept \in SUBSET (1 .. Len(s)) /\ kept \in SUBSET Nat
    BY StrIs, DigitStrIs
<1>2. t = IF kept = {} THEN Empty ELSE SubSeq(s, Least(kept), Len(s))
    BY DEF TrimZeros
<1>3. CASE kept = {}
    <2>1. t = Empty /\ Len(t) = 0
        BY <1>2, <1>3, EmptySeq DEF Empty
    <2>2. \A i \in 1 .. Len(s) : s[i] = Zero
        BY <1>1, <1>3
    <2> HIDE DEF t
    <2>3. Len(s) = Len(s) + Len(t) /\ \A i \in 1 .. Len(t) : t[i] = s[Len(s) + i]
        BY <1>1, <2>1
    <2> QED
        BY <1>1, <2>1, <2>2, <2>3 DEF t
<1>4. CASE kept # {}
    <2>1. Least(kept) \in kept /\ \A j \in kept : Least(kept) <= j
        <3> HIDE DEF kept
        <3> QED
            BY <1>1, <1>4, LeastIs
    <2> DEFINE m == Least(kept)
    <2> HIDE DEF m
    <2>2. m \in 1 .. Len(s) /\ m \in Nat \ {0} /\ s[m] # Zero
        BY <1>1, <2>1 DEF m
    <2>3. \A i \in 1 .. m - 1 : s[i] = Zero
        <3> SUFFICES ASSUME NEW i \in 1 .. m - 1, s[i] # Zero PROVE FALSE
            OBVIOUS
        <3>1. i \in kept /\ i < m
            BY <1>1, <2>2
        <3> HIDE DEF kept
        <3>2. m <= i
            BY <2>1, <3>1 DEF m
        <3> QED
            BY <2>2, <3>1, <3>2
    <2>4. t = SubSeq(s, m, Len(s))
        BY <1>2, <1>4 DEF m
    <2>5. /\ Len(t) = Len(s) - m + 1
          /\ \A i \in 1 .. Len(s) - m + 1 : t[i] = s[m + i - 1]
        <3> HIDE DEF t
        <3>1. Len(s) \in Int /\ Len(s) <= Len(s) /\ m <= Len(s)
            BY <1>1, <2>2
        <3> QED
            BY <1>1, <2>2, <2>4, <3>1, PartIs
    <2> HIDE DEF t, kept
    <2>6. /\ m - 1 \in Nat /\ Len(s) = (m - 1) + Len(t)
          /\ \A i \in 1 .. Len(t) : t[i] = s[(m - 1) + i]
          /\ t[1] # Zero
        <3>1. \A i \in 1 .. Len(t) : m + i - 1 = (m - 1) + i
            BY <2>2
        <3>2. 1 \in 1 .. Len(t) /\ m + 1 - 1 = m
            BY <1>1, <2>2, <2>5
        <3>3. t[1] = s[m]
            BY <2>5, <3>2
        <3> QED
            BY <1>1, <2>2, <2>5, <3>1, <3>3
    <2> QED
        BY <2>3, <2>6 DEF t
<1> QED
    BY <1>3, <1>4

LEMMA TrimmedIsDigits ==
    ASSUME NEW s \in DigitStr
    PROVE  TrimZeros(s) \in DigitStr
<1>1. PICK k \in Nat : /\ Len(s) = k + Len(TrimZeros(s))
                       /\ \A i \in 1 .. Len(TrimZeros(s)) : TrimZeros(s)[i] = s[k + i]
    BY TrimmedIs
<1>2. s \in Str /\ TrimZeros(s) \in Str /\ Len(TrimZeros(s)) \in Nat
    BY TrimIs, DigitStrIs, StrIs
<1>3. \A i \in 1 .. Len(TrimZeros(s)) : k + i \in 1 .. Len(s)
    BY <1>1, <1>2
<1> QED
    BY <1>1, <1>2, <1>3 DEF DigitStr

LEMMA TrimmedValueIs ==
    ASSUME NEW s \in DigitStr
    PROVE  Value(TrimZeros(s)) = Value(s)
<1> DEFINE t == TrimZeros(s)
           v == Values(s)
           w == Values(t)
<1>1. PICK k \in Nat : /\ Len(s) = k + Len(t)
                       /\ \A i \in 1 .. k : s[i] = Zero
                       /\ \A i \in 1 .. Len(t) : t[i] = s[k + i]
    BY TrimmedIs
<1>2. Len(s) \in Nat /\ t \in DigitStr /\ Len(t) \in Nat
    BY DigitStrIs, TrimmedIsDigits
<1> HIDE DEF t
<1>3. /\ v[0] = 0 /\ \A n \in 1 .. Len(s) : v[n] = 10 * v[n - 1] + (s[n] - Zero)
      /\ \A n \in 0 .. Len(s) : v[n] \in Nat
    BY ValuesAre
<1>4. w[0] = 0 /\ \A n \in 1 .. Len(t) : w[n] = 10 * w[n - 1] + (t[n] - Zero)
    BY <1>2, ValuesAre
<1> HIDE DEF v, w
<1> DEFINE S == {n \in 0 .. k : v[n] = 0}
<1>5. 0 \in S
    BY <1>3
<1>6. ASSUME NEW n \in 0 .. k - 1, n \in S PROVE n + 1 \in S
    <2>1. n + 1 \in 1 .. Len(s) /\ n + 1 \in 1 .. k /\ (n + 1) - 1 = n
        BY <1>1, <1>2
    <2>2. v[n + 1] = 10 * v[n] + (s[n + 1] - Zero)
        BY <1>3, <2>1
    <2>3. v[n] = 0 /\ s[n + 1] = Zero
        BY <1>1, <1>6, <2>1
    <2> QED
        BY <2>1, <2>2, <2>3 DEF Zero
<1>7. v[k] = 0
    <2> HIDE DEF S
    <2>1. 0 .. k \subseteq S
        BY <1>5, <1>6, Induction
    <2> QED
        BY <2>1 DEF S
<1> DEFINE R == {n \in 0 .. Len(t) : v[k + n] = w[n]}
<1>8. 0 \in R
    BY <1>2, <1>4, <1>7
<1>9. ASSUME NEW n \in 0 .. Len(t) - 1, n \in R PROVE n + 1 \in R
    <2>1. /\ n + 1 \in 1 .. Len(t) /\ k + (n + 1) \in 1 .. Len(s)
          /\ (n + 1) - 1 = n /\ (k + (n + 1)) - 1 = k + n
        BY <1>1, <1>2
    <2>2. /\ v[k + (n + 1)] = 10 * v[k + n] + (s[k + (n + 1)] - Zero)
          /\ w[n + 1] = 10 * w[n] + (t[n + 1] - Zero)
        BY <1>3, <1>4, <2>1
    <2>3. v[k + n] = w[n] /\ t[n + 1] = s[k + (n + 1)]
        BY <1>1, <1>9, <2>1
    <2> QED
        BY <2>1, <2>2, <2>3
<1>10. v[k + Len(t)] = w[Len(t)]
    <2> HIDE DEF R
    <2>1. 0 .. Len(t) \subseteq R
        BY <1>2, <1>8, <1>9, Induction
    <2> QED
        BY <1>2, <2>1 DEF R
<1> QED
    BY <1>1, <1>10, ValueIs DEF v, w, t

\* One digit more changes nothing between two numbers.
LEMMA OneDigitMore ==
    ASSUME NEW x \in Nat, NEW y \in Nat, x < y, NEW d \in 0 .. 9, NEW e \in 0 .. 9
    PROVE  10 * x + d < 10 * y + e
<1>1. x + 1 <= y
    OBVIOUS
<1>2. 10 * (x + 1) <= 10 * y
    BY <1>1
<1> QED
    BY <1>2

\* Of two numbers with as many digits, the first digit that differs decides.
LEMMA SameLengthValues ==
    ASSUME NEW s \in DigitStr, NEW t \in DigitStr, Len(s) = Len(t),
           NEW k \in Nat, \A i \in 1 .. Len(s) : i < k => s[i] = t[i],
           k \in 1 .. Len(s) + 1, k <= Len(s) => s[k] < t[k]
    PROVE  IF k <= Len(s) THEN Value(s) < Value(t) ELSE Value(s) = Value(t)
<1> DEFINE v == Values(s)
           w == Values(t)
           N == Len(s)
<1>1. /\ N \in Nat /\ Len(t) = N
      /\ \A i \in 1 .. N : s[i] \in Int /\ s[i] - Zero \in 0 .. 9
      /\ \A i \in 1 .. N : t[i] \in Int /\ t[i] - Zero \in 0 .. 9
    BY DigitStrIs
<1>2. /\ v[0] = 0 /\ \A n \in 1 .. N : v[n] = 10 * v[n - 1] + (s[n] - Zero)
      /\ \A n \in 0 .. N : v[n] \in Nat
    BY ValuesAre
<1>3. /\ w[0] = 0 /\ \A n \in 1 .. N : w[n] = 10 * w[n - 1] + (t[n] - Zero)
      /\ \A n \in 0 .. N : w[n] \in Nat
    BY <1>1, ValuesAre
<1> HIDE DEF v, w
<1> DEFINE S == {n \in 0 .. N : IF n < k THEN v[n] = w[n] ELSE v[n] < w[n]}
<1>4. 0 \in S
    BY <1>1, <1>2, <1>3
<1>5. ASSUME NEW n \in 0 .. N - 1, n \in S PROVE n + 1 \in S
    <2>1. n + 1 \in 1 .. N /\ (n + 1) - 1 = n /\ n + 1 \in 0 .. N /\ n \in 0 .. N
        BY <1>1
    <2>2. /\ v[n + 1] = 10 * v[n] + (s[n + 1] - Zero)
          /\ w[n + 1] = 10 * w[n] + (t[n + 1] - Zero)
          /\ v[n] \in Nat /\ w[n] \in Nat
          /\ s[n + 1] \in Int /\ s[n + 1] - Zero \in 0 .. 9
          /\ t[n + 1] \in Int /\ t[n + 1] - Zero \in 0 .. 9
        BY <1>1, <1>2, <1>3, <2>1
    <2>3. CASE n + 1 < k
        <3>1. v[n] = w[n] /\ s[n + 1] = t[n + 1]
            BY <1>5, <2>1, <2>3
        <3> QED
            BY <2>1, <2>2, <2>3, <3>1
    <2>4. CASE n + 1 = k
        <3>1. v[n] = w[n] /\ s[n + 1] < t[n + 1]
            BY <1>5, <2>1, <2>4
        <3>2. v[n + 1] < w[n + 1]
            BY <2>2, <3>1 DEF Zero
        <3> QED
            BY <2>1, <2>4, <3>2
    <2>5. CASE n + 1 > k
        <3>1. v[n] < w[n]
            BY <1>5, <2>1, <2>5
        <3>2. v[n + 1] < w[n + 1]
            BY <2>2, <3>1, OneDigitMore
        <3> QED
            BY <2>1, <2>5, <3>2
    <2> QED
        BY <2>1, <2>3, <2>4, <2>5
<1>6. N \in S
    <2> HIDE DEF S
    <2>1. 0 .. N \subseteq S
        BY <1>1, <1>4, <1>5, Induction
    <2> QED
        BY <1>1, <2>1
<1>7. IF N < k THEN v[N] = w[N] ELSE v[N] < w[N]
    BY <1>6
<1> QED
    BY <1>1, <1>7, ValueIs DEF v, w

\* A number with more digits is the higher one.
LEMMA LongerIsHigher ==
    ASSUME NEW s \in DigitStr, NEW t \in DigitStr, Len(s) < Len(t), t[1] # Zero
    PROVE  Value(s) < Value(t)
<1> DEFINE v == Values(s)
           w == Values(t)
           N == Len(s)
           k == Len(t) - Len(s)
<1>1. /\ N \in Nat /\ k \in Nat \ {0} /\ Len(t) = k + N
      /\ \A i \in 1 .. N : s[i] - Zero \in 0 .. 9
      /\ \A i \in 1 .. Len(t) : t[i] \in Int /\ t[i] - Zero \in 0 .. 9
    BY DigitStrIs
<1> HIDE DEF k
<1>2. /\ v[0] = 0 /\ \A n \in 1 .. N : v[n] = 10 * v[n - 1] + (s[n] - Zero)
      /\ \A n \in 0 .. N : v[n] \in Nat
    BY ValuesAre
<1>3. /\ w[0] = 0 /\ \A n \in 1 .. Len(t) : w[n] = 10 * w[n - 1] + (t[n] - Zero)
      /\ \A n \in 0 .. Len(t) : w[n] \in Nat
    BY ValuesAre
<1> HIDE DEF v, w
<1> DEFINE R == {n \in 0 .. k - 1 : w[n + 1] > 0}
<1>4. 0 \in R
    <2>1. 1 \in 1 .. Len(t) /\ 1 - 1 = 0 /\ 0 \in 0 .. k - 1
        BY <1>1
    <2>2. w[1] = 10 * w[0] + (t[1] - Zero) /\ t[1] - Zero \in 0 .. 9 /\ t[1] \in Int
        BY <1>1, <1>3, <2>1
    <2>3. w[1] > 0
        BY <1>3, <2>2 DEF Zero
    <2> QED
        BY <2>1, <2>3
<1>5. ASSUME NEW n \in 0 .. (k - 1) - 1, n \in R PROVE n + 1 \in R
    <2>1. /\ n + 1 \in 0 .. k - 1 /\ (n + 1) + 1 \in 1 .. Len(t)
          /\ ((n + 1) + 1) - 1 = n + 1 /\ n + 1 \in 0 .. Len(t)
        BY <1>1
    <2>2. /\ w[(n + 1) + 1] = 10 * w[n + 1] + (t[(n + 1) + 1] - Zero)
          /\ w[n + 1] \in Nat /\ t[(n + 1) + 1] - Zero \in 0 .. 9
        BY <1>1, <1>3, <2>1
    <2>3. w[n + 1] > 0
        BY <1>5
    <2>4. w[(n + 1) + 1] > 0
        <3>1. ASSUME NEW x \in Nat, x > 0, NEW d \in 0 .. 9 PROVE 10 * x + d > 0
            BY <3>1
        <3> QED
            BY <2>2, <2>3, <3>1
    <2> QED
        BY <2>1, <2>4
<1>6. w[k] > 0
    <2>1. k - 1 \in Nat /\ (k - 1) + 1 = k /\ k - 1 \in 0 .. k - 1
        BY <1>1
    <2> HIDE DEF R
    <2>2. 0 .. k - 1 \subseteq R
        BY <1>4, <1>5, <2>1, Induction
    <2>3. k - 1 \in R
        BY <2>1, <2>2
    <2> QED
        BY <2>1, <2>3 DEF R
<1> DEFINE S == {n \in 0 .. N : v[n] < w[k + n]}
<1>7. 0 \in S
    <2>1. k + 0 = k /\ 0 \in 0 .. N
        BY <1>1
    <2> QED
        BY <1>2, <1>6, <2>1
<1>8. ASSUME NEW n \in 0 .. N - 1, n \in S PROVE n + 1 \in S
    <2>1. /\ n + 1 \in 1 .. N /\ n + 1 \in 0 .. N /\ (n + 1) - 1 = n /\ n \in 0 .. N
          /\ k + (n + 1) \in 1 .. Len(t) /\ (k + (n + 1)) - 1 = k + n
          /\ k + n \in 0 .. Len(t)
        BY <1>1
    <2>2. /\ v[n + 1] = 10 * v[n] + (s[n + 1] - Zero)
          /\ w[k + (n + 1)] = 10 * w[k + n] + (t[k + (n + 1)] - Zero)
          /\ v[n] \in Nat /\ w[k + n] \in Nat
          /\ s[n + 1] - Zero \in 0 .. 9 /\ t[k + (n + 1)] - Zero \in 0 .. 9
        BY <1>1, <1>2, <1>3, <2>1
    <2>3. v[n] < w[k + n]
        BY <1>8
    <2>4. v[n + 1] < w[k + (n + 1)]
        BY <2>2, <2>3, OneDigitMore
    <2> QED
        BY <2>1, <2>4
<1>9. N \in S
    <2> HIDE DEF S
    <2>1. 0 .. N \subseteq S
        BY <1>1, <1>7, <1>8, Induction
    <2> QED
        BY <1>1, <2>1
<1>10. v[N] < w[Len(t)]
    BY <1>1, <1>9
<1> QED
    BY <1>10, ValueIs DEF v, w

\* Comparing two numbers digit by digit compares what they denote.
LEMMA NumbersByValue ==
    ASSUME NEW a \in DigitStr, NEW b \in DigitStr
    PROVE  Numbers[a][b] = CompareInt(Value(a), Value(b))
<1> DEFINE s == TrimZeros(a)
           t == TrimZeros(b)
<1>0. a \in Str /\ b \in Str
    BY DigitStrIs
<1>1. /\ Value(a) = Value(s) /\ Value(b) = Value(t)
      /\ s \in DigitStr /\ t \in DigitStr
    BY TrimmedValueIs, TrimmedIsDigits
<1>2. /\ Len(s) # 0 => s[1] # Zero
      /\ Len(t) # 0 => t[1] # Zero
    BY TrimmedIs
<1>3. Numbers[a][b] = IF Len(s) # Len(t) THEN CompareInt(Len(s), Len(t)) ELSE Strings[s][t]
    BY <1>0, CompareNumericIs DEF Numbers
<1> HIDE DEF s, t
<1>4. Len(s) \in Nat /\ Len(t) \in Nat /\ s \in Str /\ t \in Str
    BY <1>1, DigitStrIs
<1>5. Value(s) \in Nat /\ Value(t) \in Nat
    BY <1>1, ValueType
<1>6. CASE Len(s) # Len(t)
    <2>1. CASE Len(s) < Len(t)
        <3>1. Value(s) < Value(t)
            BY <1>1, <1>2, <1>4, <2>1, LongerIsHigher
        <3> QED
            BY <1>1, <1>3, <1>4, <1>5, <2>1, <3>1 DEF CompareInt
    <2>2. CASE Len(t) < Len(s)
        <3>1. Value(t) < Value(s)
            BY <1>1, <1>2, <1>4, <2>2, LongerIsHigher
        <3> QED
            BY <1>1, <1>3, <1>4, <1>5, <2>2, <3>1 DEF CompareInt
    <2> QED
        BY <1>4, <1>6, <2>1, <2>2
<1>7. CASE Len(s) = Len(t)
    <2>1. Numbers[a][b] = Lex(Ints, s, t)
        BY <1>3, <1>4, <1>7 DEF Strings, LexOn, Str
    <2>2. \A i \in 1 .. Len(s) : /\ s[i] \in Nat /\ t[i] \in Nat
                                 /\ Ints[s[i]][t[i]] = CompareInt(s[i], t[i])
        BY <1>4, <1>7, StrIs DEF Ints
    <2>3. CASE NoDiff(Ints, s, t)
        <3>1. Lex(Ints, s, t) = CompareInt(Len(s), Len(t))
            BY <1>4, <2>3, LexOfNoDiff DEF Str
        <3>2. \A i \in 1 .. Len(s) : s[i] = t[i]
            <4> SUFFICES ASSUME NEW i \in 1 .. Len(s) PROVE s[i] = t[i]
                OBVIOUS
            <4>1. Ints[s[i]][t[i]] = 0
                BY <1>4, <1>7, <2>3 DEF NoDiff
            <4> QED
                BY <2>2, <4>1 DEF CompareInt
        <3>3. Value(s) = Value(t)
            <4>1. /\ Len(s) + 1 \in Nat /\ Len(s) + 1 \in 1 .. Len(s) + 1
                  /\ ~(Len(s) + 1 <= Len(s))
                BY <1>4
            <4> QED
                BY <1>1, <1>7, <3>2, <4>1, SameLengthValues
        <3> QED
            BY <1>1, <1>4, <1>5, <1>7, <2>1, <3>1, <3>3 DEF CompareInt
    <2>4. ASSUME NEW i \in Nat, FirstDiff(Ints, s, t, i)
          PROVE  Numbers[a][b] = CompareInt(Value(s), Value(t))
        <3>1. /\ i \in 1 .. Len(s) /\ Ints[s[i]][t[i]] # 0
              /\ \A j \in 1 .. i - 1 : Ints[s[j]][t[j]] = 0
            BY <2>4 DEF FirstDiff
        <3>2. Lex(Ints, s, t) = CompareInt(s[i], t[i])
            BY <1>4, <2>2, <2>4, <3>1, LexOfFirstDiff DEF Str
        <3>3. \A j \in 1 .. Len(s) : j < i => s[j] = t[j]
            <4> SUFFICES ASSUME NEW j \in 1 .. Len(s), j < i PROVE s[j] = t[j]
                OBVIOUS
            <4>1. j \in 1 .. i - 1
                OBVIOUS
            <4>2. Ints[s[j]][t[j]] = 0
                BY <3>1, <4>1
            <4> QED
                BY <2>2, <4>2 DEF CompareInt
        <3>4. i \in 1 .. Len(s) + 1 /\ i <= Len(s)
            BY <1>4, <3>1
        <3>5. s[i] \in Nat /\ t[i] \in Nat /\ s[i] # t[i]
            BY <2>2, <3>1 DEF CompareInt
        <3>6. CASE s[i] < t[i]
            <4>1. Value(s) < Value(t)
                BY <1>1, <1>7, <3>3, <3>4, <3>6, SameLengthValues
            <4> QED
                BY <1>5, <2>1, <3>2, <3>5, <3>6, <4>1 DEF CompareInt
        <3>7. CASE t[i] < s[i]
            <4>1. Value(t) < Value(s)
                <5>1. \A j \in 1 .. Len(t) : j < i => t[j] = s[j]
                    BY <1>7, <3>3
                <5>2. i \in 1 .. Len(t) + 1 /\ i <= Len(t) /\ Len(t) = Len(s)
                    BY <1>7, <3>4
                <5> QED
                    BY <1>1, <3>7, <5>1, <5>2, SameLengthValues
            <4> QED
                BY <1>5, <2>1, <3>2, <3>5, <3>7, <4>1 DEF CompareInt
        <3> QED
            BY <3>5, <3>6, <3>7
    <2> QED
        BY <1>1, <1>4, <2>3, <2>4, LexCases DEF Str
<1> QED
    BY <1>1, <1>6, <1>7

-----------------------------------------------------------------------------
(* The relation of the standard and the comparisons of the code.           *)

\* s is below t, when cmp compares their elements.
Below(cmp, s, t) ==
    \/ \E i \in DOMAIN s \cap DOMAIN t :
          cmp[s[i]][t[i]] = -1 /\ \A j \in 1 .. i - 1 : cmp[s[j]][t[j]] = 0
    \/ Len(s) < Len(t) /\ \A j \in DOMAIN s : cmp[s[j]][t[j]] = 0

LEMMA LexBelow ==
    ASSUME NEW D, NEW cmp, NEW s \in Seq(D), NEW t \in Seq(D)
    PROVE  Lex(cmp, s, t) = -1 <=> Below(cmp, s, t)
<1>1. /\ Len(s) \in Nat /\ DOMAIN s = 1 .. Len(s)
      /\ Len(t) \in Nat /\ DOMAIN t = 1 .. Len(t)
    BY LenProperties
<1>2. CASE NoDiff(cmp, s, t)
    <2>1. Lex(cmp, s, t) = CompareInt(Len(s), Len(t))
        BY <1>2, LexOfNoDiff
    <2>2. Lex(cmp, s, t) = -1 <=> Len(s) < Len(t)
        BY <1>1, <2>1, CompareIntIs
    <2>3. \A i \in DOMAIN s \cap DOMAIN t : cmp[s[i]][t[i]] = 0
        BY <1>1, <1>2 DEF NoDiff
    <2>4. Below(cmp, s, t) <=> Len(s) < Len(t)
        <3>1. \A i \in DOMAIN s \cap DOMAIN t : cmp[s[i]][t[i]] # -1
            BY <2>3
        <3>2. Len(s) < Len(t) => \A j \in DOMAIN s : cmp[s[j]][t[j]] = 0
            BY <1>1, <2>3
        <3> QED
            BY <3>1, <3>2 DEF Below
    <2> QED
        BY <2>2, <2>4
<1>3. ASSUME NEW k \in Nat, FirstDiff(cmp, s, t, k)
      PROVE  Lex(cmp, s, t) = -1 <=> Below(cmp, s, t)
    <2>1. Lex(cmp, s, t) = cmp[s[k]][t[k]]
        BY <1>3, LexOfFirstDiff
    <2>2. /\ k \in 1 .. Len(s) /\ k \in 1 .. Len(t) /\ cmp[s[k]][t[k]] # 0
          /\ \A j \in 1 .. k - 1 : cmp[s[j]][t[j]] = 0
        BY <1>3 DEF FirstDiff
    <2>3. cmp[s[k]][t[k]] = -1 => Below(cmp, s, t)
        <3>1. k \in DOMAIN s \cap DOMAIN t
            BY <1>1, <2>2
        <3> QED
            BY <2>2, <3>1 DEF Below
    <2>4. ASSUME NEW i \in DOMAIN s \cap DOMAIN t, cmp[s[i]][t[i]] = -1,
                 \A j \in 1 .. i - 1 : cmp[s[j]][t[j]] = 0
          PROVE  cmp[s[k]][t[k]] = -1
        <3>1. ~(k < i)
            BY <1>1, <2>2, <2>4
        <3>2. ~(i < k)
            <4>1. i < k => i \in 1 .. k - 1
                BY <1>1, <2>2
            <4> QED
                BY <2>2, <2>4, <4>1
        <3>3. i = k
            BY <1>1, <3>1, <3>2
        <3> QED
            BY <2>4, <3>3
    <2>5. ~ \A j \in DOMAIN s : cmp[s[j]][t[j]] = 0
        BY <1>1, <2>2
    <2> QED
        BY <2>1, <2>3, <2>4, <2>5 DEF Below
<1> QED
    BY <1>2, <1>3, LexCases

LEMMA LexSame ==
    ASSUME NEW D, NEW cmp, NEW s \in Seq(D), NEW t \in Seq(D)
    PROVE  Lex(cmp, s, t) = 0 <=>
              Len(s) = Len(t) /\ \A i \in 1 .. Len(s) : cmp[s[i]][t[i]] = 0
<1>1. Len(s) \in Nat /\ Len(t) \in Nat
    BY LenProperties
<1>2. CASE NoDiff(cmp, s, t)
    <2>1. Lex(cmp, s, t) = CompareInt(Len(s), Len(t))
        BY <1>2, LexOfNoDiff
    <2>2. Lex(cmp, s, t) = 0 <=> Len(s) = Len(t)
        BY <1>1, <2>1, CompareIntIs
    <2> QED
        BY <1>1, <1>2, <2>2 DEF NoDiff
<1>3. ASSUME NEW k \in Nat, FirstDiff(cmp, s, t, k)
      PROVE  Lex(cmp, s, t) # 0 /\ ~ \A i \in 1 .. Len(s) : cmp[s[i]][t[i]] = 0
    <2>1. Lex(cmp, s, t) = cmp[s[k]][t[k]]
        BY <1>3, LexOfFirstDiff
    <2> QED
        BY <1>3, <2>1 DEF FirstDiff
<1> QED
    BY <1>2, <1>3, LexCases

LEMMA StringsSame ==
    ASSUME NEW s \in Str, NEW t \in Str
    PROVE  Strings[s][t] = 0 <=> s = t
<1>1. Strings[s][t] = Lex(Ints, s, t)
    BY DEF Strings, LexOn, Str
<1>2. s = t => Strings[s][t] = 0
    BY StringsAreOrdered, OrderValues
<1>3. ASSUME Strings[s][t] = 0 PROVE s = t
    <2>1. Len(s) = Len(t) /\ \A i \in 1 .. Len(s) : Ints[s[i]][t[i]] = 0
        <3>1. s \in Seq(Nat) /\ t \in Seq(Nat)
            BY DEF Str
        <3>2. Lex(Ints, s, t) = 0 <=>
                 Len(s) = Len(t) /\ \A i \in 1 .. Len(s) : Ints[s[i]][t[i]] = 0
            BY <3>1, LexSame
        <3> QED
            BY <1>1, <1>3, <3>2
    <2>2. \A i \in 1 .. Len(s) : s[i] \in Nat /\ t[i] \in Nat
        BY <2>1, StrIs
    <2>3. \A i \in 1 .. Len(s) : s[i] = t[i]
        BY <2>1, <2>2, CompareIntIs DEF Ints
    <2>4. s \in [1 .. Len(s) -> Nat] /\ t \in [1 .. Len(s) -> Nat]
        BY <2>1, LenProperties DEF Str
    <2> QED
        BY <2>3, <2>4
<1> QED
    BY <1>2, <1>3

LEMMA StringBelowIs ==
    ASSUME NEW s \in Str, NEW t \in Str
    PROVE  StringBelow(s, t) <=> Strings[s][t] = -1
<1>1. Strings[s][t] = -1 <=> Below(Ints, s, t)
    <2>1. Strings[s][t] = Lex(Ints, s, t)
        BY DEF Strings, LexOn, Str
    <2> QED
        BY <2>1, LexBelow DEF Str
<1>2. /\ Len(s) \in Nat /\ DOMAIN s = 1 .. Len(s) /\ \A i \in 1 .. Len(s) : s[i] \in Nat
      /\ Len(t) \in Nat /\ DOMAIN t = 1 .. Len(t) /\ \A i \in 1 .. Len(t) : t[i] \in Nat
    BY StrIs
<1>3. \A i \in DOMAIN s \cap DOMAIN t :
          /\ Ints[s[i]][t[i]] = -1 <=> s[i] < t[i]
          /\ Ints[s[i]][t[i]] = 0 <=> s[i] = t[i]
    BY <1>2, CompareIntIs DEF Ints
<1>4. ASSUME NEW n \in Nat, n <= Len(s), n <= Len(t)
      PROVE  SubSeq(s, 1, n) = SubSeq(t, 1, n) <=> \A j \in 1 .. n : s[j] = t[j]
    <2>1. /\ SubSeq(s, 1, n) \in Str /\ SubSeq(t, 1, n) \in Str
          /\ Len(SubSeq(s, 1, n)) = n /\ Len(SubSeq(t, 1, n)) = n
          /\ \A j \in 1 .. n : SubSeq(s, 1, n)[j] = s[j] /\ SubSeq(t, 1, n)[j] = t[j]
        <3>1. /\ 1 \in Nat \ {0} /\ n \in Int
              /\ (IF 1 <= n THEN n - 1 + 1 ELSE 0) = n
              /\ n - 1 + 1 = n /\ \A j \in 1 .. n : 1 + j - 1 = j
            OBVIOUS
        <3>2. /\ SubSeq(s, 1, n) \in Str
              /\ Len(SubSeq(s, 1, n)) = n
              /\ \A j \in 1 .. n : SubSeq(s, 1, n)[j] = s[j]
            BY <1>4, <3>1, PartIs
        <3>3. /\ SubSeq(t, 1, n) \in Str
              /\ Len(SubSeq(t, 1, n)) = n
              /\ \A j \in 1 .. n : SubSeq(t, 1, n)[j] = t[j]
            BY <1>4, <3>1, PartIs
        <3> QED
            BY <3>2, <3>3
    <2> DEFINE p == SubSeq(s, 1, n)
               q == SubSeq(t, 1, n)
    <2>2. p \in [1 .. n -> Nat] /\ q \in [1 .. n -> Nat]
        <3> HIDE DEF p, q
        <3>1. p \in Str /\ q \in Str /\ Len(p) = n /\ Len(q) = n
            BY <2>1 DEF p, q
        <3> QED
            BY <3>1, LenProperties DEF Str
    <2>3. \A j \in 1 .. n : p[j] = s[j] /\ q[j] = t[j]
        BY <2>1
    <2> HIDE DEF p, q
    <2>4. p = q <=> \A j \in 1 .. n : p[j] = q[j]
        BY <2>2
    <2>5. p = q <=> \A j \in 1 .. n : s[j] = t[j]
        BY <2>3, <2>4
    <2> QED
        BY <2>5 DEF p, q
<1>5. ASSUME NEW i \in DOMAIN s \cap DOMAIN t
      PROVE  /\ SubSeq(s, 1, i - 1) = SubSeq(t, 1, i - 1) <=>
                   \A j \in 1 .. i - 1 : Ints[s[j]][t[j]] = 0
             /\ s[i] < t[i] <=> Ints[s[i]][t[i]] = -1
    <2>1. i - 1 \in Nat /\ i - 1 <= Len(s) /\ i - 1 <= Len(t)
        BY <1>2
    <2>2. \A j \in 1 .. i - 1 : j \in DOMAIN s \cap DOMAIN t
        BY <1>2
    <2> QED
        BY <1>3, <1>4, <2>1, <2>2
<1>6. ASSUME Len(s) < Len(t)
      PROVE  s = SubSeq(t, 1, Len(s)) <=> \A j \in DOMAIN s : Ints[s[j]][t[j]] = 0
    <2>1. s = SubSeq(s, 1, Len(s))
        <3> DEFINE p == SubSeq(s, 1, Len(s))
        <3>1. /\ 1 \in Nat \ {0} /\ Len(s) \in Int /\ Len(s) <= Len(s)
              /\ (IF 1 <= Len(s) THEN Len(s) - 1 + 1 ELSE 0) = Len(s)
              /\ Len(s) - 1 + 1 = Len(s) /\ \A j \in 1 .. Len(s) : 1 + j - 1 = j
            BY <1>2
        <3>2. p \in Str /\ Len(p) = Len(s) /\ \A j \in 1 .. Len(s) : p[j] = s[j]
            BY <3>1, PartIs
        <3> HIDE DEF p
        <3>3. p \in [1 .. Len(s) -> Nat] /\ s \in [1 .. Len(s) -> Nat]
            BY <3>2, LenProperties DEF Str
        <3>4. p = s
            BY <3>2, <3>3
        <3> QED
            BY <3>4 DEF p
    <2>2. s = SubSeq(t, 1, Len(s)) <=> \A j \in 1 .. Len(s) : s[j] = t[j]
        <3>1. Len(s) <= Len(s) /\ Len(s) <= Len(t)
            BY <1>2, <1>6
        <3>2. SubSeq(s, 1, Len(s)) = SubSeq(t, 1, Len(s)) <=> \A j \in 1 .. Len(s) : s[j] = t[j]
            BY <1>2, <1>4, <3>1
        <3> QED
            BY <2>1, <3>2
    <2>3. \A j \in DOMAIN s : j \in DOMAIN s \cap DOMAIN t
        BY <1>2, <1>6
    <2> QED
        BY <1>2, <1>3, <2>2, <2>3
<1> QED
    BY <1>1, <1>5, <1>6 DEF StringBelow, Below

LEMMA NumericIs ==
    ASSUME NEW f \in Str, IsNumeric(f)
    PROVE  f \in DigitStr
BY StrIs DEF IsNumeric, DigitStr

LEMMA FieldBelowIs ==
    ASSUME NEW f \in Str, NEW g \in Str
    PROVE  /\ FieldBelow(f, g) <=> PreFields[f][g] = -1
           /\ SameField(f, g) <=> PreFields[f][g] = 0
<1>1. PreFields[f][g] = ComparePrereleaseField(f, g)
    BY DEF PreFields
<1>2. CASE IsNumeric(f) /\ IsNumeric(g)
    <2>1. PreFields[f][g] = CompareInt(Value(f), Value(g))
        BY <1>1, <1>2, ComparePrereleaseFieldIs, NumericIs, NumbersByValue
    <2>2. Value(f) \in Nat /\ Value(g) \in Nat
        BY <1>2, NumericIs, ValueType
    <2>3. /\ PreFields[f][g] = -1 <=> Value(f) < Value(g)
          /\ PreFields[f][g] = 0 <=> Value(f) = Value(g)
        BY <2>1, <2>2, CompareIntIs
    <2> QED
        BY <1>2, <2>3 DEF FieldBelow, SameField
<1>3. CASE IsNumeric(f) /\ ~IsNumeric(g)
    <2>1. PreFields[f][g] = -1 /\ f # g
        BY <1>1, <1>3, ComparePrereleaseFieldIs
    <2> QED
        BY <1>3, <2>1 DEF FieldBelow, SameField
<1>4. CASE ~IsNumeric(f) /\ IsNumeric(g)
    <2>1. PreFields[f][g] = 1 /\ f # g
        BY <1>1, <1>4, ComparePrereleaseFieldIs
    <2> QED
        BY <1>4, <2>1 DEF FieldBelow, SameField
<1>5. CASE ~IsNumeric(f) /\ ~IsNumeric(g)
    <2>1. PreFields[f][g] = Strings[f][g]
        BY <1>1, <1>5, ComparePrereleaseFieldIs
    <2> QED
        BY <1>5, <2>1, StringsSame, StringBelowIs DEF FieldBelow, SameField
<1> QED
    BY <1>2, <1>3, <1>4, <1>5

LEMMA FieldsBelowIs ==
    ASSUME NEW s \in Seq(Str), NEW t \in Seq(Str)
    PROVE  FieldsBelow(s, t) <=> Rows(PreFields)[s][t] = -1
<1>1. /\ Len(s) \in Nat /\ DOMAIN s = 1 .. Len(s) /\ \A i \in DOMAIN s : s[i] \in Str
      /\ Len(t) \in Nat /\ DOMAIN t = 1 .. Len(t) /\ \A i \in DOMAIN t : t[i] \in Str
    BY LenProperties
<1>2. \A i \in DOMAIN s \cap DOMAIN t :
          /\ FieldBelow(s[i], t[i]) <=> PreFields[s[i]][t[i]] = -1
          /\ SameField(s[i], t[i]) <=> PreFields[s[i]][t[i]] = 0
    BY <1>1, FieldBelowIs
<1>3. \A i \in DOMAIN s \cap DOMAIN t : \A j \in 1 .. i - 1 : j \in DOMAIN s \cap DOMAIN t
    BY <1>1
<1>4. Len(s) < Len(t) => \A j \in DOMAIN s : j \in DOMAIN s \cap DOMAIN t
    BY <1>1
<1>5. FieldsBelow(s, t) <=> Below(PreFields, s, t)
    BY <1>2, <1>3, <1>4 DEF FieldsBelow, Below
<1>6. Rows(PreFields)[s][t] = Lex(PreFields, s, t)
    BY DEF Rows, LexOn
<1>7. Lex(PreFields, s, t) = -1 <=> Below(PreFields, s, t)
    BY LexBelow
<1> QED
    BY <1>5, <1>6, <1>7

LEMMA CoreIs ==
    ASSUME NEW v \in Candidates
    PROVE  /\ Core(v) \in Seq(Str) /\ Len(Core(v)) = 3
           /\ \A i \in 1 .. 3 : Core(v)[i] \in Str /\ IsNumeric(Core(v)[i])
<1>1. Core(v) \in Seq(Str) /\ Len(Core(v)) = 3
    BY PartsOfVersions, CandidatesAssumption
<1>2. \A i \in 1 .. 3 : Core(v)[i] \in Str
    BY <1>1, LenProperties
<1> QED
    BY <1>1, <1>2, CandidatesAssumption

LEMMA CoresBelow ==
    ASSUME NEW a \in Candidates, NEW b \in Candidates
    PROVE  /\ FieldsBelow(Core(a), Core(b)) <=> Rows(Numbers)[Core(a)][Core(b)] = -1
           /\ (\A i \in 1 .. 3 : Value(Core(a)[i]) = Value(Core(b)[i]))
                 <=> Rows(Numbers)[Core(a)][Core(b)] = 0
<1> DEFINE s == Core(a)
           t == Core(b)
<1>1. /\ s \in Seq(Str) /\ Len(s) = 3 /\ DOMAIN s = 1 .. 3
      /\ t \in Seq(Str) /\ Len(t) = 3 /\ DOMAIN t = 1 .. 3
      /\ \A i \in 1 .. 3 : s[i] \in Str /\ IsNumeric(s[i]) /\ t[i] \in Str /\ IsNumeric(t[i])
    BY CoreIs, LenProperties
<1> HIDE DEF s, t
<1>2. ASSUME NEW i \in 1 .. 3
      PROVE  /\ Numbers[s[i]][t[i]] = PreFields[s[i]][t[i]]
             /\ Numbers[s[i]][t[i]] = 0 <=> Value(s[i]) = Value(t[i])
    <2>1. PreFields[s[i]][t[i]] = Numbers[s[i]][t[i]]
        BY <1>1, ComparePrereleaseFieldIs DEF PreFields
    <2>2. s[i] \in DigitStr /\ t[i] \in DigitStr
        BY <1>1, NumericIs
    <2>3. Numbers[s[i]][t[i]] = CompareInt(Value(s[i]), Value(t[i]))
        BY <2>2, NumbersByValue
    <2>4. Value(s[i]) \in Nat /\ Value(t[i]) \in Nat
        BY <2>2, ValueType
    <2> QED
        BY <2>1, <2>3, <2>4, CompareIntIs
<1>3. /\ Rows(Numbers)[s][t] = Lex(Numbers, s, t)
      /\ Rows(PreFields)[s][t] = Lex(PreFields, s, t)
    BY <1>1 DEF Rows, LexOn
<1>4. Below(Numbers, s, t) <=> Below(PreFields, s, t)
    <2>1. \A i \in 1 .. 3 : \A j \in 1 .. i - 1 : j \in 1 .. 3
        OBVIOUS
    <2> QED
        BY <1>1, <1>2, <2>1 DEF Below
<1>5. FieldsBelow(s, t) <=> Rows(Numbers)[s][t] = -1
    <2>1. Lex(Numbers, s, t) = -1 <=> Below(Numbers, s, t)
        BY <1>1, LexBelow
    <2>2. Lex(PreFields, s, t) = -1 <=> Below(PreFields, s, t)
        BY <1>1, LexBelow
    <2>3. FieldsBelow(s, t) <=> Rows(PreFields)[s][t] = -1
        BY <1>1, FieldsBelowIs
    <2> QED
        BY <1>3, <1>4, <2>1, <2>2, <2>3
<1>6. (\A i \in 1 .. 3 : Value(s[i]) = Value(t[i])) <=> Rows(Numbers)[s][t] = 0
    <2>1. Lex(Numbers, s, t) = 0 <=>
             Len(s) = Len(t) /\ \A i \in 1 .. Len(s) : Numbers[s[i]][t[i]] = 0
        <3>1. s \in Seq(Str) /\ t \in Seq(Str)
            BY <1>1
        <3> QED
            BY <3>1, LexSame
    <2> QED
        BY <1>1, <1>2, <1>3, <2>1
<1> QED
    BY <1>5, <1>6 DEF s, t

LEMMA PrecedesIs ==
    ASSUME NEW a \in Candidates, NEW b \in Candidates
    PROVE  Precedes(a, b) <=> CompareVersions[a][b] = -1
<1> DEFINE core == Rows(Numbers)[Core(a)][Core(b)]
           pre == Pres[Pre(a)][Pre(b)]
           fields == Rows(PreFields)[Fields(Pre(a))][Fields(Pre(b))]
<1>1. CompareVersions[a][b] = IF core # 0 THEN core ELSE pre
    BY CompareVersionsIs
<1>2. pre = IF Pre(a) = Empty THEN IF Pre(b) = Empty THEN 0 ELSE 1
            ELSE IF Pre(b) = Empty THEN -1 ELSE fields
    BY PartsOfVersions, ComparePrereleaseIs DEF Pres
<1>3. FieldsBelow(Fields(Pre(a)), Fields(Pre(b))) <=> fields = -1
    BY PartsOfVersions, FieldsAre, FieldsBelowIs
<1>4. /\ FieldsBelow(Core(a), Core(b)) <=> core = -1
      /\ (\A i \in 1 .. 3 : Value(Core(a)[i]) = Value(Core(b)[i])) <=> core = 0
    BY CoresBelow
<1> HIDE DEF core, pre, fields
<1>5. pre = -1 <=> \/ Pre(a) # Empty /\ Pre(b) = Empty
                   \/ /\ Pre(a) # Empty /\ Pre(b) # Empty
                      /\ FieldsBelow(Fields(Pre(a)), Fields(Pre(b)))
    BY <1>2, <1>3
<1> QED
    BY <1>1, <1>4, <1>5 DEF Precedes

-----------------------------------------------------------------------------
(* The lists of a plugin.json.                                             *)

\* What every step keeps: the latest version is the one the last pass found.
Kept ==
    /\ listing \in Seq(Candidates) /\ Len(listing) <= MaxListed
    /\ blocked \subseteq ToSet(listing)
    /\ latest = LatestInstallableVersion(listing, blocked)

LEMMA ToSetIs ==
    ASSUME NEW list \in Seq(Candidates)
    PROVE  /\ Len(list) \in Nat /\ ToSet(list) \subseteq Candidates
           /\ ToSet(list) = {list[i] : i \in 1 .. Len(list)}
BY LenProperties DEF ToSet

LEMMA ToSetOfAppend ==
    ASSUME NEW list \in Seq(Candidates), NEW v \in Candidates
    PROVE  ToSet(list) \subseteq ToSet(Append(list, v))
<1>1. /\ Append(list, v) \in Seq(Candidates)
      /\ Len(Append(list, v)) = Len(list) + 1
      /\ \A i \in 1 .. Len(list) : Append(list, v)[i] = list[i]
    BY AppendProperties
<1>2. \A i \in 1 .. Len(list) : i \in 1 .. Len(Append(list, v))
    BY <1>1, ToSetIs
<1>3. /\ ToSet(list) = {list[i] : i \in 1 .. Len(list)}
      /\ ToSet(Append(list, v)) = {Append(list, v)[i] : i \in 1 .. Len(Append(list, v))}
    BY <1>1, ToSetIs
<1> QED
    BY <1>1, <1>2, <1>3

LEMMA LatestIsFound ==
    ASSUME NEW list \in Seq(Candidates), NEW withheld
    PROVE  LET top == LatestInstallableVersion(list, withheld)
           IN  IF ToSet(list) \ withheld = {} THEN top = Empty
               ELSE /\ top \in ToSet(list) \ withheld
                    /\ \A w \in ToSet(list) \ withheld : CompareVersions[w][top] <= 0
<1>1. ToSet(list) \ withheld = InstallableUpTo(list, withheld, Len(list))
    BY ToSetIs DEF InstallableUpTo
<1> QED
    BY <1>1, LatestIs DEF IsTop

LEMMA KeptImpliesTypeOK == Kept => TypeOK
<1> SUFFICES ASSUME Kept PROVE TypeOK
    OBVIOUS
<1>1. listing \in BoundedSeq(Candidates, MaxListed)
    <2>1. /\ Len(listing) \in Nat /\ Len(listing) <= MaxListed
          /\ listing \in [1 .. Len(listing) -> Candidates]
        BY LenProperties DEF Kept
    <2>2. Len(listing) \in 0 .. MaxListed
        BY <2>1, CandidatesAssumption
    <2> QED
        BY <2>1, <2>2 DEF BoundedSeq, SeqOf
<1>2. latest \in Candidates \cup {Empty}
    BY LatestIsFound, ToSetIs DEF Kept
<1> QED
    BY <1>1, <1>2 DEF Kept, TypeOK

LEMMA KeptIsInvariant == Spec => []Kept
<1>1. Init => Kept
    <2> SUFFICES ASSUME Init PROVE Kept
        OBVIOUS
    <2>1. listing \in Seq(Candidates) /\ Len(listing) = 0 /\ blocked = {} /\ latest = Empty
        BY EmptySeq DEF Init
    <2>2. ToSet(listing) = {}
        <3>1. ToSet(listing) = {listing[i] : i \in 1 .. Len(listing)}
            BY <2>1, ToSetIs
        <3>2. 1 .. Len(listing) = {}
            BY <2>1
        <3> QED
            BY <3>1, <3>2
    <2>3. latest = LatestInstallableVersion(listing, blocked)
        BY <2>1, <2>2, LatestIsFound
    <2> QED
        BY <2>1, <2>3, CandidatesAssumption DEF Kept
<1>2. Kept /\ [Next]_vars => Kept'
    <2> SUFFICES ASSUME Kept, [Next]_vars PROVE Kept'
        OBVIOUS
    <2>0. Len(listing) \in Nat /\ MaxListed \in Nat
        BY ToSetIs, CandidatesAssumption DEF Kept
    <2>1. ASSUME NEW v \in Candidates, Publish(v) PROVE Kept'
        <3>1. CASE UNCHANGED listing
            BY <2>1, <3>1 DEF Publish, Kept
        <3>2. CASE Len(listing) < MaxListed /\ listing' = Append(listing, v)
            <4>1. /\ listing' \in Seq(Candidates)
                  /\ Len(listing') = Len(listing) + 1
                  /\ ToSet(listing) \subseteq ToSet(listing')
                BY <3>2, AppendProperties, ToSetOfAppend DEF Kept
            <4> QED
                BY <2>0, <2>1, <3>2, <4>1 DEF Publish, Kept
        <3> QED
            BY <2>1, <3>1, <3>2 DEF Publish
    <2>2. ASSUME NEW v \in Candidates, BlockVersion(v) PROVE Kept'
        BY <2>2 DEF BlockVersion, Kept
    <2>3. CASE UNCHANGED vars
        BY <2>3 DEF vars, Kept
    <2> QED
        BY <2>1, <2>2, <2>3 DEF Next
<1> QED
    BY <1>1, <1>2, PTL DEF Spec

\* Publishing and blocking keep plugin.json's lists well formed, for every set of
\* versions that ValidateVersion lets through.
THEOREM TypeCorrect == Spec => []TypeOK
BY KeptIsInvariant, KeptImpliesTypeOK, PTL

\* CompareVersions orders any three versions a plugin lists, whatever the length
\* of their numbers, their fields and their build metadata.
THEOREM OrderTotal == Spec => []OrderIsTotal
<1>1. Kept => OrderIsTotal
    <2> SUFFICES ASSUME Kept, NEW a \in ToSet(listing), NEW b \in ToSet(listing),
                        NEW c \in ToSet(listing)
                 PROVE  /\ CompareVersions[a][b] = -CompareVersions[b][a]
                        /\ CompareVersions[a][b] <= 0 /\ CompareVersions[b][c] <= 0
                              => /\ CompareVersions[a][c] <= 0
                                 /\ CompareVersions[a][c] = 0 => CompareVersions[a][b] = 0
        BY DEF OrderIsTotal
    <2>1. a \in Candidates /\ b \in Candidates /\ c \in Candidates
        BY ToSetIs DEF Kept
    <2> QED
        BY <2>1, VersionsAreOrdered DEF IsOrder
<1> QED
    BY <1>1, KeptIsInvariant, PTL

\* CompareVersions is the precedence of Semantic Versioning 2.0.0, for any two
\* versions: comparing digit strings is comparing the numbers they denote.
THEOREM OrderSemVer == Spec => []OrderIsSemVer
<1>1. Kept => OrderIsSemVer
    <2> SUFFICES ASSUME Kept, NEW a \in ToSet(listing), NEW b \in ToSet(listing)
                 PROVE  CompareVersions[a][b] = IF SemVerBelow[a][b] THEN -1
                                                ELSE IF SemVerBelow[b][a] THEN 1 ELSE 0
        BY DEF OrderIsSemVer
    <2>1. a \in Candidates /\ b \in Candidates
        BY ToSetIs DEF Kept
    <2>2. /\ SemVerBelow[a][b] <=> CompareVersions[a][b] = -1
          /\ SemVerBelow[b][a] <=> CompareVersions[b][a] = -1
        BY <2>1, PrecedesIs DEF SemVerBelow
    <2>3. /\ CompareVersions[a][b] \in {-1, 0, 1}
          /\ CompareVersions[b][a] = -1 <=> CompareVersions[a][b] = 1
        BY <2>1, VersionsAreOrdered, OrderValues
    <2> QED
        BY <2>2, <2>3
<1> QED
    BY <1>1, KeptIsInvariant, PTL

\* The pass of LatestInstallableVersion finds a version that nothing installable
\* is above, however the versions were uploaded and blocked.
THEOREM LatestHighest == Spec => []LatestIsHighest
<1>1. Kept => LatestIsHighest
    <2> SUFFICES ASSUME Kept PROVE LatestIsHighest
        OBVIOUS
    <2>1. IF Installable = {} THEN latest = Empty
          ELSE /\ latest \in Installable
               /\ \A w \in Installable : CompareVersions[w][latest] <= 0
        BY LatestIsFound DEF Kept, Installable
    <2>2. Installable \subseteq Candidates
        BY ToSetIs DEF Kept, Installable
    <2>3. ASSUME latest \in Installable, NEW w \in Installable,
                 CompareVersions[w][latest] <= 0
          PROVE  ~SemVerBelow[latest][w]
        <3>1. latest \in Candidates /\ w \in Candidates
            BY <2>2, <2>3
        <3>2. CompareVersions[latest][w] # -1
            BY <2>3, <3>1, VersionsAreOrdered, OrderValues
        <3> QED
            BY <3>1, <3>2, PrecedesIs DEF SemVerBelow
    <2> QED
        BY <2>1, <2>3 DEF LatestIsHighest
<1> QED
    BY <1>1, KeptIsInvariant, PTL
=============================================================================
