--------------------------- MODULE TextRulesProofs ---------------------------
(***************************************************************************)
(* What the rules for texts compute, for texts of any length: the first    *)
(* matches that do not overlap are as many as there can be, replacen       *)
(* replaces just them, and truncate_to cuts at the last boundary that fits. *)
(* Their recursive functions exist, and what holds of them holds by        *)
(* induction: both are consequences of the least element of a set of       *)
(* numbers.                                                                *)
(***************************************************************************)
EXTENDS TextRules, Integers, FiniteSetTheorems, WellFoundedInduction, TLAPS

-------------------------------------------------------------------------------
(* Induction and recursion on the numbers up to N. *)

\* A set of numbers has a least element.
LEMMA LeastNumber ==
    ASSUME NEW T \in SUBSET Nat, T # {}
    PROVE  \E x \in T : \A y \in T : x <= y
<1> DEFINE R == {ss \in Nat \X Nat : ss[1] < ss[2]}
<1>1. IsWellFoundedOn(R, Nat)
    BY NatLessThanWellFounded DEF OpToRel
<1> HIDE DEF R
<1>2. \E x \in T : \A y \in T : ~(<<y, x>> \in R)
    BY <1>1, WFMin
<1>3. \A x, y \in Nat : ~(<<y, x>> \in R) => x <= y
    BY DEF R
<1> QED
    BY <1>2, <1>3

\* T has all numbers up to N if it has each one whose predecessors it has.
LEMMA Below ==
    ASSUME NEW N \in Nat, NEW T,
           \A i \in 0..N : (\A j \in 0..(i - 1) : j \in T) => i \in T
    PROVE  0..N \subseteq T
<1> DEFINE Missing == (0..N) \ T
<1>1. SUFFICES ASSUME Missing # {} PROVE FALSE
    OBVIOUS
<1>2. Missing \in SUBSET Nat
    OBVIOUS
<1> HIDE DEF Missing
<1>3. PICK x \in Missing : \A y \in Missing : x <= y
    BY <1>1, <1>2, LeastNumber
<1>4. \A j \in 0..(x - 1) : j \in T
    BY <1>3 DEF Missing
<1> QED
    BY <1>3, <1>4 DEF Missing

\* T has all numbers up to N if it has 0 and, with each one, the next.
LEMMA Upward ==
    ASSUME NEW N \in Nat, NEW T, 0 \in T, \A i \in 1..N : i - 1 \in T => i \in T
    PROVE  0..N \subseteq T
<1>1. \A i \in 0..N : (\A j \in 0..(i - 1) : j \in T) => i \in T
    OBVIOUS
<1> QED
    BY <1>1, Below

\* A function to S may be defined by its value at 0 and the steps G.
Steps(N, S, G) == G \in [1..N -> [S -> S]]
Iterates(f, N, S, a, G) ==
    f \in [0..N -> S] /\ f[0] = a /\ \A i \in 1..N : f[i] = G[i][f[i - 1]]

LEMMA Recursion ==
    ASSUME NEW N \in Nat, NEW S, NEW a \in S, NEW G, Steps(N, S, G)
    PROVE  \E f : Iterates(f, N, S, a, G)
<1> USE DEF Steps, Iterates
<1> DEFINE Fits(f, k) == f[0] = a /\ \A i \in 1..k : f[i] = G[i][f[i - 1]]
           T == {k \in 0..N : \E f \in [0..k -> S] : Fits(f, k)}
<1>1. 0 \in T
    <2> DEFINE f == [i \in 0..0 |-> a]
    <2>1. f \in [0..0 -> S] /\ Fits(f, 0)
        OBVIOUS
    <2> HIDE DEF f
    <2> QED
        BY <2>1
<1>2. ASSUME NEW k \in 1..N, k - 1 \in T PROVE k \in T
    <2>1. PICK f \in [0..(k - 1) -> S] : Fits(f, k - 1)
        BY <1>2
    <2> DEFINE g == [i \in 0..k |-> IF i = k THEN G[k][f[k - 1]] ELSE f[i]]
    <2>2. f[k - 1] \in S
        BY <2>1
    <2>3. g \in [0..k -> S]
        BY <2>1, <2>2
    <2>4. g[0] = a
        BY <2>1
    <2>5. \A i \in 1..k : g[i] = G[i][g[i - 1]]
        BY <2>1
    <2> HIDE DEF g
    <2> QED
        BY <2>3, <2>4, <2>5
<1>3. \A k \in 1..N : k - 1 \in T => k \in T
    BY <1>2
<1> HIDE DEF T
<1>4. 0..N \subseteq T
    BY <1>1, <1>3, Upward
<1>5. N \in T
    BY <1>4
<1> QED
    BY <1>5 DEF T

-------------------------------------------------------------------------------
(* The matches found. *)

\* MatchesUpTo is the function it is written as.
LEMMA FoundExists ==
    ASSUME NEW s, NEW find, NEW n, Len(s) \in Nat
    PROVE  /\ MatchesUpTo(s, find, n) \in [0..(Len(s) + 1) -> SUBSET (1..(Len(s) + 1))]
           /\ MatchesUpTo(s, find, n)[0] = {}
           /\ \A i \in 1..(Len(s) + 1) : MatchesUpTo(s, find, n)[i] =
                  MatchesUpTo(s, find, n)[i - 1]
                      \cup {j \in {i} : Begins(s, find, n, MatchesUpTo(s, find, n)[i - 1], j)}
<1> DEFINE N == Len(s) + 1
           S == SUBSET (1..N)
           none == {}
           G == [i \in 1..N |-> [x \in S |-> x \cup {j \in {i} : Begins(s, find, n, x, j)}]]
           F == MatchesUpTo(s, find, n)
           Is(f) == f = [i \in 0..N |-> IF i = 0 THEN {}
                          ELSE f[i - 1] \cup {j \in {i} : Begins(s, find, n, f[i - 1], j)}]
<1>1. N \in Nat /\ none \in S
    OBVIOUS
<1>2. Steps(N, S, G)
    BY DEF Steps
<1>3. \A i \in 1..N, x \in S : G[i][x] = x \cup {j \in {i} : Begins(s, find, n, x, j)}
    OBVIOUS
<1>4. F = CHOOSE f : Is(f)
    BY DEF MatchesUpTo
<1> HIDE DEF N, S, G, F, none
<1>5. PICK f : f \in [0..N -> S] /\ f[0] = none /\ \A i \in 1..N : f[i] = G[i][f[i - 1]]
    BY <1>1, <1>2, Recursion DEF Iterates
<1>6. \A i \in 0..N : i = 0 \/ f[i] = f[i - 1] \cup {j \in {i} : Begins(s, find, n, f[i - 1], j)}
    <2> SUFFICES ASSUME NEW i \in 0..N, i # 0
                 PROVE  f[i] = f[i - 1] \cup {j \in {i} : Begins(s, find, n, f[i - 1], j)}
        OBVIOUS
    <2>1. i \in 1..N /\ i - 1 \in 0..N
        BY <1>1
    <2>2. f[i] = G[i][f[i - 1]]
        BY <1>5, <2>1
    <2> QED
        BY <1>3, <1>5, <2>1, <2>2
<1>7. f = [i \in 0..N |-> f[i]]
    BY <1>5
<1>8. f[0] = {}
    BY <1>5 DEF none
<1>9. Is(f)
    BY <1>6, <1>7, <1>8
<1>10. Is(F)
    BY <1>4, <1>9
<1> HIDE DEF Is
<1>11. F = [i \in 0..N |-> IF i = 0 THEN {}
                ELSE F[i - 1] \cup {j \in {i} : Begins(s, find, n, F[i - 1], j)}]
    BY <1>10 DEF Is
<1>12. /\ DOMAIN F = 0..N /\ F[0] = {} /\ F = [i \in 0..N |-> F[i]]
       /\ \A i \in 1..N : F[i] = F[i - 1] \cup {j \in {i} : Begins(s, find, n, F[i - 1], j)}
    <2>1. F = [i \in 0..N |-> F[i]]
        BY <1>11
    <2>2. 0 \in 0..N /\ \A i \in 1..N : i \in 0..N /\ i # 0
        BY <1>1
    <2>3. F[0] = {}
        BY <1>11, <2>2
    <2>4. \A i \in 1..N : F[i] = F[i - 1] \cup {j \in {i} : Begins(s, find, n, F[i - 1], j)}
        BY <1>11, <2>2
    <2> QED
        BY <2>1, <2>3, <2>4
<1> DEFINE T == {i \in 0..N : F[i] \in S}
<1>13. 0..N \subseteq T
    <2>1. 0 \in T
        BY <1>1, <1>12 DEF none
    <2>2. \A i \in 1..N : i - 1 \in T => i \in T
        <3> SUFFICES ASSUME NEW i \in 1..N, F[i - 1] \in SUBSET (1..N)
                     PROVE  F[i] \in SUBSET (1..N)
            BY <1>1 DEF S
        <3>1. F[i] = F[i - 1] \cup {j \in {i} : Begins(s, find, n, F[i - 1], j)}
            BY <1>12
        <3> QED
            BY <3>1
    <2> HIDE DEF T
    <2> QED
        BY <1>1, <2>1, <2>2, Upward
<1>14. F \in [0..N -> S]
    BY <1>12, <1>13
<1> QED
    BY <1>12, <1>14 DEF N, S, F

\* What has been found up to i: matches up to i, none inside another, at most n;
\* and one more than before exactly if one begins at i.
Found(s, find, n, F, i) ==
    /\ F[i] \in SUBSET (1..i) /\ IsFiniteSet(F[i])
    /\ \A m \in F[i] : MatchAt(s, find, m)
    /\ \A m, k \in F[i] : m < k => m + Stride(find) <= k
    /\ Cardinality(F[i]) \in Nat /\ Cardinality(F[i]) <= i /\ Cardinality(F[i]) <= n

Goes(s, find, n, F, i) ==
    IF Begins(s, find, n, F[i - 1], i)
    THEN F[i] = F[i - 1] \cup {i} /\ Cardinality(F[i]) = Cardinality(F[i - 1]) + 1
    ELSE F[i] = F[i - 1]

LEMMA FoundStep ==
    ASSUME NEW s, NEW find, NEW n \in Nat, Len(s) \in Nat,
           NEW F, F = MatchesUpTo(s, find, n),
           NEW i \in 1..(Len(s) + 1), Found(s, find, n, F, i - 1)
    PROVE  Found(s, find, n, F, i) /\ Goes(s, find, n, F, i)
<1>1. F[i] = F[i - 1] \cup {j \in {i} : Begins(s, find, n, F[i - 1], j)}
    BY FoundExists
<1>2. i \in Nat /\ i - 1 \in Nat /\ F[i - 1] \in SUBSET (1..(i - 1)) /\ i \notin F[i - 1]
    BY DEF Found
<1>3. CASE Begins(s, find, n, F[i - 1], i)
    <2>1. F[i] = F[i - 1] \cup {i}
        BY <1>1, <1>3
    <2>2. IsFiniteSet(F[i]) /\ Cardinality(F[i]) = Cardinality(F[i - 1]) + 1
        <3>1. IsFiniteSet(F[i - 1])
            BY DEF Found
        <3>2. /\ IsFiniteSet(F[i - 1] \cup {i})
              /\ Cardinality(F[i - 1] \cup {i}) = Cardinality(F[i - 1]) + 1
            BY <1>2, <3>1, FS_AddElement
        <3> QED
            BY <2>1, <3>2
    <2>3. /\ MatchAt(s, find, i) /\ Cardinality(F[i - 1]) < n
          /\ \A m \in F[i - 1] : m + Stride(find) <= i
        BY <1>3 DEF Begins
    <2>4. F[i] \in SUBSET (1..i)
        BY <1>2, <2>1
    <2>5. \A m \in F[i] : MatchAt(s, find, m)
        BY <2>1, <2>3 DEF Found
    <2>6. \A m, k \in F[i] : m < k => m + Stride(find) <= k
        <3> SUFFICES ASSUME NEW m \in F[i], NEW k \in F[i], m < k PROVE m + Stride(find) <= k
            OBVIOUS
        <3>1. m # i
            BY <1>2, <2>4
        <3>2. m \in F[i - 1]
            BY <2>1, <3>1
        <3>3. CASE k = i
            BY <2>3, <3>2, <3>3
        <3>4. CASE k # i
            BY <2>1, <3>2, <3>4 DEF Found
        <3> QED
            BY <3>3, <3>4
    <2>7. Cardinality(F[i]) \in Nat /\ Cardinality(F[i]) <= i /\ Cardinality(F[i]) <= n
        BY <1>2, <2>2, <2>3 DEF Found
    <2> QED
        BY <1>3, <2>1, <2>2, <2>4, <2>5, <2>6, <2>7 DEF Found, Goes
<1>4. CASE ~Begins(s, find, n, F[i - 1], i)
    <2>1. F[i] = F[i - 1]
        BY <1>1, <1>4
    <2>2. F[i] \in SUBSET (1..i) /\ Cardinality(F[i]) <= i
        BY <1>2, <2>1 DEF Found
    <2> QED
        BY <1>4, <2>1, <2>2 DEF Found, Goes
<1> QED
    BY <1>3, <1>4

LEMMA FoundAll ==
    ASSUME NEW s, NEW find, NEW n \in Nat, Len(s) \in Nat,
           NEW F, F = MatchesUpTo(s, find, n)
    PROVE  /\ \A i \in 0..(Len(s) + 1) : Found(s, find, n, F, i)
           /\ \A i \in 1..(Len(s) + 1) : Goes(s, find, n, F, i)
<1> DEFINE N == Len(s) + 1
           T == {i \in 0..N : Found(s, find, n, F, i)}
<1>1. 0 \in T
    <2>1. F[0] = {}
        BY FoundExists
    <2>2. IsFiniteSet(F[0]) /\ Cardinality(F[0]) = 0
        BY <2>1, FS_EmptySet
    <2>3. Found(s, find, n, F, 0)
        BY <2>1, <2>2 DEF Found
    <2> QED
        BY <2>3
<1>2. \A i \in 1..N : i - 1 \in T => i \in T
    BY FoundStep
<1>3. 0..N \subseteq T
    <2>1. N \in Nat
        OBVIOUS
    <2> HIDE DEF T, N
    <2> QED
        BY <1>1, <1>2, <2>1, Upward
<1>4. \A i \in 0..N : Found(s, find, n, F, i)
    BY <1>3
<1>5. \A i \in 1..N : Goes(s, find, n, F, i)
    BY <1>4, FoundStep
<1> QED
    BY <1>4, <1>5

\* What is found stays.
LEMMA FoundGrows ==
    ASSUME NEW s, NEW find, NEW n \in Nat, Len(s) \in Nat,
           NEW F, F = MatchesUpTo(s, find, n),
           NEW k \in 0..(Len(s) + 1), NEW j \in 0..k
    PROVE  F[j] \subseteq F[k]
<1> DEFINE N == Len(s) + 1
           T == {i \in 0..N : \A h \in 0..i : F[h] \subseteq F[i]}
<1>1. 0 \in T
    OBVIOUS
<1>2. ASSUME NEW i \in 1..N, i - 1 \in T PROVE i \in T
    <2>1. F[i - 1] \subseteq F[i]
        BY FoundAll DEF Goes
    <2>2. \A h \in 0..i : h = i \/ F[h] \subseteq F[i - 1]
        BY <1>2
    <2> QED
        BY <2>1, <2>2
<1>3. 0..N \subseteq T
    <2>1. N \in Nat /\ \A i \in 1..N : i - 1 \in T => i \in T
        BY <1>2
    <2> HIDE DEF T, N
    <2> QED
        BY <1>1, <2>1, Upward
<1> QED
    BY <1>3

\* Nothing is found behind what has been looked at.
LEMMA FoundBefore ==
    ASSUME NEW s, NEW find, NEW n \in Nat, Len(s) \in Nat,
           NEW F, F = MatchesUpTo(s, find, n),
           NEW k \in 0..(Len(s) + 1), NEW j \in 0..k
    PROVE  \A m \in F[k] : m <= j => m \in F[j]
<1> DEFINE N == Len(s) + 1
           T == {i \in 0..N : \A h \in 0..i : \A m \in F[i] : m <= h => m \in F[h]}
<1>1. 0 \in T
    OBVIOUS
<1>2. ASSUME NEW i \in 1..N, i - 1 \in T PROVE i \in T
    <2> SUFFICES ASSUME NEW h \in 0..i, NEW m \in F[i], m <= h PROVE m \in F[h]
        OBVIOUS
    <2>1. m \in F[i - 1] \/ m = i
        BY FoundAll DEF Goes
    <2>2. CASE h = i
        BY <2>2
    <2>3. CASE h # i
        <3>1. h \in 0..(i - 1) /\ m \in F[i - 1]
            BY <2>1, <2>3
        <3> QED
            BY <1>2, <3>1
    <2> QED
        BY <2>2, <2>3
<1>3. 0..N \subseteq T
    <2>1. N \in Nat /\ \A i \in 1..N : i - 1 \in T => i \in T
        BY <1>2
    <2> HIDE DEF T, N
    <2> QED
        BY <1>1, <2>1, Upward
<1> QED
    BY <1>3

LEMMA StrideType ==
    ASSUME NEW C, NEW find \in Seq(C)
    PROVE  Stride(find) \in Nat /\ Stride(find) >= 1 /\ Stride(find) >= Len(find)
<1>1. Len(find) \in Nat /\ (find # <<>> => Len(find) >= 1)
    OBVIOUS
<1>2. find = <<>> => Len(find) = 0
    OBVIOUS
<1> QED
    BY <1>1, <1>2 DEF Stride

\* Matches that do not overlap.
Apart(s, find, S) ==
    /\ S \in SUBSET (1..(Len(s) + 1)) /\ \A m \in S : MatchAt(s, find, m)
    /\ \A m, k \in S : m < k => m + Stride(find) <= k

\* Up to any position the matches found are as many as those of any set of
\* matches that do not overlap: of two that overlap, the first is found.
LEMMA FoundLeads ==
    ASSUME NEW C, NEW find \in Seq(C), NEW s, Len(s) \in Nat,
           NEW F, F = MatchesUpTo(s, find, Every(s)),
           NEW S, Apart(s, find, S),
           NEW i \in 0..(Len(s) + 1)
    PROVE  Cardinality(S \cap 1..i) <= Cardinality(F[i])
<1> DEFINE N == Len(s) + 1
           Part(k) == S \cap 1..k
           Leads(k) == Cardinality(Part(k)) <= Cardinality(F[k])
           T == {k \in 0..N : Leads(k)}
<1>1. N \in Nat /\ Every(s) \in Nat /\ Every(s) = N
    BY DEF Every
<1>2. /\ \A k \in 0..N : Found(s, find, N, F, k)
      /\ \A k \in 1..N : Goes(s, find, N, F, k)
    BY <1>1, FoundAll
<1>3. \A k \in 0..N : IsFiniteSet(F[k]) /\ Cardinality(F[k]) \in Nat /\ F[k] \subseteq 1..k
    BY <1>2 DEF Found
<1>4. \A k \in 0..N : IsFiniteSet(Part(k)) /\ Cardinality(Part(k)) \in Nat
    <2> TAKE k \in 0..N
    <2>1. IsFiniteSet(1..k)
        BY FS_Interval
    <2>2. IsFiniteSet(Part(k))
        BY <2>1, FS_Subset
    <2> QED
        BY <2>2, FS_CardinalityType
<1>5. Stride(find) \in Nat /\ Stride(find) >= 1
    BY StrideType
<1> HIDE DEF Part
<1>6. ASSUME NEW k \in 0..N, \A j \in 0..(k - 1) : j \in T PROVE k \in T
    <2>1. CASE k = 0
        <3>1. Part(0) = {}
            BY DEF Part
        <3>2. Cardinality(Part(0)) = 0
            BY <3>1, FS_EmptySet
        <3> QED
            BY <1>1, <1>3, <2>1, <3>2
    <2>2. CASE k # 0 /\ k \notin S
        <3>1. Part(k) = Part(k - 1)
            BY <2>2 DEF Part
        <3>2. k - 1 \in T /\ F[k - 1] \subseteq F[k]
            BY <1>2, <1>6, <2>2 DEF Goes
        <3>3. Cardinality(F[k - 1]) <= Cardinality(F[k])
            BY <1>3, <3>2, FS_Subset
        <3>4. Cardinality(Part(k - 1)) <= Cardinality(F[k - 1])
            BY <3>2
        <3>5. k - 1 \in 0..N
            BY <2>2
        <3>6. /\ Cardinality(Part(k - 1)) \in Nat
              /\ Cardinality(F[k]) \in Nat /\ Cardinality(F[k - 1]) \in Nat
            BY <1>3, <1>4, <3>5
        <3>7. Cardinality(Part(k)) <= Cardinality(F[k])
            BY <3>1, <3>3, <3>4, <3>6
        <3> QED
            BY <3>7
    <2>3. CASE k # 0 /\ k \in S /\ Begins(s, find, N, F[k - 1], k)
        <3>1. Part(k) = Part(k - 1) \cup {k} /\ k \notin Part(k - 1)
            BY <2>3 DEF Part
        <3>2. k - 1 \in 0..N /\ k - 1 \in T /\ Cardinality(F[k]) = Cardinality(F[k - 1]) + 1
            BY <1>2, <1>6, <2>3 DEF Goes
        <3>3. Cardinality(Part(k)) = Cardinality(Part(k - 1)) + 1
            BY <1>4, <3>1, <3>2, FS_AddElement
        <3>4. Cardinality(Part(k - 1)) <= Cardinality(F[k - 1])
            BY <3>2
        <3>5. Cardinality(Part(k - 1)) \in Nat /\ Cardinality(F[k - 1]) \in Nat
            BY <1>3, <1>4, <3>2
        <3>6. Cardinality(Part(k)) <= Cardinality(F[k])
            BY <3>2, <3>3, <3>4, <3>5
        <3> QED
            BY <3>6
    <2>4. CASE k # 0 /\ k \in S /\ ~Begins(s, find, N, F[k - 1], k)
        <3>1. k - 1 \in 0..N /\ F[k] = F[k - 1]
            BY <1>2, <2>4 DEF Goes
        <3>2. MatchAt(s, find, k) /\ Cardinality(F[k - 1]) < N
            <4>1. Cardinality(F[k - 1]) <= k - 1
                BY <1>2, <3>1 DEF Found
            <4>2. Cardinality(F[k - 1]) \in Nat
                BY <1>3, <3>1
            <4> QED
                BY <2>4, <4>1, <4>2 DEF Apart
        <3>3. PICK m \in F[k - 1] : ~(m + Stride(find) <= k)
            BY <2>4, <3>2 DEF Begins
        <3>4. m \in 1..(k - 1)
            BY <1>3, <3>1, <3>3
        <3> DEFINE j == IF k >= Stride(find) THEN k - Stride(find) ELSE 0
        <3>5. j \in 0..(k - 1) /\ j \in 0..N /\ j < m
            BY <1>5, <3>3, <3>4
        <3>6. Part(k) = {k} \cup Part(j)
            <4>1. \A h \in S : h < k => h + Stride(find) <= k
                BY <2>4 DEF Apart
            <4>2. \A h \in S : h \in 1..k => h = k \/ h \in 1..j
                BY <1>5, <4>1
            <4> QED
                BY <2>4, <3>5, <4>2 DEF Part
        <3> HIDE DEF j
        <3>7. Cardinality(Part(k)) <= Cardinality(Part(j)) + 1
            <4>1. IsFiniteSet(Part(j)) /\ Cardinality(Part(j)) \in Nat
                BY <1>4, <3>5
            <4> DEFINE U == Part(j) \cup {k}
            <4>2. U = Part(k)
                BY <3>6
            <4>3. Cardinality(U) = Cardinality(Part(j)) + 1
                <5>1. k \notin Part(j)
                    BY <3>5 DEF Part
                <5> QED
                    BY <4>1, <5>1, FS_AddElement
            <4> HIDE DEF U
            <4> QED
                BY <4>1, <4>2, <4>3
        <3>8. Cardinality(F[j]) + 1 <= Cardinality(F[k])
            <4>1. m \notin F[j] /\ IsFiniteSet(F[j])
                BY <1>3, <3>5
            <4>2. F[j] \subseteq F[k - 1]
                BY <1>1, <3>1, <3>5, FoundGrows
            <4>3. F[j] \cup {m} \in SUBSET F[k]
                BY <3>1, <3>3, <4>2
            <4>4. Cardinality(F[j] \cup {m}) = Cardinality(F[j]) + 1
                BY <4>1, FS_AddElement
            <4>5. Cardinality(F[j] \cup {m}) <= Cardinality(F[k])
                BY <1>3, <4>3, FS_Subset
            <4> QED
                BY <4>4, <4>5
        <3>9. Cardinality(Part(j)) <= Cardinality(F[j])
            BY <1>6, <3>5
        <3> QED
            BY <1>3, <1>4, <3>5, <3>7, <3>8, <3>9
    <2> QED
        BY <2>1, <2>2, <2>3, <2>4
<1>7. 0..N \subseteq T
    <2>1. \A k \in 0..N : (\A j \in 0..(k - 1) : j \in T) => k \in T
        BY <1>6
    <2> HIDE DEF T, N
    <2> QED
        BY <1>1, <2>1, Below
<1> QED
    BY <1>7 DEF Part

\* A limit on the matches only leaves out the last ones.
LEMMA FoundLimited ==
    ASSUME NEW s, NEW find, NEW n \in Nat, Len(s) \in Nat,
           NEW A, A = MatchesUpTo(s, find, Every(s)),
           NEW L, L = MatchesUpTo(s, find, n),
           NEW i \in 0..(Len(s) + 1)
    PROVE  \/ L[i] = A[i] /\ Cardinality(A[i]) <= n
           \/ Cardinality(L[i]) = n /\ Cardinality(A[i]) >= n
<1> DEFINE N == Len(s) + 1
           Limited(k) == \/ L[k] = A[k] /\ Cardinality(A[k]) <= n
                         \/ Cardinality(L[k]) = n /\ Cardinality(A[k]) >= n
           T == {k \in 0..N : Limited(k)}
<1>1. N \in Nat /\ Every(s) \in Nat /\ Every(s) = N
    BY DEF Every
<1>2. /\ \A k \in 0..N : Found(s, find, N, A, k) /\ Found(s, find, n, L, k)
      /\ \A k \in 1..N : Goes(s, find, N, A, k) /\ Goes(s, find, n, L, k)
    BY <1>1, FoundAll
<1>3. \A k \in 0..N : /\ Cardinality(A[k]) \in Nat /\ Cardinality(A[k]) <= k
                      /\ Cardinality(L[k]) \in Nat /\ Cardinality(L[k]) <= n
    BY <1>2 DEF Found
<1>4. 0 \in T
    <2>1. L[0] = {} /\ A[0] = {}
        BY FoundExists
    <2>2. L[0] = A[0] /\ Cardinality(A[0]) = 0
        BY <2>1, FS_EmptySet
    <2> QED
        BY <1>1, <2>2
<1>5. ASSUME NEW k \in 1..N, k - 1 \in T PROVE k \in T
    <2>1. k - 1 \in 0..N /\ Limited(k - 1)
        BY <1>5
    <2>2. /\ Cardinality(A[k]) \in Nat /\ Cardinality(A[k - 1]) \in Nat
          /\ Cardinality(A[k - 1]) < N
          /\ Cardinality(L[k]) \in Nat /\ Cardinality(L[k]) <= n /\ Cardinality(L[k - 1]) \in Nat
        <3>1. k \in 0..N /\ k - 1 \in 0..N /\ k - 1 < N
            BY <1>1
        <3>2. Cardinality(A[k - 1]) <= k - 1 /\ Cardinality(A[k - 1]) \in Nat
            BY <1>3, <3>1
        <3> QED
            BY <1>1, <1>3, <3>1, <3>2
    <2>3. Goes(s, find, N, A, k) /\ Goes(s, find, n, L, k)
        BY <1>2
    <2>4. CASE L[k - 1] = A[k - 1] /\ Cardinality(A[k - 1]) <= n
        <3>1. CASE Cardinality(A[k - 1]) < n
            <4>1. Begins(s, find, N, A[k - 1], k) <=> Begins(s, find, n, L[k - 1], k)
                BY <2>2, <2>4, <3>1 DEF Begins
            <4>2. L[k] = A[k]
                BY <2>3, <2>4, <4>1 DEF Goes
            <4>3. Cardinality(A[k]) <= n
                BY <2>2, <4>2
            <4> QED
                BY <4>2, <4>3
        <3>2. CASE Cardinality(A[k - 1]) = n
            <4>1. ~Begins(s, find, n, L[k - 1], k)
                BY <2>2, <2>4, <3>2 DEF Begins
            <4>2. L[k] = L[k - 1]
                BY <2>3, <4>1 DEF Goes
            <4>3. Cardinality(L[k]) = n
                BY <2>4, <3>2, <4>2
            <4>4. Cardinality(A[k]) >= n
                BY <2>2, <2>3, <3>2 DEF Goes
            <4> QED
                BY <4>3, <4>4
        <3> QED
            BY <2>2, <2>4, <3>1, <3>2
    <2>5. CASE Cardinality(L[k - 1]) = n /\ Cardinality(A[k - 1]) >= n
        <3>1. ~Begins(s, find, n, L[k - 1], k)
            BY <2>2, <2>5 DEF Begins
        <3>2. Cardinality(L[k]) = n
            BY <2>3, <2>5, <3>1 DEF Goes
        <3>3. Cardinality(A[k]) >= n
            BY <2>2, <2>3, <2>5 DEF Goes
        <3> QED
            BY <3>2, <3>3
    <2> QED
        BY <2>1, <2>4, <2>5
<1>6. 0..N \subseteq T
    <2>1. \A k \in 1..N : k - 1 \in T => k \in T
        BY <1>5
    <2> HIDE DEF T, N
    <2> QED
        BY <1>1, <1>4, <2>1, Upward
<1> QED
    BY <1>6

-------------------------------------------------------------------------------
(* The text replaced. *)

LEMMA JoinedType ==
    ASSUME NEW C, NEW a \in Seq(C), NEW b \in Seq(C)
    PROVE  a \o b \in Seq(C) /\ Len(a \o b) = Len(a) + Len(b)
    OBVIOUS

PieceLength(s, find, replace, at, i) ==
    (IF i \in at THEN Len(replace) ELSE 0)
    + (IF i <= Len(s) /\ \A m \in at : i \notin m..(m + Len(find) - 1) THEN 1 ELSE 0)

LEMMA PieceType ==
    ASSUME NEW C, NEW s \in Seq(C), NEW find, NEW replace \in Seq(C), NEW at,
           NEW i \in 1..(Len(s) + 1)
    PROVE  /\ Piece(s, find, replace, at, i) \in Seq(C)
           /\ Len(Piece(s, find, replace, at, i)) = PieceLength(s, find, replace, at, i)
<1> DEFINE p == IF i \in at THEN replace ELSE <<>>
           q == IF i <= Len(s) /\ \A m \in at : i \notin m..(m + Len(find) - 1)
                THEN <<s[i]>> ELSE <<>>
<1>1. p \in Seq(C) /\ Len(p) = IF i \in at THEN Len(replace) ELSE 0
    OBVIOUS
<1>2. q \in Seq(C) /\ Len(q) = IF i <= Len(s) /\ \A m \in at : i \notin m..(m + Len(find) - 1)
                               THEN 1 ELSE 0
    <2>1. i <= Len(s) => s[i] \in C
        OBVIOUS
    <2>2. CASE i <= Len(s) /\ \A m \in at : i \notin m..(m + Len(find) - 1)
        <3>1. q = <<s[i]>>
            BY <2>2
        <3> QED
            BY <2>1, <2>2, <3>1
    <2>3. CASE ~(i <= Len(s) /\ \A m \in at : i \notin m..(m + Len(find) - 1))
        <3>1. q = <<>>
            BY <2>3
        <3> QED
            BY <2>3, <3>1
    <2> QED
        BY <2>2, <2>3
<1>3. Piece(s, find, replace, at, i) = p \o q
    BY DEF Piece
<1> HIDE DEF p, q
<1>4. p \in Seq(C) /\ q \in Seq(C)
    BY <1>1, <1>2
<1>5. p \o q \in Seq(C) /\ Len(p \o q) = Len(p) + Len(q)
    BY <1>4, JoinedType
<1> QED
    BY <1>1, <1>2, <1>3, <1>5 DEF PieceLength

Writes(F, C, s, find, replace, at) ==
    /\ F[0] = <<>>
    /\ \A i \in 0..(Len(s) + 1) : F[i] \in Seq(C)
    /\ \A i \in 1..(Len(s) + 1) : F[i] = F[i - 1] \o Piece(s, find, replace, at, i)

LEMMA WrittenExists ==
    ASSUME NEW C, NEW s \in Seq(C), NEW find, NEW replace \in Seq(C), NEW at,
           NEW F, F = WrittenTo(s, find, replace, at)
    PROVE  Writes(F, C, s, find, replace, at)
<1> DEFINE N == Len(s) + 1
           S == Seq(C)
           none == <<>>
           P(i) == Piece(s, find, replace, at, i)
           G == [i \in 1..N |-> [x \in S |-> x \o P(i)]]
           Is(f) == f = [i \in 0..N |-> IF i = 0 THEN <<>> ELSE f[i - 1] \o P(i)]
<1>1. N \in Nat /\ none \in S
    OBVIOUS
<1>2. \A i \in 1..N : P(i) \in S
    BY PieceType
<1>3. F = CHOOSE f : Is(f)
    BY DEF WrittenTo
<1> HIDE DEF P
<1>4. Steps(N, S, G)
    BY <1>2 DEF Steps
<1>5. \A i \in 1..N, x \in S : G[i][x] = x \o P(i)
    OBVIOUS
<1> HIDE DEF N, G, none, S
<1>6. PICK f : f \in [0..N -> S] /\ f[0] = none /\ \A i \in 1..N : f[i] = G[i][f[i - 1]]
    BY <1>1, <1>4, Recursion DEF Iterates
<1>7. \A i \in 0..N : i = 0 \/ f[i] = f[i - 1] \o P(i)
    <2> SUFFICES ASSUME NEW i \in 0..N, i # 0 PROVE f[i] = f[i - 1] \o P(i)
        OBVIOUS
    <2>1. i \in 1..N /\ i - 1 \in 0..N
        BY <1>1
    <2>2. f[i] = G[i][f[i - 1]]
        BY <1>6, <2>1
    <2> QED
        BY <1>5, <1>6, <2>1, <2>2
<1>8. f = [i \in 0..N |-> f[i]]
    BY <1>6
<1>9. f[0] = <<>>
    BY <1>6 DEF none
<1>10. Is(f)
    BY <1>7, <1>8, <1>9
<1>11. Is(F)
    BY <1>3, <1>10
<1> HIDE DEF Is
<1>12. F = [i \in 0..N |-> IF i = 0 THEN <<>> ELSE F[i - 1] \o P(i)]
    BY <1>11 DEF Is
<1>13. 0 \in 0..N /\ \A i \in 1..N : i \in 0..N /\ i # 0
    BY <1>1
<1>14. F[0] = <<>>
    BY <1>12, <1>13
<1>15. \A i \in 1..N : F[i] = F[i - 1] \o P(i)
    BY <1>12, <1>13
<1> DEFINE T == {i \in 0..N : F[i] \in S}
<1>16. 0..N \subseteq T
    <2>1. 0 \in T
        BY <1>1, <1>13, <1>14 DEF none
    <2>2. \A i \in 1..N : i - 1 \in T => i \in T
        <3> SUFFICES ASSUME NEW i \in 1..N, F[i - 1] \in S PROVE F[i] \in S
            BY <1>13
        <3>1. F[i] = F[i - 1] \o P(i) /\ P(i) \in S
            BY <1>2, <1>15
        <3> QED
            BY <3>1 DEF S
    <2> HIDE DEF T
    <2> QED
        BY <1>1, <2>1, <2>2, Upward
<1> QED
    BY <1>14, <1>15, <1>16 DEF N, S, P, Writes

\* Each match makes the text longer by the replacement and shorter by the match:
\* up to i, counting the whole of a match that i is in.
WrittenLength(s, find, replace, F, W, i) ==
    LET at == F[Len(s) + 1]
        count == Cardinality(F[i])
    IN  /\ \A m \in at : m <= i /\ i < m + Len(find) =>
               Len(W[i]) + count * Len(find) = m + Len(find) - 1 + count * Len(replace)
        /\ (\A m \in at : ~(m <= i /\ i < m + Len(find))) =>
               Len(W[i]) + count * Len(find) =
                   (IF i <= Len(s) THEN i ELSE Len(s)) + count * Len(replace)

LEMMA WrittenNext ==
    ASSUME NEW C, NEW s \in Seq(C), NEW find, NEW replace \in Seq(C), NEW at,
           NEW W, W = WrittenTo(s, find, replace, at),
           NEW i \in 1..(Len(s) + 1)
    PROVE  Len(W[i]) = Len(W[i - 1]) + PieceLength(s, find, replace, at, i)
<1> DEFINE p == Piece(s, find, replace, at, i)
<1>1. p \in Seq(C) /\ Len(p) = PieceLength(s, find, replace, at, i)
    BY PieceType
<1>2. Writes(W, C, s, find, replace, at)
    BY WrittenExists
<1>3. W[i] = W[i - 1] \o p
    BY <1>2 DEF Writes
<1>4. W[i - 1] \in Seq(C)
    <2>1. i - 1 \in 0..(Len(s) + 1)
        OBVIOUS
    <2> QED
        BY <1>2, <2>1 DEF Writes
<1> HIDE DEF p
<1>5. Len(W[i - 1] \o p) = Len(W[i - 1]) + Len(p)
    BY <1>1, <1>4, JoinedType
<1> QED
    BY <1>1, <1>3, <1>5

LEMMA NextMultiple ==
    ASSUME NEW k \in Nat, NEW w \in Nat
    PROVE  k * w \in Nat /\ (k + 1) * w = k * w + w
    OBVIOUS

\* The arithmetic of it: x is the length written, a and b the multiples of w and r.
LEMMA LengthGrows ==
    ASSUME NEW N \in Nat, NEW i \in 1..N, NEW w \in Nat, NEW r \in Nat,
           NEW at \in SUBSET (1..N),
           \A m \in at : m + w <= N,
           \A m, k \in at : m < k => m + w <= k,
           NEW x0 \in Nat, NEW a0 \in Nat, NEW b0 \in Nat,
           \A m \in at : m <= i - 1 /\ i - 1 < m + w => x0 + a0 = m + w - 1 + b0,
           (\A m \in at : ~(m <= i - 1 /\ i - 1 < m + w)) => x0 + a0 = i - 1 + b0,
           NEW x1, NEW a1, NEW b1,
           a1 = IF i \in at THEN a0 + w ELSE a0,
           b1 = IF i \in at THEN b0 + r ELSE b0,
           x1 = x0 + (IF i \in at THEN r ELSE 0)
                   + (IF i < N /\ \A m \in at : ~(m <= i /\ i < m + w) THEN 1 ELSE 0)
    PROVE  /\ \A m \in at : m <= i /\ i < m + w => x1 + a1 = m + w - 1 + b1
           /\ (\A m \in at : ~(m <= i /\ i < m + w)) =>
                  x1 + a1 = (IF i < N THEN i ELSE N - 1) + b1
<1>1. CASE i \in at
    <2>1. x0 + a0 = i - 1 + b0
        <3>1. CASE \E m \in at : m <= i - 1 /\ i - 1 < m + w
            <4>1. PICK m \in at : m <= i - 1 /\ i - 1 < m + w
                BY <3>1
            <4>2. i = m + w
                BY <1>1, <4>1
            <4> QED
                BY <4>1, <4>2
        <3> QED
            BY <3>1
    <2>2. \A m \in at : m <= i /\ i < m + w => m = i
        BY <1>1
    <2>3. CASE w = 0
        <3>1. \A m \in at : ~(m <= i /\ i < m + w)
            BY <2>3
        <3> QED
            BY <1>1, <2>1, <2>3, <3>1
    <2>4. CASE w # 0
        <3>1. i <= i /\ i < i + w
            BY <2>4
        <3>2. x1 = x0 + r
            BY <1>1, <3>1
        <3>3. x1 + a1 = i + w - 1 + b1
            BY <1>1, <2>1, <3>2
        <3> QED
            BY <1>1, <2>2, <3>1, <3>3
    <2> QED
        BY <2>3, <2>4
<1>2. CASE i \notin at
    <2>1. ASSUME NEW m \in at, m <= i, i < m + w PROVE x1 + a1 = m + w - 1 + b1
        <3>1. m <= i - 1 /\ i - 1 < m + w
            BY <1>2, <2>1
        <3>2. x1 = x0
            BY <1>2, <2>1
        <3> QED
            BY <1>2, <3>1, <3>2
    <2>2. ASSUME \A m \in at : ~(m <= i /\ i < m + w)
          PROVE  x1 + a1 = (IF i < N THEN i ELSE N - 1) + b1
        <3>1. x0 + a0 = i - 1 + b0
            <4>1. CASE \E m \in at : m <= i - 1 /\ i - 1 < m + w
                <5>1. PICK m \in at : m <= i - 1 /\ i - 1 < m + w
                    BY <4>1
                <5>2. i = m + w
                    BY <2>2, <5>1
                <5> QED
                    BY <5>1, <5>2
            <4> QED
                BY <4>1
        <3> QED
            BY <1>2, <2>2, <3>1
    <2> QED
        BY <2>1, <2>2
<1> QED
    BY <1>1, <1>2

LEMMA WrittenStep ==
    ASSUME NEW C, NEW s \in Seq(C), NEW find \in Seq(C), NEW replace \in Seq(C), NEW n \in Nat,
           NEW F, F = MatchesUpTo(s, find, n),
           NEW W, W = WrittenTo(s, find, replace, F[Len(s) + 1]),
           NEW i \in 1..(Len(s) + 1), WrittenLength(s, find, replace, F, W, i - 1)
    PROVE  WrittenLength(s, find, replace, F, W, i)
<1> DEFINE N == Len(s) + 1
           at == F[N]
           w == Len(find)
           r == Len(replace)
           k0 == Cardinality(F[i - 1])
           k1 == Cardinality(F[i])
           x0 == Len(W[i - 1])
           x1 == Len(W[i])
<1>1. /\ N \in Nat /\ w \in Nat /\ r \in Nat /\ i - 1 \in 0..N /\ i \in 0..N /\ N \in 0..N
      /\ Len(s) = N - 1
    OBVIOUS
<1>2. Found(s, find, n, F, N) /\ Found(s, find, n, F, i - 1) /\ Goes(s, find, n, F, i)
    BY <1>1, FoundAll
<1>3. /\ at \in SUBSET (1..N) /\ k0 \in Nat
      /\ \A m \in at : m + w <= N
      /\ \A m, k \in at : m < k => m + w <= k
    <2>1. \A m \in at : MatchAt(s, find, m)
        BY <1>2 DEF Found
    <2>2. \A m, k \in at : m < k => m + Stride(find) <= k
        BY <1>2 DEF Found
    <2>3. Stride(find) \in Nat /\ Stride(find) >= w
        BY StrideType
    <2>4. at \in SUBSET (1..N) /\ k0 \in Nat
        BY <1>2 DEF Found
    <2>5. \A m \in at : m + w <= N
        BY <2>1 DEF MatchAt
    <2>6. \A m, k \in at : m < k => m + w <= k
        BY <1>1, <2>2, <2>3, <2>4
    <2> QED
        BY <2>4, <2>5, <2>6
<1>4. k1 = IF i \in at THEN k0 + 1 ELSE k0
    <2>1. i \in at <=> i \in F[i]
        BY <1>1, FoundGrows, FoundBefore
    <2>2. i \notin F[i - 1]
        BY <1>2 DEF Found
    <2> QED
        BY <1>2, <2>1, <2>2 DEF Goes
<1>5. \A j \in 0..N : W[j] \in Seq(C)
    <2>1. Writes(W, C, s, find, replace, at)
        BY WrittenExists
    <2> QED
        BY <2>1 DEF Writes
<1>6. x0 \in Nat
    BY <1>1, <1>5
<1>7. x1 = x0 + (IF i \in at THEN r ELSE 0)
               + (IF i < N /\ \A m \in at : ~(m <= i /\ i < m + w) THEN 1 ELSE 0)
    <2>1. x1 = x0 + PieceLength(s, find, replace, at, i)
        BY WrittenNext
    <2>2. (\A m \in at : i \notin m..(m + w - 1)) <=> \A m \in at : ~(m <= i /\ i < m + w)
        BY <1>1, <1>3
    <2>3. i <= Len(s) <=> i < N
        BY <1>1
    <2>4. PieceLength(s, find, replace, at, i) =
              (IF i \in at THEN r ELSE 0)
              + (IF i <= Len(s) /\ \A m \in at : i \notin m..(m + w - 1) THEN 1 ELSE 0)
        BY DEF PieceLength
    <2> DEFINE y == IF i \in at THEN r ELSE 0
               z == IF i < N /\ \A m \in at : ~(m <= i /\ i < m + w) THEN 1 ELSE 0
    <2>5. PieceLength(s, find, replace, at, i) = y + z
        BY <2>2, <2>3, <2>4
    <2>6. y \in Nat /\ z \in Nat
        BY <1>1
    <2> HIDE DEF x0, x1, y, z
    <2>7. x1 = x0 + y + z
        BY <1>6, <2>1, <2>5, <2>6
    <2> QED
        BY <2>7 DEF y, z
<1>8. /\ k0 * w \in Nat /\ k0 * r \in Nat
      /\ k1 * w = IF i \in at THEN k0 * w + w ELSE k0 * w
      /\ k1 * r = IF i \in at THEN k0 * r + r ELSE k0 * r
    <2>1. k0 \in Nat /\ w \in Nat /\ r \in Nat
        BY <1>1, <1>3
    <2> HIDE DEF k0, k1, w, r, at
    <2>2. k0 * w \in Nat /\ (k0 + 1) * w = k0 * w + w /\ k0 * r \in Nat /\ (k0 + 1) * r = k0 * r + r
        BY <2>1, NextMultiple
    <2> QED
        BY <1>4, <2>2
<1> DEFINE a0 == k0 * w
           a1 == k1 * w
           b0 == k0 * r
           b1 == k1 * r
<1>9. /\ \A m \in at : m <= i - 1 /\ i - 1 < m + w => x0 + a0 = m + w - 1 + b0
      /\ (\A m \in at : ~(m <= i - 1 /\ i - 1 < m + w)) => x0 + a0 = i - 1 + b0
    BY <1>1 DEF WrittenLength
<1> SUFFICES
      /\ \A m \in at : m <= i /\ i < m + w => x1 + a1 = m + w - 1 + b1
      /\ (\A m \in at : ~(m <= i /\ i < m + w)) =>
             x1 + a1 = (IF i < N THEN i ELSE N - 1) + b1
    BY <1>1 DEF WrittenLength
<1>10. /\ a0 \in Nat /\ b0 \in Nat
       /\ a1 = IF i \in at THEN a0 + w ELSE a0
       /\ b1 = IF i \in at THEN b0 + r ELSE b0
    BY <1>8
<1> HIDE DEF a0, a1, b0, b1, x0, x1, w, r, k0, k1, at, N
<1> QED
    BY <1>1, <1>3, <1>6, <1>7, <1>9, <1>10, LengthGrows

\* The length of what replacen returns.
LEMMA ReplacenLength ==
    ASSUME NEW C, NEW s \in Seq(C), NEW find \in Seq(C), NEW replace \in Seq(C), NEW n \in Nat
    PROVE  Len(Replacen(s, find, replace, n)) + Cardinality(Matches(s, find, n)) * Len(find)
               = Len(s) + Cardinality(Matches(s, find, n)) * Len(replace)
<1> DEFINE N == Len(s) + 1
           F == MatchesUpTo(s, find, n)
           W == WrittenTo(s, find, replace, F[N])
           T == {i \in 0..N : WrittenLength(s, find, replace, F, W, i)}
<1>1. N \in Nat /\ Len(s) \in Nat /\ Len(find) \in Nat /\ Len(replace) \in Nat
    OBVIOUS
<1>2. \A i \in 0..N : Found(s, find, n, F, i)
    BY FoundAll
<1>3. 0 \in T
    <2>1. F[0] = {} /\ \A m \in F[N] : m > 0
        BY <1>1, <1>2, FoundExists DEF Found
    <2>2. Cardinality(F[0]) = 0
        BY <2>1, FS_EmptySet
    <2>3. W[0] = <<>>
        <3>1. Writes(W, C, s, find, replace, F[N])
            BY WrittenExists
        <3> QED
            BY <3>1 DEF Writes
    <2>4. Len(W[0]) = 0
        BY <2>3
    <2> HIDE DEF F, W
    <2>5. WrittenLength(s, find, replace, F, W, 0)
        <3>1. \A m \in F[N] : ~(m <= 0)
            <4>1. F[N] \in SUBSET (1..N)
                BY <1>1, <1>2 DEF Found
            <4> QED
                BY <1>1, <4>1
        <3>2. 0 * Len(find) = 0 /\ 0 * Len(replace) = 0
            BY <1>1
        <3> QED
            BY <1>1, <2>2, <2>4, <3>1, <3>2 DEF WrittenLength
    <2> QED
        BY <1>1, <2>5
<1>4. \A i \in 1..N : i - 1 \in T => i \in T
    BY WrittenStep
<1> HIDE DEF T, F, W, N
<1>5. N \in T
    <2>1. 0..N \subseteq T
        BY <1>1, <1>3, <1>4, Upward
    <2> QED
        BY <1>1, <2>1
<1>6. WrittenLength(s, find, replace, F, W, N)
    BY <1>5 DEF T
<1>7. \A m \in F[N] : m + Len(find) <= N /\ m \in Nat
    BY <1>1, <1>2 DEF Found, MatchAt, N
<1>8. \A m \in F[N] : ~(m <= N /\ N < m + Len(find))
    BY <1>1, <1>7
<1>9. Len(W[N]) + Cardinality(F[N]) * Len(find) = Len(s) + Cardinality(F[N]) * Len(replace)
    BY <1>1, <1>6, <1>8 DEF WrittenLength, N
<1> QED
    BY <1>9 DEF Replacen, Matches, F, W, N

LEMMA ReplacenType ==
    ASSUME NEW C, NEW s \in Seq(C), NEW find, NEW replace \in Seq(C), NEW n
    PROVE  Replacen(s, find, replace, n) \in Seq(C)
<1> DEFINE W == WrittenTo(s, find, replace, Matches(s, find, n))
<1>1. Writes(W, C, s, find, replace, Matches(s, find, n))
    BY WrittenExists
<1>2. W[Len(s) + 1] \in Seq(C)
    BY <1>1 DEF Writes
<1> QED
    BY <1>2 DEF Replacen

-------------------------------------------------------------------------------
(* The number reported. *)

LEMMA MatchesFound ==
    ASSUME NEW s, NEW find, NEW n \in Nat, Len(s) \in Nat
    PROVE  /\ Apart(s, find, Matches(s, find, n))
           /\ IsFiniteSet(Matches(s, find, n)) /\ Cardinality(Matches(s, find, n)) \in Nat
           /\ Cardinality(Matches(s, find, n)) <= n
<1> DEFINE N == Len(s) + 1
           F == MatchesUpTo(s, find, n)
<1>1. Found(s, find, n, F, N)
    BY FoundAll
<1> QED
    BY <1>1 DEF Found, Apart, Matches

\* str::matches finds as many as there can be.
LEMMA MatchesMost ==
    ASSUME NEW C, NEW find \in Seq(C), NEW s, Len(s) \in Nat, NEW S, Apart(s, find, S)
    PROVE  Cardinality(S) <= Cardinality(Matches(s, find, Every(s)))
<1> DEFINE F == MatchesUpTo(s, find, Every(s))
           N == Len(s) + 1
<1>1. Cardinality(S \cap 1..N) <= Cardinality(F[N])
    BY FoundLeads
<1>2. S \cap 1..N = S
    BY DEF Apart
<1> QED
    BY <1>1, <1>2 DEF Matches

\* The number an edit reports is the number of matches it replaces.
LEMMA ReplacedCounts ==
    ASSUME NEW s, NEW r, Len(s) \in Nat, r.count \in Nat
    PROVE  Replaced(s, r) =
               Cardinality(Matches(s, r.find, IF r.count = 0 THEN Every(s) ELSE r.count))
<1> DEFINE A == MatchesUpTo(s, r.find, Every(s))
           L == MatchesUpTo(s, r.find, r.count)
           N == Len(s) + 1
<1>1. CASE r.count = 0
    BY <1>1 DEF Replaced
<1>2. CASE r.count # 0
    <2>1. \/ L[N] = A[N] /\ Cardinality(A[N]) <= r.count
          \/ Cardinality(L[N]) = r.count /\ Cardinality(A[N]) >= r.count
        BY FoundLimited
    <2>2. Cardinality(A[N]) \in Nat
        BY MatchesFound DEF Matches, Every
    <2>3. Replaced(s, r) = IF Cardinality(A[N]) < r.count THEN Cardinality(A[N]) ELSE r.count
        BY <1>2 DEF Replaced, Matches
    <2>4. Cardinality(L[N]) = IF Cardinality(A[N]) < r.count THEN Cardinality(A[N]) ELSE r.count
        BY <2>1, <2>2
    <2> QED
        BY <1>2, <2>3, <2>4 DEF Matches
<1> QED
    BY <1>1, <1>2

\* "the response reports replacements actually made" (README.md, edit_file), for
\* every text, all strings to find and to replace and every count.
THEOREM EditReportsActual ==
    ASSUME NEW C, NEW s \in Seq(C), NEW r,
           r.find \in Seq(C), r.replace \in Seq(C), r.count \in Nat
    PROVE  ReportsActual(s, r)
<1> DEFINE n == Replaced(s, r)
           some == IF r.count = 0 THEN Every(s) ELSE r.count
           starts == {i \in 1..(Len(s) + 1) : MatchAt(s, r.find, i)}
           apart == {S \in SUBSET starts : \A i, j \in S : i < j => i + Stride(r.find) <= j}
           occurrences == Cardinality(Matches(s, r.find, Every(s)))
<1>1. Len(s) \in Nat /\ Every(s) \in Nat /\ some \in Nat
    BY DEF Every
<1>2. \A S : S \in apart <=> Apart(s, r.find, S)
    BY DEF Apart
<1>3. n = IF r.count = 0 \/ occurrences < r.count THEN occurrences ELSE r.count
    BY DEF Replaced
<1>4. occurrences \in Nat
    BY <1>1, MatchesFound
<1>5. \E S \in apart : Cardinality(S) >= n
    <2>1. Apart(s, r.find, Matches(s, r.find, Every(s)))
        BY <1>1, MatchesFound
    <2>2. occurrences >= n
        BY <1>3, <1>4
    <2> QED
        BY <1>2, <2>1, <2>2
<1>6. n # r.count => \A S \in apart : Cardinality(S) <= n
    <2> SUFFICES ASSUME n # r.count, NEW S \in apart PROVE Cardinality(S) <= n
        OBVIOUS
    <2>1. n = occurrences
        BY <1>3
    <2>2. Apart(s, r.find, S)
        BY <1>2
    <2>3. Cardinality(S) <= occurrences
        BY <1>1, <2>2, MatchesMost
    <2> QED
        BY <2>1, <2>3
<1>7. r.count # 0 => n <= r.count
    BY <1>3, <1>4
<1>8. Len(Edited(s, r)) + n * Len(r.find) = Len(s) + n * Len(r.replace)
    <2>1. n = Cardinality(Matches(s, r.find, some))
        BY <1>1, ReplacedCounts
    <2>2. Edited(s, r) = Replacen(s, r.find, r.replace, some)
        BY DEF Edited
    <2> HIDE DEF n, some
    <2> QED
        BY <1>1, <2>1, <2>2, ReplacenLength
<1> QED
    BY <1>5, <1>6, <1>7, <1>8 DEF ReportsActual

LEMMA EditedType ==
    ASSUME NEW C, NEW s \in Seq(C), NEW r, r.replace \in Seq(C)
    PROVE  Edited(s, r) \in Seq(C)
BY ReplacenType DEF Edited

LEMMA ReplacedType ==
    ASSUME NEW s, NEW r, Len(s) \in Nat, r.count \in Nat
    PROVE  Replaced(s, r) \in Nat
<1>1. Every(s) \in Nat
    BY DEF Every
<1>2. Cardinality(Matches(s, r.find, Every(s))) \in Nat
    BY <1>1, MatchesFound
<1> QED
    BY <1>2 DEF Replaced

-------------------------------------------------------------------------------
(* The cut. *)

\* BytesTo is the function it is written as, and grows with every character.
Sums(F, s, width) ==
    /\ F[0] = 0
    /\ \A i \in 0..Len(s) : F[i] \in Nat
    /\ \A i \in 1..Len(s) : F[i] = F[i - 1] + width[s[i]]

LEMMA BytesExist ==
    ASSUME NEW C, NEW s \in Seq(C), NEW width \in [C -> 1..4],
           NEW F, F = BytesTo(s, width)
    PROVE  Sums(F, s, width)
<1> DEFINE N == Len(s)
           S == Nat
           zero == 0
           B(i) == width[s[i]]
           G == [i \in 1..N |-> [x \in Nat |-> x + B(i)]]
           Is(f) == f = [i \in 0..N |-> IF i = 0 THEN 0 ELSE f[i - 1] + B(i)]
<1>1. N \in Nat /\ zero \in S
    OBVIOUS
<1>2. \A i \in 1..N : B(i) \in Nat
    OBVIOUS
<1>3. F = CHOOSE f : Is(f)
    BY DEF BytesTo
<1> HIDE DEF B
<1>4. Steps(N, S, G)
    BY <1>2 DEF Steps
<1>5. \A i \in 1..N, x \in Nat : G[i][x] = x + B(i)
    OBVIOUS
<1> HIDE DEF N, G, S, zero
<1>6. PICK f : f \in [0..N -> S] /\ f[0] = zero /\ \A i \in 1..N : f[i] = G[i][f[i - 1]]
    <2>1. \E f : Iterates(f, N, S, zero, G)
        BY <1>1, <1>4, Recursion
    <2> QED
        BY <2>1 DEF Iterates
<1>7. \A i \in 0..N : i = 0 \/ f[i] = f[i - 1] + B(i)
    <2> SUFFICES ASSUME NEW i \in 0..N, i # 0 PROVE f[i] = f[i - 1] + B(i)
        OBVIOUS
    <2>1. i \in 1..N /\ i - 1 \in 0..N
        BY <1>1
    <2>2. f[i] = G[i][f[i - 1]]
        BY <1>6, <2>1
    <2> QED
        BY <1>5, <1>6, <2>1, <2>2 DEF S
<1>8. f = [i \in 0..N |-> f[i]]
    BY <1>6
<1>9. f[0] = 0
    BY <1>6 DEF zero
<1>10. Is(f)
    BY <1>7, <1>8, <1>9
<1>11. Is(F)
    BY <1>3, <1>10
<1> HIDE DEF Is
<1>12. F = [i \in 0..N |-> IF i = 0 THEN 0 ELSE F[i - 1] + B(i)]
    BY <1>11 DEF Is
<1>13. 0 \in 0..N /\ \A i \in 1..N : i \in 0..N /\ i # 0
    BY <1>1
<1>14. F[0] = 0
    BY <1>12, <1>13
<1>15. \A i \in 1..N : F[i] = F[i - 1] + B(i)
    BY <1>12, <1>13
<1> DEFINE T == {i \in 0..N : F[i] \in Nat}
<1>16. 0..N \subseteq T
    <2>1. 0 \in T
        BY <1>1, <1>13, <1>14
    <2>2. \A i \in 1..N : i - 1 \in T => i \in T
        BY <1>2, <1>13, <1>15
    <2> HIDE DEF T
    <2> QED
        BY <1>1, <2>1, <2>2, Upward
<1> QED
    BY <1>14, <1>15, <1>16 DEF N, B, Sums

LEMMA BytesGrow ==
    ASSUME NEW C, NEW s \in Seq(C), NEW width \in [C -> 1..4],
           NEW F, F = BytesTo(s, width), NEW k \in 0..Len(s), NEW j \in 0..k, j # k
    PROVE  F[j] < F[k]
<1> DEFINE T == {i \in 0..Len(s) : \A h \in 0..(i - 1) : F[h] < F[i]}
<1>1. Sums(F, s, width)
    BY BytesExist
<1>2. 0 \in T
    OBVIOUS
<1>3. ASSUME NEW i \in 1..Len(s), i - 1 \in T PROVE i \in T
    <2>1. F[i - 1] < F[i] /\ F[i - 1] \in Nat /\ F[i] \in Nat
        <3>1. width[s[i]] \in 1..4 /\ i - 1 \in 0..Len(s)
            OBVIOUS
        <3> QED
            BY <1>1, <3>1 DEF Sums
    <2>2. \A h \in 0..(i - 1) : h = i - 1 \/ F[h] < F[i - 1]
        BY <1>3
    <2>3. \A h \in 0..(i - 1) : F[h] \in Nat
        BY <1>1 DEF Sums
    <2> QED
        BY <2>1, <2>2, <2>3
<1>4. 0..Len(s) \subseteq T
    <2>1. Len(s) \in Nat /\ \A i \in 1..Len(s) : i - 1 \in T => i \in T
        BY <1>3
    <2> HIDE DEF T
    <2> QED
        BY <1>2, <2>1, Upward
<1> QED
    BY <1>4

\* e is the last boundary up to i.
LastBoundary(s, width, i, e) ==
    /\ e \in 0..i /\ IsCharBoundary(s, width, e)
    /\ \A d \in (e + 1)..i : ~IsCharBoundary(s, width, d)

LEMMA EndIsLast ==
    ASSUME NEW C, NEW s \in Seq(C), NEW width \in [C -> 1..4], NEW max \in Nat
    PROVE  LastBoundary(s, width, max, End(s, width, max))
<1> DEFINE S == Nat
           zero == 0
           At(e) == IsCharBoundary(s, width, e)
           G == [i \in 1..max |-> [x \in S |-> IF At(i) THEN i ELSE x]]
           Is(f) == f = [e \in 0..max |-> IF e > 0 /\ ~At(e) THEN f[e - 1] ELSE e]
           F == CHOOSE f : Is(f)
<1>1. zero \in S /\ At(0)
    <2>1. Sums(BytesTo(s, width), s, width)
        BY BytesExist
    <2>2. Len(s) \in Nat
        OBVIOUS
    <2> QED
        BY <2>1, <2>2 DEF Sums, IsCharBoundary
<1>2. End(s, width, max) = F[max]
    BY DEF End
<1> HIDE DEF At
<1>3. Steps(max, S, G)
    BY DEF Steps
<1>4. \A i \in 1..max, x \in S : G[i][x] = IF At(i) THEN i ELSE x
    OBVIOUS
<1> HIDE DEF G, S, zero
<1>5. PICK f : f \in [0..max -> S] /\ f[0] = zero /\ \A i \in 1..max : f[i] = G[i][f[i - 1]]
    <2>1. \E f : Iterates(f, max, S, zero, G)
        BY <1>1, <1>3, Recursion
    <2> QED
        BY <2>1 DEF Iterates
<1>6. \A e \in 0..max : f[e] = IF e > 0 /\ ~At(e) THEN f[e - 1] ELSE e
    <2> SUFFICES ASSUME NEW e \in 0..max PROVE f[e] = IF e > 0 /\ ~At(e) THEN f[e - 1] ELSE e
        OBVIOUS
    <2>1. CASE e = 0
        BY <1>5, <2>1 DEF zero
    <2>2. CASE e # 0
        <3>1. e \in 1..max /\ e - 1 \in 0..max /\ e > 0
            BY <2>2
        <3>2. f[e] = G[e][f[e - 1]] /\ f[e - 1] \in S
            BY <1>5, <3>1
        <3> QED
            BY <1>4, <3>1, <3>2
    <2> QED
        BY <2>1, <2>2
<1>7. f = [e \in 0..max |-> f[e]]
    BY <1>5
<1>8. Is(f)
    BY <1>6, <1>7
<1>9. Is(F)
    BY <1>8
<1> HIDE DEF Is, F
<1>10. F = [e \in 0..max |-> IF e > 0 /\ ~At(e) THEN F[e - 1] ELSE e]
    BY <1>9 DEF Is
<1>11. \A e \in 0..max : F[e] = IF e > 0 /\ ~At(e) THEN F[e - 1] ELSE e
    BY <1>10
<1> DEFINE Good(i) == F[i] \in 0..i /\ At(F[i]) /\ \A d \in (F[i] + 1)..i : ~At(d)
           T == {i \in 0..max : Good(i)}
<1>12. 0 \in T
    <2>1. F[0] = 0
        BY <1>11
    <2> QED
        BY <1>1, <2>1
<1>13. ASSUME NEW i \in 1..max, i - 1 \in T PROVE i \in T
    <2>1. F[i] = IF At(i) THEN i ELSE F[i - 1]
        BY <1>11
    <2>2. Good(i - 1)
        BY <1>13
    <2>3. CASE At(i)
        BY <2>1, <2>3
    <2>4. CASE ~At(i)
        <3>1. F[i] = F[i - 1]
            BY <2>1, <2>4
        <3>2. \A d \in (F[i] + 1)..i : d = i \/ d \in (F[i - 1] + 1)..(i - 1)
            BY <2>2, <3>1
        <3> QED
            BY <2>2, <2>4, <3>1, <3>2
    <2> QED
        BY <2>3, <2>4
<1>14. Good(max)
    <2>1. \A i \in 1..max : i - 1 \in T => i \in T
        BY <1>13
    <2> HIDE DEF T
    <2>2. 0..max \subseteq T
        BY <1>12, <2>1, Upward
    <2> QED
        BY <2>2 DEF T
<1> QED
    BY <1>2, <1>14 DEF LastBoundary, At

\* The characters from the start of a text take as many bytes within it as alone.
LEMMA PrefixBytes ==
    ASSUME NEW C, NEW s \in Seq(C), NEW width \in [C -> 1..4],
           NEW k \in 0..Len(s)
    PROVE  /\ SubSeq(s, 1, k) \in Seq(C) /\ Len(SubSeq(s, 1, k)) = k
           /\ Bytes(SubSeq(s, 1, k), width) = BytesTo(s, width)[k]
<1> DEFINE p == SubSeq(s, 1, k)
           F == BytesTo(s, width)
           H == BytesTo(p, width)
           T == {i \in 0..k : H[i] = F[i]}
<1>1. p \in Seq(C) /\ Len(p) = k /\ k \in Nat /\ \A i \in 1..k : p[i] = s[i]
    OBVIOUS
<1>2. Sums(F, s, width)
    BY BytesExist
<1>3. Sums(H, p, width)
    BY <1>1, BytesExist
<1> HIDE DEF p, F, H
<1>4. 0 \in T
    BY <1>1, <1>2, <1>3 DEF Sums
<1>5. \A i \in 1..k : i - 1 \in T => i \in T
    <2> SUFFICES ASSUME NEW i \in 1..k, H[i - 1] = F[i - 1] PROVE H[i] = F[i]
        BY <1>1
    <2>1. i \in 1..Len(s) /\ i \in 1..Len(p) /\ p[i] = s[i]
        BY <1>1
    <2> QED
        BY <1>2, <1>3, <2>1 DEF Sums
<1>6. H[k] = F[k]
    <2> HIDE DEF T
    <2>1. 0..k \subseteq T
        BY <1>1, <1>4, <1>5, Upward
    <2> QED
        BY <1>1, <2>1 DEF T
<1> QED
    BY <1>1, <1>6 DEF p, F, H, Bytes

\* "Truncate to at most MAX_OUTPUT_BYTES, never splitting a UTF-8 character"
\* (truncate_to), for every text and every limit: the longest run of whole
\* characters that fits, and a flag that says whether something is missing.
THEOREM CutIsClean ==
    ASSUME NEW C, NEW s \in Seq(C), NEW width \in [C -> 1..4], NEW max \in Nat
    PROVE  CutsCleanly(s, width, max)
<1> DEFINE F == BytesTo(s, width)
           e == End(s, width, max)
           cut == TruncateTo(s, width, max)
<1>1. Sums(F, s, width) /\ Len(s) \in Nat /\ F[Len(s)] = Bytes(s, width)
    BY BytesExist DEF Bytes
<1>2. \A k \in 0..Len(s) : \A j \in 0..k : j # k => F[j] < F[k]
    BY BytesGrow
<1>3. \A k \in 0..Len(s) : /\ Len(SubSeq(s, 1, k)) = k
                           /\ Bytes(SubSeq(s, 1, k), width) = F[k]
    BY PrefixBytes
<1>4. PICK k \in 0..Len(s) :
          /\ cut = SubSeq(s, 1, k) /\ F[k] <= max
          /\ \A j \in 0..Len(s) : F[j] <= max => j <= k
          /\ F[Len(s)] > max <=> k # Len(s)
    <2>1. CASE Bytes(s, width) <= max
        <3>1. cut = s /\ SubSeq(s, 1, Len(s)) = s
            BY <2>1 DEF TruncateTo
        <3>2. F[Len(s)] <= max /\ F[Len(s)] \in Nat
            BY <1>1, <2>1 DEF Sums
        <3>3. ~(F[Len(s)] > max) /\ \A j \in 0..Len(s) : j <= Len(s)
            BY <1>1, <3>2
        <3>4. Len(s) \in 0..Len(s)
            BY <1>1
        <3> HIDE DEF cut, F
        <3> WITNESS Len(s) \in 0..Len(s)
        <3> QED
            BY <3>1, <3>2, <3>3
    <2>2. CASE ~(Bytes(s, width) <= max)
        <3>1. LastBoundary(s, width, max, e)
            BY EndIsLast
        <3>2. \E k \in 0..Len(s) : F[k] = e
            BY <3>1 DEF LastBoundary, IsCharBoundary
        <3>3. PICK k \in 0..Len(s) : F[k] = e /\ cut = SubSeq(s, 1, k)
            <4> DEFINE k == CHOOSE k \in 0..Len(s) : F[k] = e
            <4>1. k \in 0..Len(s) /\ F[k] = e
                BY <3>2
            <4>2. cut = SubSeq(s, 1, k)
                BY <2>2 DEF TruncateTo
            <4> QED
                BY <4>1, <4>2
        <3>4. e \in 0..max
            BY <3>1 DEF LastBoundary
        <3>5. ASSUME NEW j \in 0..Len(s), F[j] <= max PROVE j <= k
            <4>1. CASE j > k
                <5>1. F[k] < F[j] /\ F[j] \in Nat
                    BY <1>1, <1>2, <4>1 DEF Sums
                <5>2. F[j] \in (e + 1)..max
                    BY <3>3, <3>4, <3>5, <5>1
                <5>3. IsCharBoundary(s, width, F[j])
                    BY DEF IsCharBoundary
                <5> QED
                    BY <3>1, <5>2, <5>3 DEF LastBoundary
            <4> QED
                BY <4>1
        <3>6. k # Len(s) /\ F[Len(s)] > max
            BY <1>1, <2>2, <3>3, <3>4 DEF Sums
        <3> QED
            BY <3>3, <3>4, <3>5, <3>6
    <2> QED
        BY <2>1, <2>2
<1> HIDE DEF cut
<1>5. cut \in Prefixes(s) /\ Bytes(cut, width) <= max /\ Len(cut) = k
    BY <1>3, <1>4 DEF Prefixes
<1>6. \A p \in Prefixes(s) : Bytes(p, width) <= max => Len(p) <= Len(cut)
    BY <1>3, <1>4, <1>5 DEF Prefixes
<1>7. Truncated(s, width, max) <=> cut # s
    <2>1. k = Len(s) => cut = s
        BY <1>4
    <2>2. k # Len(s) => cut # s
        BY <1>5
    <2> QED
        BY <1>1, <1>4, <2>1, <2>2 DEF Truncated
<1> QED
    BY <1>5, <1>6, <1>7 DEF CutsCleanly, cut
===============================================================================
