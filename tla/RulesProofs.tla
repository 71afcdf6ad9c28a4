----------------------------- MODULE RulesProofs -----------------------------
(***************************************************************************)
(* What the rules for paths and for texts do, for all file systems, paths  *)
(* and texts.                                                              *)
(***************************************************************************)
EXTENDS Workspace, TextQuestions, TextRulesProofs, SequenceTheorems

-------------------------------------------------------------------------------
(* The walk of the kernel, step by step. *)

Walks == [at : Locations, rest : Locations, own : Nat]

LEMMA NodeType ==
    ASSUME NEW fs \in Trees, NEW at
    PROVE  Node(fs, at) \in Nodes
BY WorkspaceAssumption DEF Node, Nodes

LEMMA Kinds ==
    ASSUME NEW node \in Nodes
    PROVE  /\ node.kind \in {"absent", "file", "dir", "link"}
           /\ node.kind = "link" => node.to \in Locations
BY DEF Nodes

LEMMA ParentType ==
    ASSUME NEW at \in Locations
    PROVE  /\ Parent(at) \in Locations
           /\ at # <<>> => /\ Len(at) \in Nat \ {0} /\ Len(Parent(at)) = Len(at) - 1
                           /\ \A i \in 1..(Len(at) - 1) : Parent(at)[i] = at[i]
<1>1. CASE at = <<>>
    BY <1>1 DEF Parent
<1>2. CASE at # <<>>
    <2>1. Len(at) \in Nat \ {0}
        BY <1>2, EmptySeq DEF Locations
    <2>2. \A i \in 1..(Len(at) - 1) : at[i] \in STRING
        BY <2>1, ElementOfSeq DEF Locations
    <2>3. /\ SubSeq(at, 1, Len(at) - 1) \in Seq(STRING)
          /\ Len(SubSeq(at, 1, Len(at) - 1)) = IF 1 <= Len(at) - 1 THEN Len(at) - 1 - 1 + 1 ELSE 0
          /\ \A i \in 1..(Len(at) - 1 - 1 + 1) : SubSeq(at, 1, Len(at) - 1)[i] = at[1 + i - 1]
        BY <2>1, <2>2, SubSeqProperties
    <2>4. Parent(at) = SubSeq(at, 1, Len(at) - 1)
        BY <1>2 DEF Parent, Front
    <2>5. Len(Parent(at)) = Len(at) - 1
        <3> DEFINE n == Len(at)
        <3>1. n \in Nat \ {0} /\ Len(Parent(at)) = IF 1 <= n - 1 THEN n - 1 - 1 + 1 ELSE 0
            BY <2>1, <2>3, <2>4
        <3> HIDE DEF n
        <3>2. Len(Parent(at)) = n - 1
            BY <3>1
        <3> QED
            BY <3>2 DEF n
    <2>6. \A i \in 1..(Len(at) - 1) : Parent(at)[i] = at[i]
        <3> TAKE i \in 1..(Len(at) - 1)
        <3>1. i \in 1..(Len(at) - 1 - 1 + 1) /\ 1 + i - 1 = i
            BY <2>1
        <3> QED
            BY <2>3, <2>4, <3>1
    <2>7. Parent(at) \in Locations
        BY <2>3, <2>4 DEF Locations
    <2> QED
        BY <1>2, <2>1, <2>5, <2>6, <2>7
<1> QED
    BY <1>1, <1>2

\* What a walk takes from the front of its path.
LEMMA RestType ==
    ASSUME NEW w \in Walks, w.rest # <<>>
    PROVE  /\ Name(w) \in STRING /\ Tail(w.rest) \in Locations
           /\ Len(w.rest) \in Nat \ {0} /\ Len(Tail(w.rest)) = Len(w.rest) - 1
           /\ w.rest = <<Name(w)>> \o Tail(w.rest)
           /\ Append(w.at, Name(w)) \in Locations
<1>1. w.rest \in Seq(STRING) /\ w.at \in Seq(STRING)
    BY DEF Walks, Locations
<1>2. /\ Name(w) \in STRING /\ Tail(w.rest) \in Seq(STRING)
      /\ Len(Tail(w.rest)) = Len(w.rest) - 1
    BY <1>1, HeadTailProperties DEF Name
<1>3. Len(w.rest) \in Nat \ {0}
    BY <1>1, EmptySeq
<1>4. w.rest = <<Name(w)>> \o Tail(w.rest)
    <2>1. /\ SubSeq(w.rest, 1, Len(w.rest)) = <<w.rest[1]>> \o SubSeq(w.rest, 1 + 1, Len(w.rest))
          /\ SubSeq(w.rest, 1, Len(w.rest)) = w.rest
        BY <1>1, <1>3, SubSeqRecursiveFirst, SubSeqFull
    <2>2. Tail(w.rest) = SubSeq(w.rest, 2, Len(w.rest))
        BY <1>1, TailIsSubSeq
    <2>3. Name(w) = w.rest[1]
        BY <1>1, <1>3 DEF Name
    <2> QED
        BY <2>1, <2>2, <2>3
<1>5. Append(w.at, Name(w)) \in Seq(STRING)
    BY <1>1, <1>2, AppendProperties
<1> QED
    BY <1>2, <1>3, <1>4, <1>5 DEF Locations

LEMMA MoveType ==
    ASSUME NEW fs \in Trees, NEW w \in Walks, w.rest # <<>>
    PROVE  Move(fs, w) \in Walks
<1>1. w.at \in Locations /\ w.own \in Nat /\ Parent(w.at) \in Locations
    BY ParentType DEF Walks
<1>2. Follows(fs, w) => Ahead(fs, w).to \in Locations
    BY NodeType, Kinds DEF Follows, Ahead
<1>3. \A s, t \in Locations : s \o t \in Locations
    BY ConcatProperties DEF Locations
<1>4. <<>> \in Locations
    BY EmptySeq DEF Locations
<1> DEFINE a == IF Name(w) = ".." THEN Parent(w.at)
                ELSE IF Name(w) = "." THEN w.at
                ELSE IF Follows(fs, w) THEN <<>> ELSE Append(w.at, Name(w))
           r == IF Follows(fs, w) THEN Ahead(fs, w).to \o Tail(w.rest) ELSE Tail(w.rest)
           o == IF w.own < Len(w.rest) THEN w.own ELSE Len(w.rest) - 1
<1>5. a \in Locations
    BY <1>1, <1>4, RestType
<1>6. r \in Locations
    BY <1>2, <1>3, RestType
<1>7. o \in Nat
    BY <1>1, RestType
<1>8. Move(fs, w) = [at |-> a, rest |-> r, own |-> o]
    BY DEF Move
<1> HIDE DEF a, r, o
<1> QED
    BY <1>5, <1>6, <1>7, <1>8 DEF Walks

LEMMA StepType ==
    ASSUME NEW fs \in Trees, NEW w \in Walks
    PROVE  Step(fs, w) \in Walks
BY MoveType DEF Step, Moves

\* The function that After is written with.
Walked(F, fs, w, n) ==
    F \in [0..n -> Walks] /\ F[0] = w /\ \A i \in 1..n : F[i] = Step(fs, F[i - 1])

LEMMA WalkedExists ==
    ASSUME NEW fs \in Trees, NEW w \in Walks, NEW n \in Nat
    PROVE  \E F : Walked(F, fs, w, n) /\ After(fs, w, n) = F[n]
<1> DEFINE S == Walks
           G == [i \in 1..n |-> [x \in Walks |-> Step(fs, x)]]
           Is(f) == f = [i \in 0..n |-> IF i = 0 THEN w ELSE Step(fs, f[i - 1])]
           F == CHOOSE f : Is(f)
<1>1. After(fs, w, n) = F[n]
    BY DEF After
<1>2. Steps(n, S, G)
    BY StepType DEF Steps
<1>3. \A i \in 1..n, x \in S : G[i][x] = Step(fs, x)
    OBVIOUS
<1>4. w \in S
    OBVIOUS
<1> HIDE DEF S, G
<1>5. \E f : Iterates(f, n, S, w, G)
    BY <1>2, <1>4, Recursion
<1>6. PICK f : f \in [0..n -> S] /\ f[0] = w /\ \A i \in 1..n : f[i] = G[i][f[i - 1]]
    BY <1>5 DEF Iterates
<1>7. \A i \in 1..n : i - 1 \in 0..n /\ i \in 0..n /\ i # 0
    OBVIOUS
<1>8. \A i \in 1..n : f[i] = Step(fs, f[i - 1])
    BY <1>3, <1>6, <1>7
<1>9. Is(f)
    <2>1. \A i \in 0..n : i = 0 \/ i \in 1..n
        OBVIOUS
    <2>2. f = [i \in 0..n |-> f[i]]
        BY <1>6
    <2> QED
        BY <1>6, <1>8, <2>1, <2>2
<1>10. Is(F)
    BY <1>9
<1> HIDE DEF F
<1>11. F[0] = w /\ \A i \in 1..n : F[i] = Step(fs, F[i - 1])
    BY <1>7, <1>10
<1> DEFINE T == {i \in 0..n : F[i] \in Walks}
<1>12. 0..n \subseteq T
    <2>1. 0 \in T
        BY <1>11
    <2>2. \A i \in 1..n : i - 1 \in T => i \in T
        BY <1>7, <1>11, StepType
    <2> HIDE DEF T
    <2> QED
        BY <2>1, <2>2, Upward
<1>13. F \in [0..n -> Walks]
    <2>1. F = [i \in 0..n |-> F[i]]
        BY <1>10
    <2> QED
        BY <1>12, <2>1
<1> HIDE DEF Is
<1> QED
    BY <1>1, <1>11, <1>13 DEF Walked

LEMMA WalkedOnce ==
    ASSUME NEW fs, NEW w, NEW m \in Nat, NEW n \in Nat, m <= n,
           NEW E, NEW F, Walked(E, fs, w, m), Walked(F, fs, w, n)
    PROVE  E[m] = F[m]
<1> DEFINE T == {i \in 0..m : E[i] = F[i]}
<1>1. 0 \in T
    BY DEF Walked
<1>2. \A i \in 1..m : i - 1 \in T => i \in T
    <2> SUFFICES ASSUME NEW i \in 1..m, i - 1 \in T PROVE i \in T
        OBVIOUS
    <2>1. i \in 1..n /\ i \in 0..m
        OBVIOUS
    <2>2. E[i] = Step(fs, E[i - 1]) /\ F[i] = Step(fs, F[i - 1])
        BY <2>1 DEF Walked
    <2> QED
        BY <2>1, <2>2
<1> HIDE DEF T
<1>3. 0..m \subseteq T
    BY <1>1, <1>2, Upward
<1>4. m \in T
    BY <1>3
<1> QED
    BY <1>4 DEF T

\* After(fs, w, n) is the n-th walk that steps from w.
LEMMA AfterSteps ==
    ASSUME NEW fs \in Trees, NEW w \in Walks
    PROVE  /\ After(fs, w, 0) = w
           /\ \A n \in Nat : After(fs, w, n) \in Walks
           /\ \A n \in Nat : After(fs, w, n + 1) = Step(fs, After(fs, w, n))
<1>1. After(fs, w, 0) = w
    <2>1. 0 \in Nat
        OBVIOUS
    <2> QED
        BY <2>1, WalkedExists DEF Walked
<1>2. \A n \in Nat : After(fs, w, n) \in Walks
    <2> TAKE n \in Nat
    <2>1. n \in 0..n
        OBVIOUS
    <2> QED
        BY <2>1, WalkedExists DEF Walked
<1>3. \A n \in Nat : After(fs, w, n + 1) = Step(fs, After(fs, w, n))
    <2> TAKE n \in Nat
    <2>1. n + 1 \in Nat /\ n <= n + 1 /\ n + 1 \in 1..(n + 1) /\ (n + 1) - 1 = n
        OBVIOUS
    <2>2. PICK E : Walked(E, fs, w, n) /\ After(fs, w, n) = E[n]
        BY WalkedExists
    <2>3. PICK F : Walked(F, fs, w, n + 1) /\ After(fs, w, n + 1) = F[n + 1]
        BY <2>1, WalkedExists
    <2>4. E[n] = F[n]
        BY <2>1, <2>2, <2>3, WalkedOnce
    <2>5. F[n + 1] = Step(fs, F[n])
        BY <2>1, <2>3 DEF Walked
    <2> QED
        BY <2>2, <2>3, <2>4, <2>5
<1> QED
    BY <1>1, <1>2, <1>3

\* Induction over the steps of walks.
LEMMA Always ==
    ASSUME NEW T, 0 \in T, \A n \in Nat : n \in T => n + 1 \in T
    PROVE  Nat \subseteq T
<1> SUFFICES ASSUME NEW n \in Nat PROVE n \in T
    OBVIOUS
<1>1. \A i \in 1..n : i - 1 \in T => i \in T
    <2> SUFFICES ASSUME NEW i \in 1..n, i - 1 \in T PROVE i \in T
        OBVIOUS
    <2>1. i - 1 \in Nat /\ (i - 1) + 1 = i
        OBVIOUS
    <2> QED
        BY <2>1
<1>2. 0..n \subseteq T
    BY <1>1, Upward
<1> QED
    BY <1>2

\* A walk goes on from where it is.
LEMMA AfterAfter ==
    ASSUME NEW fs \in Trees, NEW w \in Walks, NEW n \in Nat, NEW m \in Nat
    PROVE  After(fs, After(fs, w, n), m) = After(fs, w, n + m)
<1> DEFINE v == After(fs, w, n)
           T == {i \in Nat : After(fs, v, i) = After(fs, w, n + i)}
<1>1. v \in Walks
    BY AfterSteps
<1>2. 0 \in T
    <2>1. n + 0 = n
        OBVIOUS
    <2> QED
        BY <1>1, <2>1, AfterSteps
<1>3. ASSUME NEW i \in Nat, i \in T PROVE i + 1 \in T
    <2>1. n + i \in Nat /\ n + (i + 1) = (n + i) + 1 /\ i + 1 \in Nat
        OBVIOUS
    <2> HIDE DEF v
    <2>2. After(fs, v, i + 1) = Step(fs, After(fs, v, i))
        BY <1>1, AfterSteps
    <2>3. After(fs, w, (n + i) + 1) = Step(fs, After(fs, w, n + i))
        BY <2>1, AfterSteps
    <2> QED
        BY <1>3, <2>1, <2>2, <2>3
<1> HIDE DEF T
<1>4. Nat \subseteq T
    BY <1>2, <1>3, Always
<1> QED
    BY <1>4 DEF T

\* A walk that has ended stays.
LEMMA Ended ==
    ASSUME NEW fs \in Trees, NEW w \in Walks, NEW n \in Nat, ~Moves(fs, After(fs, w, n)),
           NEW m \in Nat, n <= m
    PROVE  After(fs, w, m) = After(fs, w, n)
<1> DEFINE v == After(fs, w, n)
           T == {i \in Nat : After(fs, v, i) = v}
<1>1. v \in Walks
    BY AfterSteps
<1>2. 0 \in T
    BY <1>1, AfterSteps
<1>3. ASSUME NEW i \in Nat, i \in T PROVE i + 1 \in T
    <2>1. After(fs, v, i + 1) = Step(fs, v)
        BY <1>1, <1>3, AfterSteps
    <2>2. Step(fs, v) = v
        BY DEF Step
    <2> QED
        BY <2>1, <2>2
<1> HIDE DEF T
<1>4. Nat \subseteq T
    BY <1>2, <1>3, Always
<1>5. m - n \in Nat /\ n + (m - n) = m
    OBVIOUS
<1>6. After(fs, v, m - n) = v
    BY <1>4, <1>5 DEF T
<1> QED
    BY <1>5, <1>6, AfterAfter

-------------------------------------------------------------------------------
(* Where a walk can be. *)

\* A directory, reached without links.
Dirs(fs, a) ==
    a \in Locations /\ \A i \in 1..Len(a) : a[i] \notin Dots /\ Node(fs, SubSeq(a, 1, i)).kind = "dir"

\* A directory or a file.
Here(fs, a) ==
    \/ Dirs(fs, a)
    \/ \E d \in Locations, n \in STRING \ Dots :
          Dirs(fs, d) /\ a = Append(d, n) /\ Node(fs, a).kind = "file"

\* The next move is the last one, to a file.
FileLast(fs, w) == Name(w) \notin Dots /\ Ahead(fs, w).kind = "file" /\ Tail(w.rest) = <<>>

Sound(fs, w) ==
    /\ w \in Walks /\ w.own <= Len(w.rest)
    /\ IF w.rest = <<>> THEN Here(fs, w.at) ELSE Dirs(fs, w.at)

LEMMA LocationFacts ==
    ASSUME NEW a \in Locations
    PROVE  Len(a) \in Nat /\ (a = <<>> <=> Len(a) = 0) /\ <<>> \in Locations
           /\ \A i \in 1..Len(a) : a[i] \in STRING
BY EmptySeq, LenProperties, ElementOfSeq DEF Locations

LEMMA Prefix ==
    ASSUME NEW a \in Locations, NEW k \in 0..Len(a)
    PROVE  /\ SubSeq(a, 1, k) \in Locations /\ Len(SubSeq(a, 1, k)) = k
           /\ \A i \in 1..k : SubSeq(a, 1, k)[i] = a[i]
<1>1. Len(a) \in Nat /\ 1 \in Int /\ k \in Int /\ k \in Nat
    BY LocationFacts
<1>2. \A i \in 1..k : a[i] \in STRING
    BY <1>1, LocationFacts
<1>3. /\ SubSeq(a, 1, k) \in Seq(STRING)
      /\ Len(SubSeq(a, 1, k)) = IF 1 <= k THEN k - 1 + 1 ELSE 0
      /\ \A i \in 1..(k - 1 + 1) : SubSeq(a, 1, k)[i] = a[1 + i - 1]
    BY <1>1, <1>2, SubSeqProperties
<1> DEFINE s == SubSeq(a, 1, k)
<1>4. Len(s) = IF 1 <= k THEN k - 1 + 1 ELSE 0
    BY <1>3
<1>5. \A i \in 1..k : s[i] = a[i]
    <2> TAKE i \in 1..k
    <2>1. i \in 1..(k - 1 + 1) /\ 1 + i - 1 = i
        BY <1>1
    <2> QED
        BY <1>3, <2>1
<1> HIDE DEF s
<1>6. Len(s) = k
    BY <1>1, <1>4
<1> QED
    BY <1>3, <1>5, <1>6 DEF s, Locations

LEMMA SameLocation ==
    ASSUME NEW a \in Locations, NEW b \in Locations, Len(a) = Len(b),
           \A i \in 1..Len(a) : a[i] = b[i]
    PROVE  a = b
BY SeqEqual DEF Locations

LEMMA PrefixOfPrefix ==
    ASSUME NEW a \in Locations, NEW k \in 0..Len(a), NEW i \in 0..k
    PROVE  SubSeq(SubSeq(a, 1, k), 1, i) = SubSeq(a, 1, i)
<1> DEFINE s == SubSeq(a, 1, k)
<1>1. Len(a) \in Nat /\ i \in 0..Len(a)
    BY LocationFacts
<1>2. s \in Locations /\ Len(s) = k /\ \A j \in 1..k : s[j] = a[j]
    BY Prefix
<1> HIDE DEF s
<1>3. SubSeq(s, 1, i) \in Locations /\ Len(SubSeq(s, 1, i)) = i /\ \A j \in 1..i : SubSeq(s, 1, i)[j] = s[j]
    BY <1>2, Prefix
<1>4. SubSeq(a, 1, i) \in Locations /\ Len(SubSeq(a, 1, i)) = i /\ \A j \in 1..i : SubSeq(a, 1, i)[j] = a[j]
    BY <1>1, Prefix
<1>5. \A j \in 1..i : j \in 1..k
    OBVIOUS
<1>6. SubSeq(s, 1, i) = SubSeq(a, 1, i)
    BY <1>2, <1>3, <1>4, <1>5, SameLocation
<1> QED
    BY <1>6 DEF s

LEMMA Whole ==
    ASSUME NEW a \in Locations
    PROVE  SubSeq(a, 1, Len(a)) = a
BY SubSeqFull DEF Locations

LEMMA Appended ==
    ASSUME NEW a \in Locations, NEW n \in STRING
    PROVE  /\ Append(a, n) \in Locations /\ Append(a, n) # <<>> /\ Len(Append(a, n)) = Len(a) + 1
           /\ Append(a, n)[Len(a) + 1] = n /\ \A i \in 1..Len(a) : Append(a, n)[i] = a[i]
           /\ \A i \in 0..Len(a) : SubSeq(Append(a, n), 1, i) = SubSeq(a, 1, i)
           /\ Parent(Append(a, n)) = a
<1> DEFINE b == Append(a, n)
<1>1. /\ b \in Locations /\ b # <<>> /\ Len(b) = Len(a) + 1
      /\ b[Len(a) + 1] = n /\ \A i \in 1..Len(a) : b[i] = a[i]
    BY AppendProperties DEF Locations
<1>2. Len(a) \in Nat
    BY LocationFacts
<1> HIDE DEF b
<1>3. ASSUME NEW i \in 0..Len(a) PROVE SubSeq(b, 1, i) = SubSeq(a, 1, i)
    <2>1. i \in 0..Len(b) /\ \A j \in 1..i : j \in 1..Len(a)
        BY <1>1, <1>2
    <2>2. SubSeq(b, 1, i) \in Locations /\ Len(SubSeq(b, 1, i)) = i /\ \A j \in 1..i : SubSeq(b, 1, i)[j] = b[j]
        BY <1>1, <2>1, Prefix
    <2>3. SubSeq(a, 1, i) \in Locations /\ Len(SubSeq(a, 1, i)) = i /\ \A j \in 1..i : SubSeq(a, 1, i)[j] = a[j]
        BY Prefix
    <2> QED
        BY <1>1, <2>1, <2>2, <2>3, SameLocation
<1>4. Parent(b) = a
    <2>1. Parent(b) = SubSeq(b, 1, Len(b) - 1)
        BY <1>1 DEF Parent, Front
    <2>2. Len(b) - 1 = Len(a) /\ Len(a) \in 0..Len(a)
        BY <1>1, <1>2
    <2> QED
        BY <1>3, <2>1, <2>2, Whole
<1> QED
    BY <1>1, <1>3, <1>4 DEF b

LEMMA DirsRoot ==
    ASSUME NEW fs
    PROVE  Dirs(fs, <<>>)
<1>1. <<>> \in Locations /\ Len(<<>>) = 0
    BY EmptySeq DEF Locations
<1> QED
    BY <1>1 DEF Dirs

LEMMA DirsAppend ==
    ASSUME NEW fs, NEW a, Dirs(fs, a), NEW n \in STRING \ Dots,
           Node(fs, Append(a, n)).kind = "dir"
    PROVE  Dirs(fs, Append(a, n))
<1> DEFINE b == Append(a, n)
<1>1. a \in Locations /\ n \in STRING
    BY DEF Dirs
<1>2. /\ b \in Locations /\ Len(b) = Len(a) + 1 /\ b[Len(a) + 1] = n
      /\ \A i \in 1..Len(a) : b[i] = a[i]
      /\ \A i \in 0..Len(a) : SubSeq(b, 1, i) = SubSeq(a, 1, i)
    BY <1>1, Appended
<1>3. Len(a) \in Nat
    BY <1>1, LocationFacts
<1>4. Node(fs, b).kind = "dir" /\ SubSeq(b, 1, Len(b)) = b
    BY <1>2, Whole
<1> HIDE DEF b
<1>5. ASSUME NEW i \in 1..Len(b) PROVE b[i] \notin Dots /\ Node(fs, SubSeq(b, 1, i)).kind = "dir"
    <2>1. CASE i = Len(b)
        BY <1>2, <1>4, <2>1
    <2>2. CASE i # Len(b)
        <3>1. i \in 1..Len(a) /\ i \in 0..Len(a)
            BY <1>2, <1>3, <2>2
        <3> QED
            BY <1>2, <3>1 DEF Dirs
    <2> QED
        BY <2>1, <2>2
<1>6. Dirs(fs, b)
    BY <1>2, <1>5 DEF Dirs
<1> QED
    BY <1>6 DEF b

LEMMA DirsPrefix ==
    ASSUME NEW fs, NEW a, Dirs(fs, a), NEW k \in 0..Len(a)
    PROVE  Dirs(fs, SubSeq(a, 1, k))
<1> DEFINE s == SubSeq(a, 1, k)
<1>1. a \in Locations /\ Len(a) \in Nat
    BY LocationFacts DEF Dirs
<1>2. s \in Locations /\ Len(s) = k /\ \A j \in 1..k : s[j] = a[j]
    BY <1>1, Prefix
<1>3. \A i \in 1..k : SubSeq(s, 1, i) = SubSeq(a, 1, i)
    BY <1>1, PrefixOfPrefix
<1>4. \A i \in 1..k : i \in 1..Len(a)
    BY <1>1
<1> HIDE DEF s
<1>5. Dirs(fs, s)
    BY <1>2, <1>3, <1>4 DEF Dirs
<1> QED
    BY <1>5 DEF s

LEMMA DirsParent ==
    ASSUME NEW fs, NEW a, Dirs(fs, a)
    PROVE  Dirs(fs, Parent(a))
<1>1. CASE a = <<>>
    BY <1>1 DEF Parent
<1>2. CASE a # <<>>
    <2>1. a \in Locations /\ Len(a) \in Nat /\ Len(a) # 0
        BY <1>2, LocationFacts DEF Dirs
    <2>2. Len(a) - 1 \in 0..Len(a)
        BY <2>1
    <2>3. Parent(a) = SubSeq(a, 1, Len(a) - 1)
        BY <1>2 DEF Parent, Front
    <2> QED
        BY <2>2, <2>3, DirsPrefix
<1> QED
    BY <1>1, <1>2

\* The moves there are.
LEMMA MoveCases ==
    ASSUME NEW fs \in Trees, NEW w \in Walks, Moves(fs, w)
    PROVE  /\ w.rest # <<>>
           /\ Move(fs, w).own = IF w.own < Len(w.rest) THEN w.own ELSE Len(w.rest) - 1
           /\ \/ Name(w) = ".." /\ Move(fs, w).at = Parent(w.at) /\ Move(fs, w).rest = Tail(w.rest)
              \/ Name(w) = "." /\ Move(fs, w).at = w.at /\ Move(fs, w).rest = Tail(w.rest)
              \/ /\ Name(w) \in STRING \ Dots /\ Ahead(fs, w).kind = "link" /\ Ahead(fs, w).to \in Locations
                 /\ Move(fs, w).at = <<>> /\ Move(fs, w).rest = Ahead(fs, w).to \o Tail(w.rest)
              \/ /\ Name(w) \in STRING \ Dots
                 /\ Ahead(fs, w).kind = "dir" \/ FileLast(fs, w)
                 /\ Move(fs, w).at = Append(w.at, Name(w)) /\ Move(fs, w).rest = Tail(w.rest)
<1>1. w.rest # <<>> /\ Name(w) \in STRING
    BY RestType DEF Moves
<1>2. Ahead(fs, w).kind = "link" => Ahead(fs, w).to \in Locations
    BY NodeType, Kinds DEF Ahead
<1>3. CASE Name(w) \in Dots
    BY <1>1, <1>3 DEF Move, Follows, Dots
<1>4. CASE Name(w) \notin Dots
    BY <1>1, <1>2, <1>4 DEF Move, Follows, Dots, Moves, FileLast
<1> QED
    BY <1>3, <1>4

LEMMA MoveSound ==
    ASSUME NEW fs \in Trees, NEW w, Sound(fs, w), Moves(fs, w)
    PROVE  /\ Sound(fs, Move(fs, w))
           /\ ~FileLast(fs, w) => Dirs(fs, Move(fs, w).at)
<1> DEFINE v == Move(fs, w)
<1>1. w \in Walks /\ Dirs(fs, w.at) /\ w.rest # <<>> /\ w.at \in Locations
    BY DEF Sound, Moves, Walks
<1>2. v \in Walks
    BY <1>1, MoveType
<1>3. /\ Len(w.rest) \in Nat \ {0} /\ Len(Tail(w.rest)) = Len(w.rest) - 1
      /\ Tail(w.rest) \in Locations /\ w.own \in Nat
    BY <1>1, RestType DEF Walks
<1>4. v.own <= Len(v.rest)
    <2>1. v.own = IF w.own < Len(w.rest) THEN w.own ELSE Len(w.rest) - 1
        BY <1>1, MoveCases
    <2>2. v.own <= Len(Tail(w.rest))
        BY <1>3, <2>1
    <2>3. \A s \in Locations : Len(Tail(w.rest)) <= Len(s \o Tail(w.rest))
        <3> TAKE s \in Locations
        <3>1. Len(s \o Tail(w.rest)) = Len(s) + Len(Tail(w.rest))
            BY <1>3, ConcatProperties DEF Locations
        <3>2. Len(s) \in Nat /\ Len(Tail(w.rest)) \in Nat
            BY <1>3, LocationFacts
        <3> QED
            BY <3>1, <3>2
    <2>4. v.rest = Tail(w.rest) \/ \E s \in Locations : v.rest = s \o Tail(w.rest)
        BY <1>1, MoveCases
    <2>5. CASE v.rest = Tail(w.rest)
        BY <2>2, <2>5
    <2>6. CASE \E s \in Locations : v.rest = s \o Tail(w.rest)
        <3>1. Len(Tail(w.rest)) <= Len(v.rest)
            BY <2>3, <2>6
        <3>2. v.own \in Nat /\ Len(v.rest) \in Nat /\ Len(Tail(w.rest)) \in Nat
            BY <1>2, <1>3, LocationFacts DEF Walks
        <3> QED
            BY <2>2, <3>1, <3>2
    <2> QED
        BY <2>4, <2>5, <2>6
<1>5. ~FileLast(fs, w) => Dirs(fs, v.at)
    BY <1>1, MoveCases, DirsRoot, DirsAppend, DirsParent DEF Ahead
<1>6. FileLast(fs, w) => v.rest = <<>> /\ Here(fs, v.at)
    <2> SUFFICES ASSUME FileLast(fs, w) PROVE v.rest = <<>> /\ Here(fs, v.at)
        OBVIOUS
    <2>1. Name(w) \in STRING \ Dots /\ v.at = Append(w.at, Name(w)) /\ v.rest = Tail(w.rest)
        BY <1>1, MoveCases DEF FileLast, Dots
    <2>2. Node(fs, v.at).kind = "file" /\ Tail(w.rest) = <<>>
        BY <2>1 DEF FileLast, Ahead
    <2> QED
        BY <1>1, <2>1, <2>2 DEF Here
<1> QED
    BY <1>2, <1>4, <1>5, <1>6 DEF Sound, Here

\* Every walk from the root directory is sound.
LEMMA StartSound ==
    ASSUME NEW fs, NEW path \in Locations
    PROVE  Sound(fs, Start(path)) /\ Start(path) \in Walks
<1>1. Len(path) \in Nat /\ <<>> \in Locations
    BY LocationFacts
<1>2. Start(path) \in Walks
    BY <1>1 DEF Walks, Start
<1>3. Start(path).own = Len(path) /\ Start(path).rest = path /\ Start(path).at = <<>>
    BY DEF Start
<1> QED
    BY <1>1, <1>2, <1>3, DirsRoot DEF Sound, Here

LEMMA AfterSound ==
    ASSUME NEW fs \in Trees, NEW w, Sound(fs, w), NEW n \in Nat
    PROVE  Sound(fs, After(fs, w, n))
<1> DEFINE T == {i \in Nat : Sound(fs, After(fs, w, i))}
<1>1. w \in Walks
    BY DEF Sound
<1>2. 0 \in T
    BY <1>1, AfterSteps
<1>3. ASSUME NEW i \in Nat, i \in T PROVE i + 1 \in T
    <2>1. Sound(fs, After(fs, w, i)) /\ i + 1 \in Nat
        BY <1>3
    <2>2. After(fs, w, i + 1) = Step(fs, After(fs, w, i))
        BY <1>1, AfterSteps
    <2> QED
        BY <2>1, <2>2, MoveSound DEF Step
<1> HIDE DEF T
<1>4. Nat \subseteq T
    BY <1>2, <1>3, Always
<1> QED
    BY <1>4 DEF T

-------------------------------------------------------------------------------
(* Walks along a path and along a longer one. *)

LEMMA Associative ==
    ASSUME NEW s \in Locations, NEW t \in Locations, NEW u \in Locations
    PROVE  (s \o t) \o u = s \o (t \o u)
<1>1. s \in Seq(STRING) /\ t \in Seq(STRING) /\ u \in Seq(STRING)
    BY DEF Locations
<1> QED
    BY <1>1, ConcatAssociative

\* The walk with q at the end of its path.
Extend(w, q) == [at |-> w.at, rest |-> w.rest \o q, own |-> w.own + Len(q)]

LEMMA ExtendType ==
    ASSUME NEW w \in Walks, NEW q \in Locations
    PROVE  /\ Extend(w, q) \in Walks
           /\ w.rest = <<>> => Extend(w, q).rest = q
           /\ Len(Extend(w, q).rest) = Len(w.rest) + Len(q)
<1>1. /\ w.rest \o q \in Locations /\ Len(w.rest \o q) = Len(w.rest) + Len(q)
      /\ <<>> \o q = q
    BY ConcatProperties, ConcatEmptySeq DEF Locations, Walks
<1>2. w.at \in Locations /\ w.own \in Nat /\ Len(q) \in Nat /\ w.own + Len(q) \in Nat
    BY LocationFacts DEF Walks
<1> QED
    BY <1>1, <1>2 DEF Extend, Walks

LEMMA ExtendFront ==
    ASSUME NEW w \in Walks, NEW q \in Locations, w.rest # <<>>
    PROVE  /\ Name(Extend(w, q)) = Name(w) /\ Extend(w, q).rest # <<>>
           /\ Tail(Extend(w, q).rest) = Tail(w.rest) \o q
<1> DEFINE t == Tail(w.rest)
           r == w.rest \o q
           u == t \o q
<1>1. w.rest \in Seq(STRING) /\ q \in Seq(STRING) /\ t \in Seq(STRING) /\ Len(w.rest) \in Nat \ {0}
      /\ Len(t) = Len(w.rest) - 1 /\ \A i \in 1..Len(t) : t[i] = w.rest[i + 1]
    BY RestType, HeadTailProperties DEF Walks, Locations
<1>2. Len(q) \in Nat /\ Len(t) \in Nat
    BY <1>1, LenProperties
<1>3. /\ r \in Seq(STRING) /\ Len(r) = Len(w.rest) + Len(q)
      /\ \A i \in 1..(Len(w.rest) + Len(q)) :
            r[i] = IF i <= Len(w.rest) THEN w.rest[i] ELSE q[i - Len(w.rest)]
    BY <1>1, ConcatProperties
<1>4. /\ u \in Seq(STRING) /\ Len(u) = Len(t) + Len(q)
      /\ \A i \in 1..(Len(t) + Len(q)) : u[i] = IF i <= Len(t) THEN t[i] ELSE q[i - Len(t)]
    BY <1>1, ConcatProperties
<1>5. r # <<>>
    BY <1>1, <1>2, <1>3, EmptySeq
<1>6. /\ Tail(r) \in Seq(STRING) /\ Len(Tail(r)) = Len(r) - 1
      /\ \A i \in 1..Len(Tail(r)) : Tail(r)[i] = r[i + 1]
    BY <1>3, <1>5, HeadTailProperties
<1>7. Head(r) = r[1] /\ Head(w.rest) = w.rest[1]
    BY <1>1, <1>3, <1>5
<1>8. r[1] = w.rest[1]
    BY <1>1, <1>2, <1>3
<1> HIDE DEF t, r, u
<1>9. Tail(r) = u
    <2>1. Len(Tail(r)) = Len(u)
        BY <1>1, <1>2, <1>3, <1>4, <1>6
    <2>2. ASSUME NEW i \in 1..Len(u) PROVE Tail(r)[i] = u[i]
        <3>1. i \in Nat /\ i + 1 \in 1..(Len(w.rest) + Len(q)) /\ i \in 1..(Len(t) + Len(q)) /\ i \in 1..Len(Tail(r))
            BY <1>1, <1>2, <1>4, <2>1
        <3>2. Tail(r)[i] = IF i + 1 <= Len(w.rest) THEN w.rest[i + 1] ELSE q[(i + 1) - Len(w.rest)]
            BY <1>3, <1>6, <3>1
        <3>3. u[i] = IF i <= Len(t) THEN t[i] ELSE q[i - Len(t)]
            BY <1>4, <3>1
        <3>4. CASE i <= Len(t)
            <4>1. i + 1 <= Len(w.rest) /\ i \in 1..Len(t)
                BY <1>1, <1>2, <3>1, <3>4
            <4> QED
                BY <1>1, <3>2, <3>3, <3>4, <4>1
        <3>5. CASE ~(i <= Len(t))
            <4>1. ~(i + 1 <= Len(w.rest)) /\ (i + 1) - Len(w.rest) = i - Len(t)
                BY <1>1, <1>2, <3>1, <3>5
            <4> QED
                BY <3>2, <3>3, <3>5, <4>1
        <3> QED
            BY <3>4, <3>5
    <2> QED
        BY <1>4, <1>6, <2>1, <2>2, SeqEqual
<1>10. Extend(w, q).rest = r
    BY DEF Extend, r
<1> QED
    BY <1>5, <1>7, <1>8, <1>9, <1>10 DEF Name, u, t

\* More path does not change the moves, except where a file was the end of it.
LEMMA ExtendMoves ==
    ASSUME NEW fs \in Trees, NEW w \in Walks, NEW q \in Locations, w.rest # <<>>, q # <<>>
    PROVE  /\ Ahead(fs, Extend(w, q)) = Ahead(fs, w)
           /\ Moves(fs, Extend(w, q)) <=> Moves(fs, w) /\ ~FileLast(fs, w)
           /\ ~FileLast(fs, w) => Step(fs, Extend(w, q)) = Extend(Step(fs, w), q)
<1> DEFINE x == Extend(w, q)
<1>1. /\ Name(x) = Name(w) /\ x.rest # <<>> /\ Tail(x.rest) = Tail(w.rest) \o q /\ x.at = w.at
      /\ x.own = w.own + Len(q)
    BY ExtendFront DEF Extend
<1>2. Tail(w.rest) \o q # <<>>
    <2>1. Tail(w.rest) \in Seq(STRING) /\ q \in Seq(STRING)
        BY RestType DEF Locations
    <2> QED
        BY <2>1, ConcatEqualIffEmpty
<1>3. Ahead(fs, x) = Ahead(fs, w)
    BY <1>1 DEF Ahead
<1>4. Ahead(fs, w).kind \in {"absent", "file", "dir", "link"}
    BY NodeType, Kinds DEF Ahead
<1> HIDE DEF x
<1>5. Moves(fs, x) <=> Moves(fs, w) /\ ~FileLast(fs, w)
    BY <1>1, <1>2, <1>3, <1>4 DEF Moves, FileLast
<1>6. ASSUME ~FileLast(fs, w) PROVE Step(fs, x) = Extend(Step(fs, w), q)
    <2>1. CASE ~Moves(fs, w)
        BY <1>5, <2>1 DEF Step, x
    <2>2. CASE Moves(fs, w)
        <3>1. Step(fs, x) = Move(fs, x) /\ Step(fs, w) = Move(fs, w)
            BY <1>5, <1>6, <2>2 DEF Step
        <3>2. Follows(fs, x) <=> Follows(fs, w)
            BY <1>1, <1>3 DEF Follows
        <3>3. Move(fs, x).at = Move(fs, w).at
            BY <1>1, <3>2 DEF Move
        <3>4. Move(fs, x).rest = Move(fs, w).rest \o q
            <4>1. CASE ~Follows(fs, w)
                BY <1>1, <3>2, <4>1 DEF Move
            <4>2. CASE Follows(fs, w)
                <5>1. Ahead(fs, w).to \in Locations
                    BY <4>2, NodeType, Kinds DEF Follows, Ahead
                <5>2. (Ahead(fs, w).to \o Tail(w.rest)) \o q = Ahead(fs, w).to \o (Tail(w.rest) \o q)
                    <6>1. Tail(w.rest) \in Locations
                        BY RestType
                    <6> QED
                        BY <5>1, <6>1, Associative
                <5> QED
                    BY <1>1, <1>3, <3>2, <4>2, <5>2 DEF Move
            <4> QED
                BY <4>1, <4>2
        <3>5. Move(fs, x).own = Move(fs, w).own + Len(q)
            <4>1. Move(fs, x).own = IF x.own < Len(x.rest) THEN x.own ELSE Len(x.rest) - 1
                BY DEF Move
            <4>2. Move(fs, w).own = IF w.own < Len(w.rest) THEN w.own ELSE Len(w.rest) - 1
                BY DEF Move
            <4>3. Len(x.rest) = Len(w.rest) + Len(q)
                BY ExtendType DEF x
            <4>4. Len(w.rest) \in Nat /\ Len(q) \in Nat /\ w.own \in Nat
                BY LocationFacts DEF Walks
            <4> QED
                BY <1>1, <4>1, <4>2, <4>3, <4>4
        <3>6. Move(fs, x) = [at |-> Move(fs, x).at, rest |-> Move(fs, x).rest, own |-> Move(fs, x).own]
            BY DEF Move
        <3> QED
            BY <3>1, <3>3, <3>4, <3>5, <3>6 DEF Extend
    <2> QED
        BY <2>1, <2>2
<1> QED
    BY <1>3, <1>5, <1>6 DEF x

\* The walk is not at its end, and not about to end at a file.
Going(fs, w) == w.rest # <<>> /\ ~FileLast(fs, w)

LEMMA ExtendAfter ==
    ASSUME NEW fs \in Trees, NEW w \in Walks, NEW q \in Locations, q # <<>>, NEW n \in Nat,
           \A i \in 0..(n - 1) : Going(fs, After(fs, w, i))
    PROVE  After(fs, Extend(w, q), n) = Extend(After(fs, w, n), q)
<1> DEFINE x == Extend(w, q)
           T == {i \in 0..n : After(fs, x, i) = Extend(After(fs, w, i), q)}
<1>1. x \in Walks
    BY ExtendType
<1>2. 0 \in T
    BY <1>1, AfterSteps
<1>3. ASSUME NEW i \in 1..n, i - 1 \in T PROVE i \in T
    <2>1. i - 1 \in Nat /\ i - 1 \in 0..(n - 1) /\ (i - 1) + 1 = i /\ i \in 0..n
        OBVIOUS
    <2>2. After(fs, x, i) = Step(fs, After(fs, x, i - 1))
        BY <1>1, <2>1, AfterSteps
    <2>3. After(fs, w, i) = Step(fs, After(fs, w, i - 1)) /\ After(fs, w, i - 1) \in Walks
        BY <2>1, AfterSteps
    <2>4. Going(fs, After(fs, w, i - 1))
        BY <2>1
    <2>5. After(fs, x, i - 1) = Extend(After(fs, w, i - 1), q)
        BY <1>3
    <2>6. Step(fs, Extend(After(fs, w, i - 1), q)) = Extend(Step(fs, After(fs, w, i - 1)), q)
        BY <2>3, <2>4, ExtendMoves DEF Going
    <2> QED
        BY <2>1, <2>2, <2>3, <2>5, <2>6
<1> HIDE DEF T, x
<1>4. 0..n \subseteq T
    BY <1>2, <1>3, Upward
<1>5. n \in 0..n
    OBVIOUS
<1> QED
    BY <1>4, <1>5 DEF T, x

\* From a directory that is reached without links the walk goes on as if it had
\* started there.
LEMMA Through ==
    ASSUME NEW fs \in Trees, NEW a, Dirs(fs, a), NEW q \in Locations
    PROVE  After(fs, Start(a \o q), Len(a)) = [at |-> a, rest |-> q, own |-> Len(q)]
<1> DEFINE w == Start(a \o q)
           Along(i) == [at |-> SubSeq(a, 1, i), rest |-> SubSeq(a, i + 1, Len(a)) \o q,
                        own |-> (Len(a) - i) + Len(q)]
           T == {i \in 0..Len(a) : After(fs, w, i) = Along(i)}
<1>1. a \in Locations /\ Len(a) \in Nat /\ Len(q) \in Nat /\ a \o q \in Locations
    BY LocationFacts, ConcatProperties DEF Dirs, Locations
<1>2. w \in Walks
    BY <1>1, StartSound
<1>3. 0 \in T
    <2>1. After(fs, w, 0) = w
        BY <1>2, AfterSteps
    <2>2. SubSeq(a, 1, 0) = <<>>
        BY SubSeqEmpty
    <2>3. SubSeq(a, 0 + 1, Len(a)) = a
        BY <1>1, Whole
    <2>4. Len(a \o q) = (Len(a) - 0) + Len(q)
        BY <1>1, ConcatProperties DEF Locations
    <2>5. w = [at |-> <<>>, rest |-> a \o q, own |-> Len(a \o q)]
        BY DEF Start
    <2>6. 0 \in 0..Len(a)
        BY <1>1
    <2> HIDE DEF w
    <2> QED
        BY <2>1, <2>2, <2>3, <2>4, <2>5, <2>6
<1>4. ASSUME NEW i \in 1..Len(a), i - 1 \in T PROVE i \in T
    <2> DEFINE v == Along(i - 1)
               n == a[i]
               r == SubSeq(a, i + 1, Len(a)) \o q
               d == SubSeq(a, 1, i - 1)
    <2>1. i - 1 \in Nat /\ (i - 1) + 1 = i /\ i \in 0..Len(a) /\ i - 1 \in 0..Len(a)
          /\ i \in Nat /\ i + 1 \in Nat /\ Len(a) \in i..Len(a)
        BY <1>1
    <2>2. After(fs, w, i) = Step(fs, v)
        <3>1. After(fs, w, i - 1) = v
            BY <1>4
        <3>2. After(fs, w, (i - 1) + 1) = Step(fs, After(fs, w, i - 1))
            BY <1>2, <2>1, AfterSteps
        <3> QED
            BY <2>1, <3>1, <3>2
    <2>3. n \in STRING \ Dots /\ Node(fs, SubSeq(a, 1, i)).kind = "dir"
        BY <1>1, LocationFacts DEF Dirs
    <2>4. d \in Locations
        BY <1>1, <2>1, Prefix
    <2>5. SubSeq(a, 1, i) = Append(d, n)
        <3>1. SubSeq(a, 1, i) = d \o <<n>>
            BY <1>1, <2>1, SubSeqRecursiveSecond DEF Locations
        <3>2. Append(d, n) = d \o <<n>>
            BY <2>3, <2>4, AppendIsConcat DEF Locations
        <3> QED
            BY <3>1, <3>2
    <2>6. SubSeq(a, i + 1, Len(a)) \in Locations
        <3>1. \A j \in (i + 1)..Len(a) : a[j] \in STRING
            BY <1>1, <2>1, LocationFacts
        <3> QED
            BY <1>1, <2>1, <3>1, SubSeqProperties DEF Locations
    <2>7. r \in Locations
        BY <2>6, ConcatProperties DEF Locations
    <2>8. v.rest = <<n>> \o r
        <3>1. SubSeq(a, i, Len(a)) = <<n>> \o SubSeq(a, i + 1, Len(a))
            BY <1>1, <2>1, SubSeqRecursiveFirst DEF Locations
        <3>2. <<n>> \in Locations
            BY <2>3 DEF Locations
        <3>3. (<<n>> \o SubSeq(a, i + 1, Len(a))) \o q = <<n>> \o r
            BY <2>6, <3>2, Associative
        <3>4. v.rest = SubSeq(a, i, Len(a)) \o q
            BY <2>1
        <3> QED
            BY <3>1, <3>3, <3>4
    <2>9. v \in Walks /\ v.at = d /\ v.own = (Len(a) - (i - 1)) + Len(q)
        BY <1>2, <1>4, <2>1, AfterSteps
    <2> HIDE DEF v, r, d, n
    <2>10. Name(v) = n /\ Tail(v.rest) = r /\ v.rest # <<>> /\ Len(v.rest) = 1 + Len(r)
        <3>1. /\ <<n>> \o r \in Seq(STRING) /\ Len(<<n>> \o r) = 1 + Len(r)
              /\ \A j \in 1..(1 + Len(r)) : (<<n>> \o r)[j] = IF j <= 1 THEN n ELSE r[j - 1]
            BY <2>3, <2>7, ConcatProperties DEF Locations
        <3>2. Len(r) \in Nat
            BY <2>7, LocationFacts
        <3>3. v.rest # <<>>
            BY <2>8, <3>1, <3>2, EmptySeq
        <3>4. Name(v) = n
            BY <2>8, <3>1, <3>2, <3>3 DEF Name
        <3>5. /\ Tail(v.rest) \in Seq(STRING) /\ Len(Tail(v.rest)) = Len(r)
              /\ \A j \in 1..Len(r) : Tail(v.rest)[j] = v.rest[j + 1]
            BY <2>8, <3>1, <3>2, <3>3, HeadTailProperties
        <3>6. \A j \in 1..Len(r) : v.rest[j + 1] = r[j]
            BY <2>8, <3>1, <3>2
        <3>7. Tail(v.rest) = r
            BY <2>7, <3>5, <3>6, SeqEqual DEF Locations
        <3> QED
            BY <2>8, <3>1, <3>3, <3>4, <3>7
    <2>11. Ahead(fs, v).kind = "dir"
        BY <2>3, <2>5, <2>9, <2>10 DEF Ahead
    <2>12. Moves(fs, v) /\ ~Follows(fs, v) /\ Name(v) \notin Dots
        BY <2>3, <2>10, <2>11 DEF Moves, Follows
    <2>13. Len(r) = (Len(a) - i) + Len(q)
        <3>1. Len(SubSeq(a, i + 1, Len(a))) = Len(a) - i
            <4>1. Len(SubSeq(a, i + 1, Len(a))) = IF i + 1 <= Len(a) THEN Len(a) - (i + 1) + 1 ELSE 0
                <5>1. \A j \in (i + 1)..Len(a) : a[j] \in STRING
                    BY <1>1, <2>1, LocationFacts
                <5> QED
                    BY <1>1, <2>1, <5>1, SubSeqProperties
            <4> QED
                BY <1>1, <2>1, <4>1
        <3> QED
            BY <2>6, <3>1, ConcatProperties DEF Locations, r
    <2>14. Move(fs, v) = [at |-> Append(d, n), rest |-> r, own |-> (Len(a) - i) + Len(q)]
        <3>1. Len(v.rest) = 1 + ((Len(a) - i) + Len(q)) /\ v.own = 1 + ((Len(a) - i) + Len(q))
            BY <1>1, <2>1, <2>9, <2>10, <2>13
        <3>2. (IF v.own < Len(v.rest) THEN v.own ELSE Len(v.rest) - 1) = (Len(a) - i) + Len(q)
            BY <1>1, <2>1, <3>1
        <3> QED
            BY <2>9, <2>10, <2>12, <3>2 DEF Move, Dots
    <2> QED
        BY <2>1, <2>2, <2>5, <2>12, <2>14 DEF Step, r
<1> HIDE DEF T, w
<1>5. 0..Len(a) \subseteq T
    BY <1>1, <1>3, <1>4, Upward
<1>6. After(fs, w, Len(a)) = Along(Len(a))
    BY <1>1, <1>5 DEF T
<1>7. SubSeq(a, Len(a) + 1, Len(a)) \o q = q
    <2>1. SubSeq(a, Len(a) + 1, Len(a)) = <<>>
        BY <1>1, SubSeqEmpty
    <2> QED
        BY <2>1, ConcatEmptySeq DEF Locations
<1>8. SubSeq(a, 1, Len(a)) = a /\ (Len(a) - Len(a)) + Len(q) = Len(q)
    BY <1>1, Whole
<1> QED
    BY <1>6, <1>7, <1>8 DEF w

-------------------------------------------------------------------------------
(* What is at the end of a path. *)

\* MaxSteps is no bound for the path: its walk has ended by then, or goes in a
\* circle.
Exact(fs, path) ==
    \/ ~Moves(fs, Walk(fs, path))
    \/ \A n \in Nat : Moves(fs, After(fs, Start(path), n))

\* The walk along the path ends at c.
Arrives(fs, path, c) ==
    \E n \in Nat : After(fs, Start(path), n) = [at |-> c, rest |-> <<>>, own |-> 0]

LEMMA WalkFacts ==
    ASSUME NEW fs \in Trees, NEW path \in Locations
    PROVE  /\ MaxSteps \in Nat /\ Start(path) \in Walks /\ Sound(fs, Start(path))
           /\ Walk(fs, path) \in Walks /\ Sound(fs, Walk(fs, path))
           /\ Walk(fs, path) = After(fs, Start(path), MaxSteps)
BY WorkspaceAssumption, StartSound, AfterSteps, AfterSound DEF Walk

LEMMA ExactEnd ==
    ASSUME NEW fs \in Trees, NEW path \in Locations, Exact(fs, path),
           NEW n \in Nat, ~Moves(fs, After(fs, Start(path), n))
    PROVE  Walk(fs, path) = After(fs, Start(path), n)
<1>1. ~Moves(fs, After(fs, Start(path), MaxSteps))
    BY WalkFacts DEF Exact
<1>2. CASE n <= MaxSteps
    BY <1>2, WalkFacts, Ended
<1>3. CASE MaxSteps <= n
    BY <1>1, <1>3, WalkFacts, Ended
<1> QED
    BY <1>2, <1>3, WalkFacts

\* A walk that neither ends nor makes anything, however late, leads nowhere.
LEMMA Late ==
    ASSUME NEW fs \in Trees, NEW path \in Locations, NEW n \in Nat,
           \A m \in Nat : n <= m => After(fs, Start(path), m).rest # <<>>
    PROVE  /\ Canonicalize(fs, path) = Nothing
           /\ (\A m \in Nat : n <= m => ~Makes(fs, After(fs, Start(path), m)))
                 => Landing(fs, path) = Nothing
<1>1. CASE Moves(fs, Walk(fs, path))
    BY <1>1 DEF Moves, Makes, Canonicalize, Landing
<1>2. CASE ~Moves(fs, Walk(fs, path))
    <2>1. PICK m \in Nat : n <= m /\ MaxSteps <= m
        BY WalkFacts
    <2>2. Walk(fs, path) = After(fs, Start(path), m)
        BY <1>2, <2>1, WalkFacts, Ended
    <2> QED
        BY <2>1, <2>2 DEF Canonicalize, Landing
<1> QED
    BY <1>1, <1>2

LEMMA CanonicalThere ==
    ASSUME NEW fs \in Trees, NEW path \in Locations, Canonicalize(fs, path) # Nothing
    PROVE  /\ Arrives(fs, path, Canonicalize(fs, path))
           /\ Here(fs, Canonicalize(fs, path)) /\ Canonicalize(fs, path) \in Locations
<1> DEFINE w == Walk(fs, path)
<1>1. w.rest = <<>> /\ w.at = Canonicalize(fs, path)
    BY DEF Canonicalize
<1>2. w \in Walks /\ Sound(fs, w) /\ w = After(fs, Start(path), MaxSteps) /\ MaxSteps \in Nat
    BY WalkFacts
<1>3. w.own = 0
    <2>1. w.own \in Nat /\ w.own <= Len(w.rest) /\ Len(<<>>) = 0
        BY <1>2 DEF Sound, Walks
    <2> HIDE DEF w
    <2> QED
        BY <1>1, <2>1
<1>4. w = [at |-> w.at, rest |-> w.rest, own |-> w.own] /\ w.at \in Locations
    BY <1>2 DEF Walks
<1> HIDE DEF w
<1>5. w = [at |-> Canonicalize(fs, path), rest |-> <<>>, own |-> 0]
    BY <1>1, <1>3, <1>4
<1> QED
    BY <1>1, <1>2, <1>4, <1>5 DEF Arrives, Sound

LEMMA CanonicalNot ==
    ASSUME NEW fs \in Trees, NEW path \in Locations, Exact(fs, path),
           Canonicalize(fs, path) = Nothing, NEW n \in Nat
    PROVE  After(fs, Start(path), n).rest # <<>>
<1> SUFFICES ASSUME After(fs, Start(path), n).rest = <<>> PROVE FALSE
    OBVIOUS
<1>1. Walk(fs, path) = After(fs, Start(path), n)
    BY ExactEnd DEF Moves
<1>2. Walk(fs, path).at \in Locations
    BY WalkFacts DEF Walks
<1> QED
    BY <1>1, <1>2, WorkspaceAssumption DEF Canonicalize

LEMMA ArrivesThere ==
    ASSUME NEW fs \in Trees, NEW path \in Locations, Exact(fs, path), NEW c, Arrives(fs, path, c)
    PROVE  Canonicalize(fs, path) = c /\ Landing(fs, path) = c
<1>1. PICK n \in Nat : After(fs, Start(path), n) = [at |-> c, rest |-> <<>>, own |-> 0]
    BY DEF Arrives
<1>2. Walk(fs, path) = [at |-> c, rest |-> <<>>, own |-> 0]
    BY <1>1, ExactEnd DEF Moves
<1> QED
    BY <1>2 DEF Canonicalize, Landing, Makes

\* A step to a directory, or to the file at the end of the path.
LEMMA StepIn ==
    ASSUME NEW fs \in Trees, NEW d \in Locations, NEW n \in STRING \ Dots,
           Node(fs, Append(d, n)).kind \in {"dir", "file"}
    PROVE  Step(fs, [at |-> d, rest |-> <<n>>, own |-> 1]) =
               [at |-> Append(d, n), rest |-> <<>>, own |-> 0]
<1> DEFINE w == [at |-> d, rest |-> <<n>>, own |-> 1]
<1>1. w.rest = <<n>> /\ w.at = d /\ w.own = 1
    OBVIOUS
<1>2. <<n>> # <<>> /\ Head(<<n>>) = n /\ Tail(<<n>>) = <<>> /\ Len(<<n>>) = 1
    OBVIOUS
<1> HIDE DEF w
<1>3. Name(w) = n /\ Ahead(fs, w).kind \in {"dir", "file"} /\ Tail(w.rest) = <<>>
    BY <1>1, <1>2 DEF Name, Ahead
<1>4. Moves(fs, w) /\ ~Follows(fs, w)
    BY <1>1, <1>2, <1>3 DEF Moves, Follows
<1>5. Move(fs, w) = [at |-> Append(d, n), rest |-> <<>>, own |-> 0]
    BY <1>1, <1>2, <1>3, <1>4 DEF Move, Dots
<1> QED
    BY <1>4, <1>5 DEF Step, w

\* What is somewhere is found there.
LEMMA HereArrives ==
    ASSUME NEW fs \in Trees, NEW c, Here(fs, c)
    PROVE  c \in Locations /\ Arrives(fs, c, c)
<1>1. CASE Dirs(fs, c)
    <2>1. c \in Locations /\ Len(c) \in Nat /\ <<>> \in Locations /\ Len(<<>>) = 0
        BY <1>1, LocationFacts DEF Dirs
    <2>2. c \o <<>> = c
        BY <2>1, ConcatEmptySeq DEF Locations
    <2>3. After(fs, Start(c \o <<>>), Len(c)) = [at |-> c, rest |-> <<>>, own |-> Len(<<>>)]
        BY <1>1, <2>1, Through
    <2> QED
        BY <2>1, <2>2, <2>3 DEF Arrives
<1>2. ASSUME NEW d \in Locations, NEW n \in STRING \ Dots,
             Dirs(fs, d), c = Append(d, n), Node(fs, c).kind = "file"
      PROVE  c \in Locations /\ Arrives(fs, c, c)
    <2>1. c \in Locations /\ c = d \o <<n>> /\ <<n>> \in Locations /\ Len(<<n>>) = 1
        BY <1>2, AppendProperties, AppendIsConcat DEF Locations
    <2>2. Len(d) \in Nat /\ Len(d) + 1 \in Nat
        BY LocationFacts
    <2>3. After(fs, Start(c), Len(d)) = [at |-> d, rest |-> <<n>>, own |-> 1]
        BY <1>2, <2>1, Through
    <2>4. After(fs, Start(c), Len(d) + 1) = Step(fs, After(fs, Start(c), Len(d)))
        BY <2>1, <2>2, StartSound, AfterSteps
    <2>5. After(fs, Start(c), Len(d) + 1) = [at |-> c, rest |-> <<>>, own |-> 0]
        BY <1>2, <2>3, <2>4, StepIn
    <2> QED
        BY <2>1, <2>2, <2>5 DEF Arrives
<1> QED
    BY <1>1, <1>2 DEF Here

\* The path goes on where it arrives; behind a file it ends.
Stuck(fs, w) == ~Moves(fs, w) /\ w.rest # <<>> /\ Ahead(fs, w).kind = "file"

LEMMA Onward ==
    ASSUME NEW fs \in Trees, NEW path \in Locations, NEW c, Arrives(fs, path, c),
           NEW q \in Locations, q # <<>>
    PROVE  /\ Dirs(fs, c) => \E n \in Nat :
                After(fs, Start(path \o q), n) = [at |-> c, rest |-> q, own |-> Len(q)]
           /\ ~Dirs(fs, c) => \E n \in Nat : Stuck(fs, After(fs, Start(path \o q), n))
<1> DEFINE w == Start(path)
           T == {n \in Nat : After(fs, w, n).rest = <<>>}
<1>1. Start(path \o q) = Extend(w, q)
    <2>1. Len(path \o q) = Len(path) + Len(q)
        BY ConcatProperties DEF Locations
    <2> QED
        BY <2>1 DEF Start, Extend
<1>2. w \in Walks /\ Sound(fs, w)
    BY StartSound
<1>3. PICK a \in Nat : After(fs, w, a) = [at |-> c, rest |-> <<>>, own |-> 0]
    BY DEF Arrives
<1>4. a \in T
    BY <1>3
<1>5. T \in SUBSET Nat /\ T # {}
    BY <1>4
<1> HIDE DEF w, T
<1>6. PICK n \in T : \A m \in T : n <= m
    BY <1>5, LeastNumber
<1>7. n \in Nat /\ n <= a /\ After(fs, w, n).rest = <<>>
    BY <1>4, <1>6 DEF T
<1>8. After(fs, w, n) = [at |-> c, rest |-> <<>>, own |-> 0]
    <2>1. ~Moves(fs, After(fs, w, n))
        BY <1>7 DEF Moves
    <2> QED
        BY <1>2, <1>3, <1>7, <2>1, Ended
<1>9. \A i \in 0..(n - 1) : i \in Nat /\ After(fs, w, i).rest # <<>>
    <2> TAKE i \in 0..(n - 1)
    <2>1. i \in Nat /\ ~(n <= i)
        BY <1>7
    <2> QED
        BY <1>6, <2>1 DEF T
<1>10. ASSUME NEW i \in 0..(n - 1), FileLast(fs, After(fs, w, i)) PROVE i = n - 1
    <2>1. i \in Nat /\ After(fs, w, i) \in Walks /\ After(fs, w, i).rest # <<>>
        BY <1>2, <1>9, AfterSteps
    <2>2. Moves(fs, After(fs, w, i))
        BY <1>10, <2>1 DEF Moves, FileLast
    <2>3. After(fs, w, i + 1) = Move(fs, After(fs, w, i))
        BY <1>2, <2>1, <2>2, AfterSteps DEF Step
    <2>4. ~Follows(fs, After(fs, w, i))
        BY <1>10 DEF FileLast, Follows
    <2>5. After(fs, w, i + 1).rest = <<>> /\ i + 1 \in Nat
        <3>1. Move(fs, After(fs, w, i)).rest = Tail(After(fs, w, i).rest)
            BY <2>4 DEF Move
        <3>2. Tail(After(fs, w, i).rest) = <<>>
            BY <1>10 DEF FileLast
        <3>3. i + 1 \in Nat
            BY <2>1
        <3> QED
            BY <2>3, <3>1, <3>2, <3>3
    <2>6. n <= i + 1
        BY <1>6, <2>5 DEF T
    <2> QED
        BY <1>7, <2>6
<1>11. CASE n = 0
    <2>1. w = [at |-> c, rest |-> <<>>, own |-> 0]
        BY <1>2, <1>8, <1>11, AfterSteps
    <2>2. c = <<>>
        BY <2>1 DEF w, Start
    <2>3. Extend(w, q) = [at |-> c, rest |-> q, own |-> Len(q)]
        <3>1. <<>> \o q = q /\ 0 + Len(q) = Len(q)
            BY ConcatEmptySeq, LocationFacts DEF Locations
        <3> QED
            BY <2>1, <3>1 DEF Extend
    <2>4. After(fs, Extend(w, q), 0) = Extend(w, q) /\ 0 \in Nat
        BY <1>2, ExtendType, AfterSteps
    <2> QED
        BY <1>1, <2>2, <2>3, <2>4, DirsRoot
<1>12. CASE n # 0
    <2> DEFINE v == After(fs, w, n - 1)
    <2>1. n - 1 \in Nat /\ (n - 1) + 1 = n /\ n - 1 \in 0..(n - 1)
        BY <1>7, <1>12
    <2>2. v \in Walks /\ Sound(fs, v) /\ v.rest # <<>>
        BY <1>2, <1>9, <2>1, AfterSteps, AfterSound
    <2>3. After(fs, w, n) = Step(fs, v)
        BY <1>2, <2>1, AfterSteps
    <2>4. Moves(fs, v)
        BY <1>7, <2>2, <2>3 DEF Step
    <2>5. \A i \in 0..((n - 1) - 1) : Going(fs, After(fs, w, i))
        <3> TAKE i \in 0..((n - 1) - 1)
        <3>1. i \in 0..(n - 1) /\ i # n - 1
            BY <2>1
        <3> QED
            BY <1>9, <1>10, <3>1 DEF Going
    <2>6. After(fs, Extend(w, q), n - 1) = Extend(v, q)
        BY <1>2, <2>1, <2>5, ExtendAfter
    <2> HIDE DEF v
    <2>7. CASE FileLast(fs, v)
        <3>1. Stuck(fs, Extend(v, q))
            BY <2>2, <2>7, ExtendMoves, ExtendFront DEF Stuck, FileLast
        <3>2. ~Dirs(fs, c)
            <4>1. ~Follows(fs, v) /\ Name(v) \notin Dots /\ Ahead(fs, v).kind = "file"
                BY <2>7 DEF FileLast, Follows
            <4>2. c = Append(v.at, Name(v))
                BY <1>8, <2>3, <2>4, <4>1 DEF Step, Move, Dots
            <4>3. Node(fs, c).kind = "file"
                BY <4>1, <4>2 DEF Ahead
            <4>4. c \in Locations /\ c # <<>> /\ SubSeq(c, 1, Len(c)) = c /\ Len(c) \in 1..Len(c)
                <5>1. c \in Locations
                    BY <2>2, <4>2, RestType
                <5>2. c # <<>>
                    BY <2>2, <4>2, RestType, Appended DEF Walks
                <5> QED
                    BY <5>1, <5>2, LocationFacts, Whole
            <4> QED
                BY <4>3, <4>4 DEF Dirs
        <3> QED
            BY <1>1, <2>1, <2>6, <3>1, <3>2
    <2>8. CASE ~FileLast(fs, v)
        <3>1. Dirs(fs, c)
            BY <1>8, <2>2, <2>3, <2>4, <2>8, MoveSound DEF Step
        <3>2. Step(fs, Extend(v, q)) = Extend(Step(fs, v), q)
            BY <2>2, <2>8, ExtendMoves
        <3>3. After(fs, Extend(w, q), (n - 1) + 1) = Step(fs, Extend(v, q))
            BY <1>2, <2>1, <2>6, ExtendType, AfterSteps
        <3>4. Extend(Step(fs, v), q) = [at |-> c, rest |-> q, own |-> Len(q)]
            <4>1. <<>> \o q = q /\ 0 + Len(q) = Len(q)
                BY ConcatEmptySeq, LocationFacts DEF Locations
            <4>2. Step(fs, v) = [at |-> c, rest |-> <<>>, own |-> 0]
                BY <1>8, <2>3
            <4>3. Step(fs, v).at = c /\ Step(fs, v).rest = <<>> /\ Step(fs, v).own = 0
                BY <4>2
            <4> QED
                BY <4>1, <4>3 DEF Extend
        <3> QED
            BY <1>1, <1>7, <2>1, <3>1, <3>2, <3>3, <3>4
    <2> QED
        BY <2>7, <2>8
<1> QED
    BY <1>11, <1>12

\* What a path leads to is decided by where its walk is from some step on.
LEMMA Endless ==
    ASSUME NEW fs \in Trees, NEW path \in Locations, NEW n \in Nat,
           \A k \in Nat : Moves(fs, After(fs, After(fs, Start(path), n), k))
    PROVE  Canonicalize(fs, path) = Nothing /\ Landing(fs, path) = Nothing
<1> DEFINE w == Start(path)
<1>1. w \in Walks
    BY StartSound
<1> HIDE DEF w
<1>2. ASSUME NEW m \in Nat, n <= m
      PROVE  After(fs, w, m).rest # <<>> /\ ~Makes(fs, After(fs, w, m))
    <2>1. m - n \in Nat /\ n + (m - n) = m
        BY <1>2
    <2>2. After(fs, After(fs, w, n), m - n) = After(fs, w, m)
        BY <1>1, <2>1, AfterAfter
    <2>3. Moves(fs, After(fs, w, m))
        BY <2>1, <2>2 DEF w
    <2> QED
        BY <2>3 DEF Moves, Makes
<1> QED
    BY <1>2, Late DEF w

LEMMA Together ==
    ASSUME NEW fs \in Trees, NEW p \in Locations, NEW q \in Locations, Exact(fs, p), Exact(fs, q),
           NEW n \in Nat, NEW m \in Nat, After(fs, Start(p), n) = After(fs, Start(q), m)
    PROVE  Canonicalize(fs, p) = Canonicalize(fs, q) /\ Landing(fs, p) = Landing(fs, q)
<1> DEFINE v == After(fs, Start(p), n)
<1>1. Start(p) \in Walks /\ Start(q) \in Walks
    BY StartSound
<1>2. \A k \in Nat : /\ After(fs, v, k) = After(fs, Start(p), n + k)
                     /\ After(fs, v, k) = After(fs, Start(q), m + k)
                     /\ n + k \in Nat /\ m + k \in Nat
    BY <1>1, AfterAfter
<1>3. CASE \E k \in Nat : ~Moves(fs, After(fs, v, k))
    <2>1. PICK k \in Nat : ~Moves(fs, After(fs, v, k))
        BY <1>3
    <2> HIDE DEF v
    <2>2. Walk(fs, p) = After(fs, v, k) /\ Walk(fs, q) = After(fs, v, k)
        BY <1>2, <2>1, ExactEnd
    <2> QED
        BY <2>2 DEF Canonicalize, Landing
<1>4. CASE \A k \in Nat : Moves(fs, After(fs, v, k))
    <2>1. Canonicalize(fs, p) = Nothing /\ Landing(fs, p) = Nothing
        BY <1>4, Endless
    <2>2. Canonicalize(fs, q) = Nothing /\ Landing(fs, q) = Nothing
        BY <1>4, Endless
    <2> QED
        BY <2>1, <2>2
<1> QED
    BY <1>3, <1>4

\* Nothing is behind a file, and nothing is made there.
LEMMA BehindFile ==
    ASSUME NEW fs \in Trees, NEW path \in Locations, Exact(fs, path),
           NEW n \in Nat, Stuck(fs, After(fs, Start(path), n))
    PROVE  Canonicalize(fs, path) = Nothing /\ Landing(fs, path) = Nothing
<1>1. Walk(fs, path) = After(fs, Start(path), n)
    BY ExactEnd DEF Stuck
<1>2. Stuck(fs, Walk(fs, path))
    BY <1>1
<1>3. Canonicalize(fs, path) = Nothing
    BY <1>2 DEF Stuck, Canonicalize
<1>4. ~Makes(fs, Walk(fs, path))
    BY <1>2 DEF Stuck, Makes
<1> QED
    BY <1>3, <1>4 DEF Landing

\* The first part of a path may be put as the location of what it names.
LEMMA SameLanding ==
    ASSUME NEW fs \in Trees, NEW s \in Locations, NEW c, Arrives(fs, s, c), Here(fs, c),
           NEW q \in Locations, Exact(fs, s \o q), Exact(fs, c \o q)
    PROVE  /\ Canonicalize(fs, s \o q) = Canonicalize(fs, c \o q)
           /\ Landing(fs, s \o q) = Landing(fs, c \o q)
<1>1. c \in Locations /\ Arrives(fs, c, c)
    BY HereArrives
<1>2. s \o q \in Locations /\ c \o q \in Locations
    BY <1>1, ConcatProperties DEF Locations
<1>3. CASE q = <<>>
    <2>1. s \o q = s /\ c \o q = c
        BY <1>1, <1>3, ConcatEmptySeq DEF Locations
    <2>2. Canonicalize(fs, s) = c /\ Landing(fs, s) = c
        BY <2>1, ArrivesThere
    <2>3. Canonicalize(fs, c) = c /\ Landing(fs, c) = c
        BY <1>1, <2>1, ArrivesThere
    <2> QED
        BY <2>1, <2>2, <2>3
<1>4. CASE q # <<>> /\ Dirs(fs, c)
    <2>1. PICK n \in Nat : After(fs, Start(s \o q), n) = [at |-> c, rest |-> q, own |-> Len(q)]
        BY <1>4, Onward
    <2>2. PICK m \in Nat : After(fs, Start(c \o q), m) = [at |-> c, rest |-> q, own |-> Len(q)]
        BY <1>1, <1>4, Onward
    <2>3. After(fs, Start(s \o q), n) = After(fs, Start(c \o q), m)
        BY <2>1, <2>2
    <2> QED
        BY <1>2, <2>3, Together
<1>5. CASE q # <<>> /\ ~Dirs(fs, c)
    <2>1. PICK n \in Nat : Stuck(fs, After(fs, Start(s \o q), n))
        BY <1>5, Onward
    <2>2. PICK m \in Nat : Stuck(fs, After(fs, Start(c \o q), m))
        BY <1>1, <1>5, Onward
    <2>3. Canonicalize(fs, s \o q) = Nothing /\ Landing(fs, s \o q) = Nothing
        BY <1>2, <2>1, BehindFile
    <2>4. Canonicalize(fs, c \o q) = Nothing /\ Landing(fs, c \o q) = Nothing
        BY <1>2, <2>2, BehindFile
    <2> QED
        BY <2>3, <2>4
<1> QED
    BY <1>3, <1>4, <1>5

LEMMA Single ==
    ASSUME NEW S, NEW x \in S
    PROVE  <<x>> \in Seq(S)
OBVIOUS

LEMMA Fronted ==
    ASSUME NEW h \in STRING \ Dots, NEW more \in Locations
    PROVE  /\ <<h>> \o more \in Locations /\ <<h>> \o more # <<>>
           /\ Head(<<h>> \o more) = h /\ Tail(<<h>> \o more) = more
           /\ Len(<<h>> \o more) = 1 + Len(more) /\ Len(more) \in Nat
           /\ (<<h>> \o more)[1] = h
<1>0. <<h>> \in Locations
    <2>1. h \in STRING
        OBVIOUS
    <2> QED
        BY <2>1, Single DEF Locations
<1> DEFINE r == <<h>> \o more
<1>1. /\ r \in Seq(STRING) /\ Len(r) = 1 + Len(more)
      /\ \A j \in 1..(1 + Len(more)) : r[j] = IF j <= 1 THEN h ELSE more[j - 1]
    <2> DEFINE s == <<h>>
    <2>1. s \in Seq(STRING) /\ more \in Seq(STRING) /\ Len(s) = 1 /\ s[1] = h
        <3>1. more \in Seq(STRING)
            BY DEF Locations
        <3>2. s \in Seq(STRING)
            BY <1>0 DEF Locations
        <3>3. Len(s) = 1 /\ s[1] = h
            OBVIOUS
        <3> QED
            BY <3>1, <3>2, <3>3
    <2> HIDE DEF s
    <2>2. /\ s \o more \in Seq(STRING) /\ Len(s \o more) = 1 + Len(more)
          /\ \A j \in 1..(1 + Len(more)) : (s \o more)[j] = IF j <= 1 THEN s[j] ELSE more[j - 1]
        BY <2>1, ConcatProperties
    <2>3. \A j \in 1..(1 + Len(more)) : j <= 1 => j = 1
        OBVIOUS
    <2> QED
        BY <2>1, <2>2, <2>3 DEF s
<1>2. Len(more) \in Nat
    BY LocationFacts
<1> HIDE DEF r
<1>3. r # <<>>
    BY <1>1, <1>2, EmptySeq
<1>4. Head(r) = h /\ r[1] = h
    <2>1. 1 \in 1..(1 + Len(more)) /\ 1 <= 1
        BY <1>2
    <2>2. r[1] = h
        BY <1>1, <2>1
    <2>3. Head(r) = r[1]
        BY <1>1, <1>3
    <2> QED
        BY <2>2, <2>3
<1>5. /\ Tail(r) \in Seq(STRING) /\ Len(Tail(r)) = Len(more)
      /\ \A j \in 1..Len(more) : Tail(r)[j] = r[j + 1]
    BY <1>1, <1>2, <1>3, HeadTailProperties
<1>6. \A j \in 1..Len(more) : r[j + 1] = more[j]
    <2> TAKE j \in 1..Len(more)
    <2>1. j + 1 \in 1..(1 + Len(more)) /\ ~(j + 1 <= 1) /\ (j + 1) - 1 = j
        BY <1>2
    <2> QED
        BY <1>1, <2>1
<1>7. Tail(r) = more
    BY <1>5, <1>6, SeqEqual DEF Locations
<1> QED
    BY <1>1, <1>2, <1>3, <1>4, <1>7 DEF r, Locations

\* Below a directory, with nothing of that name in it: the path is made there.
LEMMA Made ==
    ASSUME NEW fs \in Trees, NEW c, Dirs(fs, c), NEW h \in STRING \ Dots, NEW more \in Locations,
           Node(fs, Append(c, h)).kind = "absent", Exact(fs, c \o (<<h>> \o more))
    PROVE  /\ Canonicalize(fs, c \o (<<h>> \o more)) = Nothing
           /\ Landing(fs, c \o (<<h>> \o more)) = c \o (<<h>> \o more)
<1> DEFINE r == <<h>> \o more
           v == [at |-> c, rest |-> r, own |-> Len(r)]
<1>1. /\ r \in Locations /\ r # <<>> /\ Head(r) = h /\ c \in Locations /\ Len(c) \in Nat
      /\ Len(r) \in Nat
    BY Fronted, LocationFacts DEF Dirs
<1> HIDE DEF r
<1>2. After(fs, Start(c \o r), Len(c)) = v
    BY <1>1, Through
<1>3. v.at = c /\ v.rest = r /\ v.own = Len(r)
    OBVIOUS
<1> HIDE DEF v
<1>4. Name(v) = h /\ Ahead(fs, v).kind = "absent"
    BY <1>1, <1>3 DEF Name, Ahead
<1>5. ~Moves(fs, v)
    BY <1>4 DEF Moves
<1>6. Makes(fs, v)
    BY <1>1, <1>3, <1>4, <1>5 DEF Makes
<1>7. Walk(fs, c \o r) = v
    <2>1. c \o r \in Locations
        BY <1>1, ConcatProperties DEF Locations
    <2>2. Exact(fs, c \o r)
        BY DEF r
    <2> QED
        BY <1>1, <1>2, <1>5, <2>1, <2>2, ExactEnd
<1>8. Canonicalize(fs, c \o r) = Nothing /\ Landing(fs, c \o r) = c \o r
    BY <1>1, <1>3, <1>6, <1>7 DEF Canonicalize, Landing
<1> QED
    BY <1>8 DEF r

\* Of the next name nothing is there, or a link that leads nowhere.
LEMMA BlockedKind ==
    ASSUME NEW fs \in Trees, NEW p \in Locations, Exact(fs, p), Canonicalize(fs, p) = Nothing,
           NEW c \in Locations, NEW h \in STRING \ Dots, NEW n \in Nat,
           After(fs, Start(p), n) = [at |-> c, rest |-> <<h>>, own |-> 1]
    PROVE  Node(fs, Append(c, h)).kind \in {"absent", "link"}
<1> SUFFICES ASSUME Node(fs, Append(c, h)).kind \notin {"absent", "link"} PROVE FALSE
    OBVIOUS
<1>1. Node(fs, Append(c, h)).kind \in {"dir", "file"}
    BY NodeType, Kinds
<1>2. After(fs, Start(p), n + 1) = Step(fs, [at |-> c, rest |-> <<h>>, own |-> 1])
    <2>1. Start(p) \in Walks
        BY StartSound
    <2>2. After(fs, Start(p), n + 1) = Step(fs, After(fs, Start(p), n))
        BY <2>1, AfterSteps
    <2> QED
        BY <2>2
<1>3. After(fs, Start(p), n + 1) = [at |-> Append(c, h), rest |-> <<>>, own |-> 0]
    BY <1>1, <1>2, StepIn
<1>4. n + 1 \in Nat /\ After(fs, Start(p), n + 1).rest = <<>>
    BY <1>3
<1> QED
    BY <1>4, CanonicalNot

\* What is left of a path does not become more its own.
LEMMA OwnFalls ==
    ASSUME NEW fs \in Trees, NEW w \in Walks, w.own = 0, NEW n \in Nat
    PROVE  After(fs, w, n).own = 0
<1> DEFINE T == {i \in Nat : After(fs, w, i).own = 0}
<1>1. 0 \in T
    BY AfterSteps
<1>2. ASSUME NEW i \in Nat, i \in T PROVE i + 1 \in T
    <2> DEFINE v == After(fs, w, i)
    <2>1. v \in Walks /\ v.own = 0 /\ After(fs, w, i + 1) = Step(fs, v)
        BY <1>2, AfterSteps
    <2> HIDE DEF v
    <2>2. Step(fs, v).own = 0
        <3>1. CASE ~Moves(fs, v)
            BY <2>1, <3>1 DEF Step
        <3>2. CASE Moves(fs, v)
            <4>1. Len(v.rest) \in Nat \ {0}
                BY <2>1, <3>2, RestType DEF Moves
            <4>2. Move(fs, v).own = IF v.own < Len(v.rest) THEN v.own ELSE Len(v.rest) - 1
                BY DEF Move
            <4> QED
                BY <2>1, <3>2, <4>1, <4>2 DEF Step
        <3> QED
            BY <3>1, <3>2
    <2> QED
        BY <2>1, <2>2
<1> HIDE DEF T
<1>3. Nat \subseteq T
    BY <1>1, <1>2, Always
<1> QED
    BY <1>3 DEF T

\* Behind a link that leads nowhere nothing is, and nothing is made.
LEMMA BehindLink ==
    ASSUME NEW fs \in Trees, NEW p \in Locations, Exact(fs, p), Canonicalize(fs, p) = Nothing,
           NEW c, Dirs(fs, c), NEW h \in STRING \ Dots, NEW n \in Nat,
           After(fs, Start(p), n) = [at |-> c, rest |-> <<h>>, own |-> 1],
           Node(fs, Append(c, h)).kind = "link",
           NEW more \in Locations, more # <<>>
    PROVE  /\ Canonicalize(fs, c \o (<<h>> \o more)) = Nothing
           /\ Landing(fs, c \o (<<h>> \o more)) = Nothing
<1> DEFINE v == After(fs, Start(p), n)
           r == <<h>> \o more
           x == Extend(v, more)
           start == Start(c \o r)
<1>1. /\ r \in Locations /\ Len(r) = 1 + Len(more) /\ c \in Locations /\ Len(c) \in Nat
      /\ Len(more) \in Nat \ {0} /\ c \o r \in Locations
    BY Fronted, LocationFacts, ConcatProperties DEF Dirs, Locations
<1>2. v \in Walks /\ v.at = c /\ v.rest = <<h>> /\ v.own = 1
    BY StartSound, AfterSteps
<1>3. x = [at |-> c, rest |-> r, own |-> Len(r)]
    <2> HIDE DEF v
    <2>1. v.own + Len(more) = Len(r)
        BY <1>1, <1>2
    <2> QED
        BY <1>2, <2>1 DEF Extend
<1>4. start \in Walks /\ After(fs, start, Len(c)) = x
    BY <1>1, <1>3, StartSound, Through
<1>5. \A k \in Nat : After(fs, v, k).rest # <<>>
    <2> TAKE k \in Nat
    <2>1. After(fs, v, k) = After(fs, Start(p), n + k) /\ n + k \in Nat
        BY StartSound, AfterAfter
    <2> QED
        BY <2>1, CanonicalNot
<1> HIDE DEF v, x, r, start
<1>6. \A k \in Nat : Going(fs, After(fs, v, k))
    <2> TAKE k \in Nat
    <2> DEFINE u == After(fs, v, k)
    <2>1. u \in Walks /\ u.rest # <<>> /\ k + 1 \in Nat /\ After(fs, v, k + 1) = Step(fs, u)
        BY <1>2, <1>5, AfterSteps
    <2> HIDE DEF u
    <2>2. ~FileLast(fs, u)
        <3> SUFFICES ASSUME FileLast(fs, u) PROVE FALSE
            OBVIOUS
        <3>1. Moves(fs, u) /\ ~Follows(fs, u)
            BY <2>1 DEF FileLast, Moves, Follows
        <3>2. Step(fs, u).rest = <<>>
            BY <3>1 DEF FileLast, Step, Move
        <3> QED
            BY <1>5, <2>1, <3>2
    <2> QED
        BY <2>1, <2>2 DEF Going, u
<1>7. \A k \in Nat : After(fs, x, k) = Extend(After(fs, v, k), more)
    <2> TAKE k \in Nat
    <2>1. \A i \in 0..(k - 1) : Going(fs, After(fs, v, i))
        BY <1>6
    <2> QED
        BY <1>2, <2>1, ExtendAfter DEF x
<1>8. \A k \in Nat : k >= 1 => After(fs, v, k).own = 0
    <2> TAKE k \in Nat
    <2> HAVE k >= 1
    <2>1. k - 1 \in Nat /\ 1 + (k - 1) = k /\ 0 \in Nat /\ 0 + 1 = 1 /\ 1 \in Nat
        OBVIOUS
    <2>2. After(fs, v, 1) = Step(fs, v) /\ After(fs, v, 1) \in Walks
        BY <1>2, <2>1, AfterSteps
    <2>3. Step(fs, v).own = 0
        <3>1. Name(v) = h /\ Ahead(fs, v).kind = "link" /\ v.rest # <<>> /\ Len(v.rest) = 1
            BY <1>2 DEF Name, Ahead
        <3>2. Moves(fs, v)
            BY <3>1 DEF Moves
        <3>3. Move(fs, v).own = IF v.own < Len(v.rest) THEN v.own ELSE Len(v.rest) - 1
            BY DEF Move
        <3> QED
            BY <1>2, <3>1, <3>2, <3>3 DEF Step
    <2>4. After(fs, After(fs, v, 1), k - 1) = After(fs, v, k)
        BY <1>2, <2>1, AfterAfter
    <2> QED
        BY <2>1, <2>2, <2>3, <2>4, OwnFalls
<1>9. Len(c) + 1 \in Nat
    BY <1>1
<1>10. ASSUME NEW m \in Nat, Len(c) + 1 <= m
       PROVE  After(fs, start, m).rest # <<>> /\ ~Makes(fs, After(fs, start, m))
    <2> DEFINE k == m - Len(c)
    <2>1. k \in Nat /\ k >= 1 /\ Len(c) + k = m
        BY <1>1, <1>10
    <2> HIDE DEF k
    <2> DEFINE u == After(fs, v, k)
               y == After(fs, start, m)
    <2>2. y = Extend(u, more)
        BY <1>1, <1>4, <1>7, <2>1, AfterAfter
    <2>3. u \in Walks /\ u.own = 0 /\ u.rest # <<>>
        BY <1>2, <1>5, <1>8, <2>1, AfterSteps
    <2> HIDE DEF u, y
    <2>4. Len(u.rest) \in Nat \ {0} /\ Len(y.rest) = Len(u.rest) + Len(more) /\ y.rest # <<>>
        BY <2>2, <2>3, RestType, ExtendType, ExtendFront
    <2>5. y.own = Len(more)
        BY <1>1, <2>2, <2>3 DEF Extend
    <2>6. ~(Len(y.rest) <= y.own) /\ Len(y.rest) # 1
        BY <1>1, <2>4, <2>5
    <2> QED
        BY <2>4, <2>6 DEF Makes, y
<1>11. Canonicalize(fs, c \o r) = Nothing /\ Landing(fs, c \o r) = Nothing
    BY <1>1, <1>9, <1>10, Late DEF start
<1> QED
    BY <1>11 DEF r

-------------------------------------------------------------------------------
(* The longest part of a path that is there, and the rest of it. *)

LEMMA SplitAt ==
    ASSUME NEW p \in Locations, NEW k \in 0..Len(p)
    PROVE  /\ SubSeq(p, 1, k) \in Locations /\ SubSeq(p, k + 1, Len(p)) \in Locations
           /\ SubSeq(p, 1, k) \o SubSeq(p, k + 1, Len(p)) = p
           /\ k = Len(p) => SubSeq(p, k + 1, Len(p)) = <<>>
           /\ k < Len(p) => /\ k + 1 \in 1..Len(p) /\ p[k + 1] \in STRING
                            /\ SubSeq(p, k + 2, Len(p)) \in Locations
                            /\ SubSeq(p, k + 1, Len(p)) = <<p[k + 1]>> \o SubSeq(p, k + 2, Len(p))
                            /\ SubSeq(p, 1, k + 1) = SubSeq(p, 1, k) \o <<p[k + 1]>>
<1>1. Len(p) \in Nat /\ p \in Seq(STRING) /\ \A i \in 1..Len(p) : p[i] \in STRING
    BY LocationFacts DEF Locations
<1>2. \A i \in 1..(Len(p) + 2) : SubSeq(p, i, Len(p)) \in Locations
    <2> TAKE i \in 1..(Len(p) + 2)
    <2>1. i \in Int /\ Len(p) \in Int /\ \A j \in i..Len(p) : j \in 1..Len(p)
        BY <1>1
    <2>2. \A j \in i..Len(p) : p[j] \in STRING
        BY <1>1, <2>1
    <2> QED
        BY <2>1, <2>2, SubSeqProperties DEF Locations
<1>3. k + 1 \in 1..(Len(p) + 2) /\ k \in Int /\ k + 1 \in Int
    BY <1>1
<1>4. SubSeq(p, 1, k) \o SubSeq(p, k + 1, Len(p)) = p
    <2>1. 1 \in 1..(Len(p) + 1) /\ k \in (1 - 1)..Len(p) /\ Len(p) \in k..Len(p)
        BY <1>1
    <2>2. SubSeq(p, 1, k) \o SubSeq(p, k + 1, Len(p)) = SubSeq(p, 1, Len(p))
        BY <1>1, <2>1, ConcatAdjacentSubSeq
    <2> QED
        BY <2>2, Whole
<1>5. k = Len(p) => SubSeq(p, k + 1, Len(p)) = <<>>
    <2> SUFFICES ASSUME k = Len(p) PROVE SubSeq(p, k + 1, Len(p)) = <<>>
        OBVIOUS
    <2>1. Len(p) < k + 1 /\ Len(p) \in Int
        BY <1>1
    <2> QED
        BY <1>3, <2>1, SubSeqEmpty
<1>6. ASSUME k < Len(p)
      PROVE  /\ k + 1 \in 1..Len(p) /\ p[k + 1] \in STRING
             /\ SubSeq(p, k + 2, Len(p)) \in Locations
             /\ SubSeq(p, k + 1, Len(p)) = <<p[k + 1]>> \o SubSeq(p, k + 2, Len(p))
             /\ SubSeq(p, 1, k + 1) = SubSeq(p, 1, k) \o <<p[k + 1]>>
    <2>1. /\ k + 1 \in 1..Len(p) /\ Len(p) \in (k + 1)..Len(p) /\ k + 2 \in 1..(Len(p) + 2)
          /\ (k + 1) + 1 = k + 2 /\ 1 \in 1..Len(p) /\ k + 1 \in 1..Len(p) /\ (k + 1) - 1 = k
        BY <1>1, <1>6
    <2>2. SubSeq(p, k + 1, Len(p)) = <<p[k + 1]>> \o SubSeq(p, (k + 1) + 1, Len(p))
        BY <1>1, <2>1, SubSeqRecursiveFirst
    <2>3. SubSeq(p, 1, k + 1) = SubSeq(p, 1, (k + 1) - 1) \o <<p[k + 1]>>
        BY <1>1, <2>1, SubSeqRecursiveSecond
    <2>4. SubSeq(p, k + 2, Len(p)) \in Locations
        BY <1>2, <2>1
    <2> QED
        BY <1>1, <2>1, <2>2, <2>3, <2>4
<1>7. SubSeq(p, 1, k) \in Locations
    BY Prefix
<1>8. SubSeq(p, k + 1, Len(p)) \in Locations
    BY <1>2, <1>3
<1> QED
    BY <1>4, <1>5, <1>6, <1>7, <1>8

\* The root directory is always there.
LEMMA RootThere ==
    ASSUME NEW fs \in Trees
    PROVE  Canonicalize(fs, <<>>) = <<>> /\ Canonicalize(fs, <<>>) # Nothing
<1>1. <<>> \in Locations /\ <<>> # Nothing
    BY WorkspaceAssumption, EmptySeq DEF Locations
<1>2. After(fs, Start(<<>>), 0) = Start(<<>>) /\ ~Moves(fs, Start(<<>>)) /\ 0 \in Nat
    BY <1>1, StartSound, AfterSteps DEF Start, Moves
<1>3. 0 <= MaxSteps /\ MaxSteps \in Nat
    BY WorkspaceAssumption
<1>4. Walk(fs, <<>>) = Start(<<>>)
    BY <1>1, <1>2, <1>3, StartSound, Ended DEF Walk
<1> QED
    BY <1>1, <1>4 DEF Canonicalize, Start

LEMMA ExistingIs ==
    ASSUME NEW fs \in Trees, NEW p \in Locations
    PROVE  /\ Existing(fs, p) \in 0..Len(p)
           /\ Canonicalize(fs, SubSeq(p, 1, Existing(fs, p))) # Nothing
           /\ \A j \in (Existing(fs, p) + 1)..Len(p) : Canonicalize(fs, SubSeq(p, 1, j)) = Nothing
<1> DEFINE There(j) == Canonicalize(fs, SubSeq(p, 1, j)) # Nothing
           T == {n \in Nat : n <= Len(p) /\ There(Len(p) - n)}
<1>1. Len(p) \in Nat
    BY LocationFacts
<1>2. There(0)
    <2>1. SubSeq(p, 1, 0) = <<>>
        BY SubSeqEmpty
    <2> QED
        BY <2>1, RootThere
<1> HIDE DEF There
<1>3. Len(p) \in T
    <2>1. Len(p) - Len(p) = 0
        BY <1>1
    <2> QED
        BY <1>1, <1>2, <2>1
<1>4. T \in SUBSET Nat /\ T # {}
    BY <1>3
<1> HIDE DEF T
<1>5. PICK n \in T : \A m \in T : n <= m
    BY <1>4, LeastNumber
<1>6. n \in Nat /\ n <= Len(p) /\ There(Len(p) - n)
    BY <1>5 DEF T
<1> DEFINE k == Len(p) - n
<1>7. k \in 0..Len(p) /\ There(k)
    BY <1>1, <1>6
<1>8. \A j \in (k + 1)..Len(p) : ~There(j)
    <2> TAKE j \in (k + 1)..Len(p)
    <2>1. Len(p) - j \in Nat /\ Len(p) - j <= Len(p) /\ ~(n <= Len(p) - j) /\ Len(p) - (Len(p) - j) = j
        BY <1>1, <1>6
    <2>2. Len(p) - j \notin T
        BY <1>5, <2>1
    <2>3. There(j) => Len(p) - j \in T
        BY <2>1 DEF T
    <2> QED
        BY <2>2, <2>3
<1> HIDE DEF k
<1>9. \E i \in 0..Len(p) : There(i) /\ \A j \in (i + 1)..Len(p) : ~There(j)
    BY <1>7, <1>8
<1> QED
    BY <1>9 DEF Existing, There

Plain(a) == a \in Locations /\ \A i \in 1..Len(a) : a[i] \notin Dots

\* What is not there, and would be made in a directory.
Missing(fs, a) ==
    \E c \in Locations, h \in STRING \ Dots, more \in Locations :
        /\ a = c \o (<<h>> \o more) /\ Dirs(fs, c)
        /\ Node(fs, Append(c, h)).kind = "absent"

\* What is behind a file, or behind a link or the link itself.
Blocked(fs, a) ==
    \E c \in Locations, h \in STRING \ Dots, more \in Locations :
        /\ a = c \o (<<h>> \o more)
        /\ \/ Here(fs, c) /\ ~Dirs(fs, c)
           \/ Dirs(fs, c) /\ Node(fs, Append(c, h)).kind = "link"

\* MaxSteps is no bound for what CanonicalizeExistingPrefix looks at.
Unbounded(fs, path) ==
    /\ \A k \in 0..Len(path) : Exact(fs, SubSeq(path, 1, k))
    /\ Exact(fs, CanonicalizeExistingPrefix(fs, path))

\* The answer names what was asked for, and is its location wherever the kernel
\* gets that far.
LEMMA RealShape ==
    ASSUME NEW fs \in Trees, NEW p, Plain(p), Unbounded(fs, p),
           NEW res, res = CanonicalizeExistingPrefix(fs, p)
    PROVE  /\ res \in Locations
           /\ Landing(fs, res) = Landing(fs, p) /\ Canonicalize(fs, res) = Canonicalize(fs, p)
           /\ \/ Here(fs, res) /\ Landing(fs, res) = res /\ Canonicalize(fs, res) = res
              \/ Missing(fs, res) /\ Landing(fs, res) = res /\ Canonicalize(fs, res) = Nothing
              \/ /\ Blocked(fs, res) /\ Canonicalize(fs, res) = Nothing
                 /\ Landing(fs, res) = Nothing \/ Node(fs, res).kind = "link"
<1> DEFINE k == Existing(fs, p)
           s == SubSeq(p, 1, k)
           c == Canonicalize(fs, s)
           q == SubSeq(p, k + 1, Len(p))
<1>1. p \in Locations /\ Len(p) \in Nat /\ \A i \in 1..Len(p) : p[i] \notin Dots
    BY LocationFacts DEF Plain
<1>2. /\ k \in 0..Len(p) /\ c # Nothing
      /\ \A j \in (k + 1)..Len(p) : Canonicalize(fs, SubSeq(p, 1, j)) = Nothing
    BY <1>1, ExistingIs
<1>3. res = c \o q
    BY DEF CanonicalizeExistingPrefix
<1> HIDE DEF k
<1>4. s \in Locations /\ q \in Locations /\ s \o q = p /\ (k = Len(p) => q = <<>>)
    BY <1>1, <1>2, SplitAt
<1>5. Arrives(fs, s, c) /\ Here(fs, c) /\ c \in Locations
    BY <1>2, <1>4, CanonicalThere
<1>6. Exact(fs, p) /\ Exact(fs, res) /\ \A j \in 0..Len(p) : Exact(fs, SubSeq(p, 1, j))
    <2>1. Len(p) \in 0..Len(p) /\ SubSeq(p, 1, Len(p)) = p
        BY <1>1, Whole
    <2> QED
        BY <2>1 DEF Unbounded
<1>7. Arrives(fs, c, c)
    BY <1>5, HereArrives
<1>8. res \in Locations
    BY <1>3, <1>4, <1>5, ConcatProperties DEF Locations
<1> HIDE DEF s, c, q
<1>9. Landing(fs, res) = Landing(fs, p) /\ Canonicalize(fs, res) = Canonicalize(fs, p)
    <2>1. Exact(fs, s \o q) /\ Exact(fs, c \o q)
        BY <1>3, <1>4, <1>6
    <2>2. /\ Canonicalize(fs, s \o q) = Canonicalize(fs, c \o q)
          /\ Landing(fs, s \o q) = Landing(fs, c \o q)
        BY <1>4, <1>5, <2>1, SameLanding
    <2> QED
        BY <1>3, <1>4, <2>2
<1>10. CASE k = Len(p)
    <2>1. res = c
        BY <1>3, <1>4, <1>5, <1>10, ConcatEmptySeq DEF Locations
    <2>2. Canonicalize(fs, res) = c /\ Landing(fs, res) = c
        BY <1>5, <1>6, <1>7, <2>1, ArrivesThere
    <2> QED
        BY <1>5, <1>8, <1>9, <2>1, <2>2
<1>11. CASE k # Len(p)
    <2> DEFINE h == p[k + 1]
               more == SubSeq(p, k + 2, Len(p))
               p1 == SubSeq(p, 1, k + 1)
    <2>1. k < Len(p) /\ k + 1 \in 0..Len(p) /\ k + 1 \in (k + 1)..Len(p) /\ k + 1 \in 1..Len(p)
        BY <1>1, <1>2, <1>11
    <2>2. more \in Locations /\ q = <<h>> \o more /\ p1 = s \o <<h>> /\ h \in STRING
        BY <1>1, <1>2, <2>1, SplitAt DEF q, s
    <2>3. h \in STRING \ Dots
        BY <1>1, <2>1, <2>2
    <2>4. p1 \in Locations /\ Exact(fs, p1) /\ Canonicalize(fs, p1) = Nothing
        BY <1>1, <1>2, <1>6, <2>1, Prefix
    <2> HIDE DEF h, more, p1
    <2>5. q # <<>> /\ res = c \o (<<h>> \o more)
        BY <1>3, <2>2, <2>3, Fronted
    <2>6. CASE ~Dirs(fs, c)
        <3>1. PICK n \in Nat : Stuck(fs, After(fs, Start(c \o q), n))
            BY <1>4, <1>5, <1>7, <2>5, <2>6, Onward
        <3>2. Canonicalize(fs, res) = Nothing /\ Landing(fs, res) = Nothing
            BY <1>3, <1>6, <1>8, <3>1, BehindFile
        <3>3. Blocked(fs, res)
            BY <1>5, <2>2, <2>3, <2>5, <2>6 DEF Blocked
        <3> QED
            BY <1>8, <1>9, <3>2, <3>3
    <2>7. CASE Dirs(fs, c)
        <3>1. <<h>> \in Locations /\ <<h>> # <<>> /\ Len(<<h>>) = 1
            <4>1. <<h>> \in Locations
                BY <2>2, Single DEF Locations
            <4> QED
                BY <4>1
        <3>2. PICK n \in Nat : After(fs, Start(s \o <<h>>), n) = [at |-> c, rest |-> <<h>>, own |-> Len(<<h>>)]
            BY <1>4, <1>5, <2>7, <3>1, Onward
        <3>3. After(fs, Start(p1), n) = [at |-> c, rest |-> <<h>>, own |-> 1]
            BY <2>2, <3>1, <3>2
        <3>4. Node(fs, Append(c, h)).kind \in {"absent", "link"}
            BY <1>5, <2>3, <2>4, <3>3, BlockedKind
        <3>5. CASE Node(fs, Append(c, h)).kind = "absent"
            <4>1. Canonicalize(fs, res) = Nothing /\ Landing(fs, res) = res
                <5>1. Exact(fs, c \o (<<h>> \o more))
                    BY <1>6, <2>5
                <5>2. /\ Canonicalize(fs, c \o (<<h>> \o more)) = Nothing
                      /\ Landing(fs, c \o (<<h>> \o more)) = c \o (<<h>> \o more)
                    BY <2>2, <2>3, <2>7, <3>5, <5>1, Made
                <5> QED
                    BY <2>5, <5>2
            <4>2. Missing(fs, res)
                BY <1>5, <2>2, <2>3, <2>5, <2>7, <3>5 DEF Missing
            <4> QED
                BY <1>8, <1>9, <4>1, <4>2
        <3>6. CASE Node(fs, Append(c, h)).kind = "link"
            <4>1. Blocked(fs, res)
                BY <1>5, <2>2, <2>3, <2>5, <2>7, <3>6 DEF Blocked
            <4>2. CASE more # <<>>
                <5>1. Canonicalize(fs, res) = Nothing /\ Landing(fs, res) = Nothing
                    BY <2>2, <2>3, <2>4, <2>5, <2>7, <3>3, <3>6, <4>2, BehindLink
                <5> QED
                    BY <1>8, <1>9, <4>1, <5>1
            <4>3. CASE more = <<>>
                <5>1. <<h>> \o more = <<h>>
                    BY <3>1, <4>3, ConcatEmptySeq DEF Locations
                <5>2. res = Append(c, h)
                    BY <1>5, <2>2, <2>5, <5>1, AppendIsConcat DEF Locations
                <5>3. p = p1
                    BY <1>4, <2>2, <5>1
                <5> QED
                    BY <1>8, <1>9, <2>4, <3>6, <4>1, <5>2, <5>3
            <4> QED
                BY <4>2, <4>3
        <3> QED
            BY <3>4, <3>5, <3>6
    <2> QED
        BY <2>6, <2>7
<1> QED
    BY <1>10, <1>11

-------------------------------------------------------------------------------
(* lexically_normalize. *)

PlainLocations == {a \in Locations : Plain(a)}

\* One component more.
Put(a, name) == IF name = "." THEN a ELSE IF name = ".." THEN Parent(a) ELSE Append(a, name)

LEMMA PutPlain ==
    ASSUME NEW a \in PlainLocations, NEW name \in STRING
    PROVE  Put(a, name) \in PlainLocations
<1>1. a \in Locations /\ Len(a) \in Nat /\ \A i \in 1..Len(a) : a[i] \notin Dots
    BY LocationFacts DEF PlainLocations, Plain
<1>2. CASE name = "."
    BY <1>2 DEF Put
<1>3. CASE name = ".."
    <2>1. Put(a, name) = Parent(a)
        BY <1>3 DEF Put
    <2>2. CASE a = <<>>
        BY <2>1, <2>2 DEF Parent
    <2>3. CASE a # <<>>
        <3>1. /\ Parent(a) \in Locations /\ Len(a) \in Nat \ {0} /\ Len(Parent(a)) = Len(a) - 1
              /\ \A i \in 1..(Len(a) - 1) : Parent(a)[i] = a[i]
            BY <1>1, <2>3, ParentType
        <3>2. \A i \in 1..(Len(a) - 1) : i \in 1..Len(a)
            BY <3>1
        <3>3. \A i \in 1..Len(Parent(a)) : Parent(a)[i] \notin Dots
            BY <1>1, <3>1, <3>2
        <3> QED
            BY <2>1, <3>1, <3>3 DEF PlainLocations, Plain
    <2> QED
        BY <2>2, <2>3
<1>4. CASE name \notin Dots
    <2> DEFINE b == Append(a, name)
    <2>1. Put(a, name) = b
        BY <1>4 DEF Put, Dots
    <2>2. /\ b \in Locations /\ Len(b) = Len(a) + 1 /\ b[Len(a) + 1] = name
          /\ \A i \in 1..Len(a) : b[i] = a[i]
        BY <1>1, Appended
    <2> HIDE DEF b
    <2>3. \A i \in 1..Len(b) : i \in 1..Len(a) \/ i = Len(a) + 1
        BY <1>1, <2>2
    <2>4. \A i \in 1..Len(b) : b[i] \notin Dots
        BY <1>1, <1>4, <2>2, <2>3
    <2> QED
        BY <2>1, <2>2, <2>4 DEF PlainLocations, Plain
<1> QED
    BY <1>2, <1>3, <1>4 DEF Dots

Normal(F, path) ==
    /\ F \in [0..Len(path) -> PlainLocations] /\ F[0] = <<>>
    /\ \A i \in 1..Len(path) : F[i] = Put(F[i - 1], path[i])

LEMMA NormalExists ==
    ASSUME NEW path \in Locations, NEW F, F = NormalizeTo(path)
    PROVE  Normal(F, path)
<1> DEFINE N == Len(path)
           S == PlainLocations
           none == <<>>
           G == [i \in 1..N |-> [a \in PlainLocations |-> Put(a, path[i])]]
           Is(f) == f = [i \in 0..N |->
                           IF i = 0 THEN <<>>
                           ELSE IF path[i] = "." THEN f[i - 1]
                           ELSE IF path[i] = ".." THEN Parent(f[i - 1])
                           ELSE Append(f[i - 1], path[i])]
<1>1. N \in Nat /\ none \in S /\ \A i \in 1..N : path[i] \in STRING
    <2>1. N \in Nat /\ <<>> \in Locations /\ Len(<<>>) = 0 /\ \A i \in 1..N : path[i] \in STRING
        BY LocationFacts
    <2> QED
        BY <2>1 DEF PlainLocations, Plain
<1>2. F = CHOOSE f : Is(f)
    BY DEF NormalizeTo
<1>3. Steps(N, S, G)
    BY <1>1, PutPlain DEF Steps
<1>4. \A i \in 1..N, a \in S : G[i][a] = Put(a, path[i])
    OBVIOUS
<1> HIDE DEF N, G, S, none
<1>5. PICK f : f \in [0..N -> S] /\ f[0] = none /\ \A i \in 1..N : f[i] = G[i][f[i - 1]]
    <2>1. \E f : Iterates(f, N, S, none, G)
        BY <1>1, <1>3, Recursion
    <2> QED
        BY <2>1 DEF Iterates
<1>6. \A i \in 0..N : i = 0 \/ f[i] = Put(f[i - 1], path[i])
    <2> SUFFICES ASSUME NEW i \in 0..N, i # 0 PROVE f[i] = Put(f[i - 1], path[i])
        OBVIOUS
    <2>1. i \in 1..N /\ i - 1 \in 0..N
        BY <1>1
    <2>2. f[i] = G[i][f[i - 1]]
        BY <1>5, <2>1
    <2> QED
        BY <1>4, <1>5, <2>1, <2>2
<1>7. f = [i \in 0..N |-> f[i]]
    BY <1>5
<1>8. f[0] = <<>>
    BY <1>5 DEF none
<1>9. Is(f)
    BY <1>6, <1>7, <1>8 DEF Put
<1>10. Is(F)
    BY <1>2, <1>9
<1>11. F = [i \in 0..N |-> IF i = 0 THEN <<>> ELSE Put(F[i - 1], path[i])]
    BY <1>10 DEF Put
<1> HIDE DEF Is
<1>12. 0 \in 0..N /\ \A i \in 1..N : i \in 0..N /\ i # 0
    BY <1>1
<1>13. F[0] = <<>>
    BY <1>11, <1>12
<1>14. \A i \in 1..N : F[i] = Put(F[i - 1], path[i])
    BY <1>11, <1>12
<1> DEFINE T == {i \in 0..N : F[i] \in S}
<1>15. 0..N \subseteq T
    <2>1. 0 \in T
        BY <1>1, <1>12, <1>13 DEF none
    <2>2. \A i \in 1..N : i - 1 \in T => i \in T
        BY <1>1, <1>12, <1>14, PutPlain DEF S
    <2> HIDE DEF T
    <2> QED
        BY <1>1, <2>1, <2>2, Upward
<1>16. F \in [0..N -> S]
    <2>1. F = [i \in 0..N |-> F[i]]
        BY <1>11
    <2> QED
        BY <1>15, <2>1
<1> QED
    BY <1>13, <1>14, <1>16 DEF N, S, Normal

LEMMA NormalizedPlain ==
    ASSUME NEW path \in Locations
    PROVE  Plain(LexicallyNormalize(path)) /\ LexicallyNormalize(path) \in Locations
<1>1. Normal(NormalizeTo(path), path)
    BY NormalExists
<1>2. Len(path) \in 0..Len(path)
    BY LocationFacts
<1>3. NormalizeTo(path)[Len(path)] \in PlainLocations
    BY <1>1, <1>2 DEF Normal
<1> QED
    BY <1>3 DEF LexicallyNormalize, PlainLocations

\* Without links the kernel and lexically_normalize go the same way.
LEMMA WithoutLinks ==
    ASSUME NEW fs \in Trees, \A at : Node(fs, at).kind # "link",
           NEW path \in Locations, Canonicalize(fs, path) # Nothing
    PROVE  Canonicalize(fs, path) = LexicallyNormalize(path)
<1> DEFINE w == Start(path)
           N == Len(path)
           F == NormalizeTo(path)
           T == {i \in 0..N : After(fs, w, i).at = F[i] /\ After(fs, w, i).rest = SubSeq(path, i + 1, N)}
<1>1. w \in Walks /\ N \in Nat /\ w.at = <<>> /\ w.rest = path
    BY StartSound, LocationFacts DEF Start
<1>2. F[0] = <<>> /\ \A i \in 1..N : F[i] = Put(F[i - 1], path[i])
    BY NormalExists DEF Normal
<1>3. PICK m \in Nat : After(fs, w, m) = [at |-> Canonicalize(fs, path), rest |-> <<>>, own |-> 0]
    BY CanonicalThere DEF Arrives
<1>4. LexicallyNormalize(path) = F[N]
    BY DEF LexicallyNormalize
<1>5. path \in Locations /\ SubSeq(path, 0 + 1, N) = path /\ SubSeq(path, N + 1, N) = <<>>
    <2>1. N < N + 1 /\ N \in Int /\ N + 1 \in Int
        BY <1>1
    <2> QED
        BY <2>1, Whole, SubSeqEmpty
<1> HIDE DEF w, N, F
<1>6. ASSUME NEW i \in Nat, After(fs, w, i).rest # <<>> PROVE Moves(fs, After(fs, w, i))
    <2> SUFFICES ASSUME ~Moves(fs, After(fs, w, i)) PROVE FALSE
        OBVIOUS
    <2>1. PICK n \in Nat : i <= n /\ m <= n
        OBVIOUS
    <2>2. After(fs, w, n) = After(fs, w, i)
        BY <1>1, <2>1, Ended
    <2>3. ~Moves(fs, After(fs, w, m))
        BY <1>3 DEF Moves
    <2>4. After(fs, w, n) = After(fs, w, m)
        BY <1>1, <2>1, <2>3, Ended
    <2>5. After(fs, w, m).rest = <<>>
        BY <1>3
    <2> QED
        BY <1>6, <2>2, <2>4, <2>5
<1>7. 0 \in T
    <2>1. After(fs, w, 0) = w /\ 0 \in 0..N
        BY <1>1, AfterSteps
    <2> QED
        BY <1>1, <1>2, <1>5, <2>1
<1>8. ASSUME NEW i \in 1..N, i - 1 \in T PROVE i \in T
    <2> DEFINE v == After(fs, w, i - 1)
               more == SubSeq(path, i + 1, N)
    <2>1. i - 1 \in Nat /\ (i - 1) + 1 = i /\ i \in 0..N /\ i - 1 \in 0..N /\ i - 1 < N /\ (i - 1) + 2 = i + 1
        BY <1>1
    <2>2. v.at = F[i - 1] /\ v.rest = SubSeq(path, i, N) /\ v \in Walks
        <3>1. v.rest = SubSeq(path, (i - 1) + 1, N) /\ v.at = F[i - 1]
            BY <1>8
        <3>2. v \in Walks
            BY <1>1, <2>1, AfterSteps
        <3> QED
            BY <2>1, <3>1, <3>2
    <2>3. Head(v.rest) = path[i] /\ Tail(v.rest) = more
        <3>1. i \in 1..N /\ N \in i..N
            BY <1>1
        <3> QED
            BY <2>2, <3>1, HeadTailOfSubSeq DEF Locations, N
    <2>4. v.rest # <<>>
        <3>1. i \in Int /\ N \in Int /\ i <= N /\ \A j \in i..N : j \in 1..N
            BY <1>1
        <3>2. \A j \in i..N : path[j] \in STRING
            BY <3>1, LocationFacts DEF N
        <3>3. Len(SubSeq(path, i, N)) = IF i <= N THEN N - i + 1 ELSE 0
            BY <3>1, <3>2, SubSeqProperties
        <3>4. Len(SubSeq(path, i, N)) # 0
            BY <3>1, <3>3
        <3>5. Len(<<>>) = 0
            OBVIOUS
        <3> QED
            BY <2>2, <3>4, <3>5
    <2>5. Moves(fs, v)
        BY <1>6, <2>1, <2>4
    <2>6. After(fs, w, i) = Move(fs, v)
        <3>1. After(fs, w, (i - 1) + 1) = Step(fs, v)
            BY <1>1, <2>1, AfterSteps
        <3> QED
            BY <2>1, <2>5, <3>1 DEF Step
    <2> HIDE DEF v, more
    <2>7. Name(v) = path[i]
        BY <2>3 DEF Name
    <2>8. Ahead(fs, v).kind # "link"
        BY DEF Ahead
    <2>9. ~Follows(fs, v)
        BY <2>8 DEF Follows
    <2>10. Move(fs, v).rest = more
        BY <2>3, <2>9 DEF Move
    <2>11. Move(fs, v).at = Put(F[i - 1], path[i])
        BY <2>2, <2>7, <2>9 DEF Move, Put
    <2> QED
        BY <1>2, <2>1, <2>6, <2>10, <2>11 DEF more
<1> HIDE DEF T
<1>9. 0..N \subseteq T
    BY <1>1, <1>7, <1>8, Upward
<1>10. After(fs, w, N).at = F[N] /\ After(fs, w, N).rest = <<>>
    <2>1. N \in T
        BY <1>1, <1>9
    <2> QED
        BY <1>5, <2>1 DEF T
<1>11. After(fs, w, N) = After(fs, w, m)
    <2>1. PICK n \in Nat : N <= n /\ m <= n
        BY <1>1
    <2>2. ~Moves(fs, After(fs, w, N)) /\ ~Moves(fs, After(fs, w, m))
        BY <1>3, <1>10 DEF Moves
    <2> QED
        BY <1>1, <2>1, <2>2, Ended
<1> QED
    BY <1>3, <1>4, <1>10, <1>11

-------------------------------------------------------------------------------
(* Walks in a circle. *)

\* How much of the path is its own does not change the way.
Same(w, v) == w.at = v.at /\ w.rest = v.rest

LEMMA SameStep ==
    ASSUME NEW fs \in Trees, NEW w \in Walks, NEW v \in Walks, Same(w, v)
    PROVE  (Moves(fs, w) <=> Moves(fs, v)) /\ Same(Step(fs, w), Step(fs, v))
<1>1. /\ w.at = v.at /\ w.rest = v.rest /\ Name(w) = Name(v) /\ Ahead(fs, w) = Ahead(fs, v)
    BY DEF Same, Name, Ahead
<1>2. Moves(fs, w) <=> Moves(fs, v)
    BY <1>1 DEF Moves
<1>3. Follows(fs, w) <=> Follows(fs, v)
    BY <1>1 DEF Follows
<1>4. Same(Move(fs, w), Move(fs, v))
    BY <1>1, <1>3 DEF Same, Move
<1> QED
    BY <1>1, <1>2, <1>4 DEF Step, Same

LEMMA SameAfter ==
    ASSUME NEW fs \in Trees, NEW w \in Walks, NEW v \in Walks, Same(w, v), NEW n \in Nat
    PROVE  Same(After(fs, w, n), After(fs, v, n))
<1> DEFINE T == {i \in Nat : Same(After(fs, w, i), After(fs, v, i))}
<1>1. 0 \in T
    BY AfterSteps
<1>2. ASSUME NEW i \in Nat, i \in T PROVE i + 1 \in T
    <2>1. /\ After(fs, w, i) \in Walks /\ After(fs, v, i) \in Walks
          /\ After(fs, w, i + 1) = Step(fs, After(fs, w, i))
          /\ After(fs, v, i + 1) = Step(fs, After(fs, v, i))
        BY AfterSteps
    <2>2. Same(After(fs, w, i), After(fs, v, i))
        BY <1>2
    <2>3. Same(After(fs, w, i + 1), After(fs, v, i + 1))
        BY <2>1, <2>2, SameStep
    <2> QED
        BY <2>3
<1> HIDE DEF T
<1>3. Nat \subseteq T
    BY <1>1, <1>2, Always
<1> QED
    BY <1>3 DEF T

\* A walk that comes back to a name before it has gone past it never ends.
LEMMA CirclesForever ==
    ASSUME NEW fs \in Trees, NEW w \in Walks, w.rest # <<>>, Circles(fs, w)
    PROVE  \A k \in Nat : Moves(fs, After(fs, w, k))
<1> DEFINE a == w.at
           h == Name(w)
           u == [w EXCEPT !.rest = <<h>>]
<1>1. PICK n \in 1..MaxSteps :
          /\ Moves(fs, After(fs, u, n)) /\ After(fs, u, n).at = a /\ Name(After(fs, u, n)) = h
    BY DEF Circles
<1>2. n \in Nat /\ n # 0 /\ n - 1 \in Nat
    BY WorkspaceAssumption
<1>3. u \in Walks /\ u.at = a /\ u.rest = <<h>>
    <2>1. <<h>> \in Locations
        BY RestType, Single DEF Locations
    <2> QED
        BY <2>1 DEF Walks
<1> HIDE DEF u
<1>4. ASSUME NEW i \in 0..n PROVE Moves(fs, After(fs, u, i))
    <2>1. i \in Nat /\ i <= n
        BY <1>2
    <2> QED
        BY <1>1, <1>2, <1>3, <2>1, Ended
<1>5. ASSUME NEW i \in 0..(n - 1) PROVE Going(fs, After(fs, u, i))
    <2> DEFINE x == After(fs, u, i)
    <2>1. i \in Nat /\ i \in 0..n /\ i + 1 \in 0..n
        BY <1>2
    <2>2. x \in Walks /\ After(fs, u, i + 1) = Step(fs, x) /\ Moves(fs, x) /\ Moves(fs, After(fs, u, i + 1))
        BY <1>3, <1>4, <2>1, AfterSteps
    <2> HIDE DEF x
    <2>3. ~FileLast(fs, x)
        <3> SUFFICES ASSUME FileLast(fs, x) PROVE FALSE
            OBVIOUS
        <3>1. ~Follows(fs, x)
            BY DEF FileLast, Follows
        <3>2. Step(fs, x).rest = <<>>
            BY <2>2, <3>1 DEF FileLast, Step, Move
        <3> QED
            BY <2>2, <3>2 DEF Moves
    <2> QED
        BY <2>2, <2>3 DEF Going, Moves, x
<1>6. Moves(fs, u) /\ Going(fs, u)
    <2>1. 0 \in 0..n /\ 0 \in 0..(n - 1)
        BY <1>2
    <2>2. After(fs, u, 0) = u
        BY <1>3, AfterSteps
    <2> QED
        BY <1>4, <1>5, <2>1, <2>2
<1> DEFINE Back(x) == x \in Walks /\ x.at = a /\ x.rest # <<>> /\ Name(x) = h
           v == After(fs, u, n)
<1>7. v \in Walks /\ v.at = a /\ v.rest # <<>> /\ Name(v) = h
    BY <1>1, <1>2, <1>3, AfterSteps DEF Moves
<1> HIDE DEF a, h, v
<1>8. ASSUME NEW x, Back(x) PROVE Moves(fs, x) /\ Back(After(fs, x, n))
    <2> DEFINE q == Tail(x.rest)
    <2>1. x \in Walks /\ x.at = a /\ x.rest # <<>> /\ Name(x) = h /\ q \in Locations /\ x.rest = <<h>> \o q
        BY <1>8, RestType
    <2> HIDE DEF q
    <2>2. \A y \in Walks : Same(x, y) => /\ Moves(fs, x) <=> Moves(fs, y)
                                         /\ Same(After(fs, x, n), After(fs, y, n))
        BY <1>2, <2>1, SameStep, SameAfter
    <2>3. After(fs, x, n) \in Walks
        BY <1>2, <2>1, AfterSteps
    <2>4. \A y : Same(After(fs, x, n), y) /\ y.at = a /\ y.rest # <<>> /\ Name(y) = h => Back(After(fs, x, n))
        BY <2>3 DEF Same, Name
    <2>5. CASE q = <<>>
        <3>1. x.rest = <<h>>
            <4>1. <<h>> \in Locations
                <5>1. h \in STRING
                    BY <2>1, RestType
                <5> QED
                    BY <5>1, Single DEF Locations
            <4> QED
                BY <2>1, <2>5, <4>1, ConcatEmptySeq DEF Locations
        <3>2. Same(x, u)
            BY <1>3, <2>1, <3>1 DEF Same
        <3> QED
            BY <1>3, <1>6, <1>7, <2>2, <2>4, <3>2 DEF v
    <2>6. CASE q # <<>>
        <3> DEFINE e == Extend(u, q)
        <3>1. e \in Walks /\ e.at = a /\ e.rest = x.rest
            BY <1>3, <2>1, ExtendType DEF Extend
        <3>2. Moves(fs, e)
            BY <1>3, <1>6, <2>1, <2>6, ExtendMoves DEF Going
        <3>3. After(fs, e, n) = Extend(v, q)
            BY <1>2, <1>3, <1>5, <2>1, <2>6, ExtendAfter DEF v
        <3> HIDE DEF e
        <3>4. Same(x, e)
            BY <2>1, <3>1 DEF Same
        <3>5. Extend(v, q).at = a /\ Extend(v, q).rest # <<>> /\ Name(Extend(v, q)) = h
            BY <1>7, <2>1, ExtendFront DEF Extend
        <3> QED
            BY <2>2, <2>4, <3>1, <3>2, <3>3, <3>4, <3>5
    <2> QED
        BY <2>5, <2>6
<1>9. Back(w)
    BY DEF a, h
<1> HIDE DEF Back
<1> DEFINE T == {i \in Nat : \E m \in Nat : i <= m /\ Back(After(fs, w, m))}
<1>10. 0 \in T
    <2>1. After(fs, w, 0) = w /\ 0 \in Nat /\ 0 <= 0
        BY AfterSteps
    <2>2. Back(After(fs, w, 0))
        BY <1>9, <2>1
    <2> QED
        BY <2>1, <2>2
<1>11. ASSUME NEW i \in Nat, i \in T PROVE i + 1 \in T
    <2>1. PICK m \in Nat : i <= m /\ Back(After(fs, w, m))
        BY <1>11
    <2>2. Back(After(fs, After(fs, w, m), n))
        BY <1>8, <2>1
    <2>3. After(fs, After(fs, w, m), n) = After(fs, w, m + n)
        BY <1>2, AfterAfter
    <2>4. m + n \in Nat /\ i + 1 <= m + n /\ i + 1 \in Nat
        BY <1>2, <2>1
    <2>5. Back(After(fs, w, m + n))
        BY <2>2, <2>3
    <2> QED
        BY <2>4, <2>5
<1> HIDE DEF T
<1>12. Nat \subseteq T
    BY <1>10, <1>11, Always
<1> TAKE k \in Nat
<1>13. PICK m \in Nat : k <= m /\ Back(After(fs, w, m))
    BY <1>12 DEF T
<1>14. Moves(fs, After(fs, w, m))
    BY <1>8, <1>13
<1> QED
    BY <1>13, <1>14, Ended

LEMMA SettledExact ==
    ASSUME NEW fs \in Trees, NEW path \in Locations, Settled(fs, path)
    PROVE  Exact(fs, path)
<1>1. CASE ~Moves(fs, Walk(fs, path))
    BY <1>1 DEF Exact
<1>2. CASE Moves(fs, Walk(fs, path))
    <2>1. PICK n \in 0..MaxSteps :
              After(fs, Start(path), n).rest # <<>> /\ Circles(fs, After(fs, Start(path), n))
        BY <1>2 DEF Settled
    <2> DEFINE w == After(fs, Start(path), n)
    <2>2. n \in Nat /\ w \in Walks /\ Start(path) \in Walks
        <3>1. n \in Nat
            BY WorkspaceAssumption
        <3>2. Start(path) \in Walks
            BY StartSound
        <3> QED
            BY <3>1, <3>2, AfterSteps
    <2>3. \A k \in Nat : Moves(fs, After(fs, w, k))
        BY <2>1, <2>2, CirclesForever
    <2>4. ASSUME NEW i \in Nat PROVE Moves(fs, After(fs, Start(path), i))
        <3>1. After(fs, w, i) = After(fs, Start(path), n + i) /\ n + i \in Nat /\ i <= n + i
            BY <2>2, AfterAfter
        <3>2. Moves(fs, After(fs, Start(path), n + i))
            BY <2>3, <3>1
        <3> QED
            BY <2>2, <3>1, <3>2, Ended
    <2> QED
        BY <2>4 DEF Exact
<1> QED
    BY <1>1, <1>2

-------------------------------------------------------------------------------
(* What is on the way to an answer. *)

LEMMA PrefixOfConcat ==
    ASSUME NEW a \in Locations, NEW q \in Locations, NEW i \in 0..Len(a)
    PROVE  SubSeq(a \o q, 1, i) = SubSeq(a, 1, i) /\ Len(a \o q) = Len(a) + Len(q)
           /\ a \o q \in Locations
<1>1. /\ a \o q \in Locations /\ Len(a \o q) = Len(a) + Len(q)
      /\ Len(a) \in Nat /\ Len(q) \in Nat
    BY ConcatProperties, LocationFacts DEF Locations
<1>2. CASE i = 0
    BY <1>1, <1>2, SubSeqEmpty
<1>3. CASE i # 0
    <2>1. i \in 1..Len(a) /\ 1 \in 1..Len(a)
        BY <1>1, <1>3
    <2>2. SubSeq(a \o q, 1, i) = SubSeq(a, 1, i)
        BY <2>1, SubSeqOfConcat1 DEF Locations
    <2> QED
        BY <1>1, <2>2
<1> QED
    BY <1>2, <1>3

\* The location a begins with c and h, and what its beginnings are.
Behind(a, c, h, more) == a = c \o (<<h>> \o more)
Begun(a, c, h, more) ==
    /\ a \in Locations /\ Len(a) = Len(c) + 1 + Len(more)
    /\ Len(c) \in Nat /\ Len(more) \in Nat
    /\ \A i \in 0..Len(c) : SubSeq(a, 1, i) = SubSeq(c, 1, i)
    /\ SubSeq(a, 1, Len(c)) = c
    /\ SubSeq(a, 1, Len(c) + 1) = Append(c, h)

LEMMA PrefixOfFirst ==
    ASSUME NEW c \in Locations, NEW h \in STRING \ Dots, NEW more \in Locations,
           NEW a, Behind(a, c, h, more)
    PROVE  Begun(a, c, h, more)
<1> DEFINE b == Append(c, h)
<1>1. b \in Locations /\ Len(b) = Len(c) + 1 /\ \A i \in 0..Len(c) : SubSeq(b, 1, i) = SubSeq(c, 1, i)
    BY Appended
<1>2. Len(c) \in Nat /\ Len(more) \in Nat /\ <<h>> \in Locations
    <2>1. h \in STRING
        OBVIOUS
    <2> QED
        BY <2>1, LocationFacts, Single DEF Locations
<1>3. a = b \o more
    <2>1. b = c \o <<h>>
        BY AppendIsConcat DEF Locations
    <2> QED
        BY <1>2, <2>1, Associative DEF Behind
<1> HIDE DEF b
<1>4. /\ a \in Locations /\ Len(a) = Len(b) + Len(more)
      /\ \A i \in 0..Len(b) : SubSeq(a, 1, i) = SubSeq(b, 1, i)
    <2>1. 0 \in 0..Len(b)
        BY <1>1, <1>2
    <2>2. b \o more \in Locations /\ Len(b \o more) = Len(b) + Len(more)
        BY <1>1, <2>1, PrefixOfConcat
    <2>3. \A i \in 0..Len(b) : SubSeq(b \o more, 1, i) = SubSeq(b, 1, i)
        BY <1>1, PrefixOfConcat
    <2> QED
        BY <1>3, <2>2, <2>3
<1>5. \A i \in 0..Len(c) : i \in 0..Len(b)
    BY <1>1, <1>2
<1>6. Len(c) \in 0..Len(c) /\ Len(c) + 1 \in 0..Len(b)
    BY <1>1, <1>2
<1>7. SubSeq(a, 1, Len(c)) = c
    BY <1>1, <1>4, <1>5, <1>6, Whole
<1>8. SubSeq(a, 1, Len(c) + 1) = Append(c, h)
    <2>1. SubSeq(a, 1, Len(b)) = b
        BY <1>1, <1>4, <1>6, Whole
    <2> QED
        BY <1>1, <2>1 DEF b
<1> QED
    BY <1>1, <1>2, <1>4, <1>5, <1>7, <1>8 DEF Begun

\* Below what is missing nothing is.
LEMMA BelowAbsent ==
    ASSUME NEW fs \in Trees, NEW a \in Locations, NEW i \in 1..(Len(a) - 1),
           Node(fs, SubSeq(a, 1, i)).kind = "absent"
    PROVE  Node(fs, SubSeq(a, 1, i + 1)).kind = "absent"
<1> DEFINE b == SubSeq(a, 1, i + 1)
<1>1. Len(a) \in Nat /\ i \in 0..Len(a) /\ i + 1 \in 0..Len(a) /\ i \in 0..(i + 1) /\ (i + 1) - 1 = i
    BY LocationFacts
<1>2. b \in Locations /\ Len(b) = i + 1 /\ SubSeq(b, 1, i) = SubSeq(a, 1, i)
    BY <1>1, Prefix, PrefixOfPrefix
<1>3. Len(SubSeq(a, 1, i)) = i /\ i # 0
    BY <1>1, Prefix
<1> HIDE DEF b
<1>4. Parent(b) = SubSeq(a, 1, i)
    <2>1. b # <<>>
        BY <1>1, <1>2, LocationFacts
    <2> QED
        BY <1>1, <1>2, <2>1 DEF Parent, Front
<1>5. Parent(b) # <<>> /\ Node(fs, Parent(b)).kind # "dir"
    <2>1. SubSeq(a, 1, i) # <<>>
        BY <1>1, <1>3, Prefix, LocationFacts
    <2> QED
        BY <1>4, <2>1
<1>6. Node(fs, b).kind = "absent"
    <2>1. CASE b \in DOMAIN fs
        BY <1>5, <2>1, WorkspaceAssumption DEF Node
    <2>2. CASE b \notin DOMAIN fs
        BY <2>2 DEF Node
    <2> QED
        BY <2>1, <2>2
<1> QED
    BY <1>6 DEF b

\* Directories and what is to be made, at the end perhaps a file; no link.
Clear(fs, a) ==
    /\ a \in Locations
    /\ \A i \in 1..Len(a) :
          \/ Node(fs, SubSeq(a, 1, i)).kind \in {"dir", "absent"}
          \/ i = Len(a) /\ Node(fs, SubSeq(a, 1, i)).kind = "file"

LEMMA HereClear ==
    ASSUME NEW fs \in Trees, NEW a, Here(fs, a)
    PROVE  Clear(fs, a)
<1>1. CASE Dirs(fs, a)
    BY <1>1 DEF Dirs, Clear
<1>2. ASSUME NEW d \in Locations, NEW n \in STRING \ Dots,
             Dirs(fs, d), a = Append(d, n), Node(fs, a).kind = "file"
      PROVE  Clear(fs, a)
    <2>1. /\ a \in Locations /\ Len(a) = Len(d) + 1 /\ Len(d) \in Nat
          /\ \A i \in 0..Len(d) : SubSeq(a, 1, i) = SubSeq(d, 1, i)
        BY <1>2, Appended, LocationFacts
    <2>2. SubSeq(a, 1, Len(a)) = a
        BY <2>1, Whole
    <2>3. ASSUME NEW i \in 1..Len(a)
          PROVE  \/ Node(fs, SubSeq(a, 1, i)).kind \in {"dir", "absent"}
                 \/ i = Len(a) /\ Node(fs, SubSeq(a, 1, i)).kind = "file"
        <3>1. CASE i = Len(a)
            BY <1>2, <2>2, <3>1
        <3>2. CASE i # Len(a)
            <4>1. i \in 1..Len(d) /\ i \in 0..Len(d)
                BY <2>1, <3>2
            <4> QED
                BY <1>2, <2>1, <4>1 DEF Dirs
        <3> QED
            BY <3>1, <3>2
    <2> QED
        BY <2>1, <2>3 DEF Clear
<1> QED
    BY <1>1, <1>2 DEF Here

LEMMA MissingClear ==
    ASSUME NEW fs \in Trees, NEW a, Missing(fs, a)
    PROVE  Clear(fs, a)
<1>1. PICK c \in Locations, h \in STRING \ Dots, more \in Locations :
          a = c \o (<<h>> \o more) /\ Dirs(fs, c) /\ Node(fs, Append(c, h)).kind = "absent"
    BY DEF Missing
<1>2. /\ a \in Locations /\ Len(a) = Len(c) + 1 + Len(more)
      /\ Len(c) \in Nat /\ Len(more) \in Nat
      /\ \A i \in 0..Len(c) : SubSeq(a, 1, i) = SubSeq(c, 1, i)
      /\ SubSeq(a, 1, Len(c) + 1) = Append(c, h)
    <2>1. Behind(a, c, h, more)
        BY <1>1 DEF Behind
    <2>2. Begun(a, c, h, more)
        BY <2>1, PrefixOfFirst
    <2> QED
        BY <2>2 DEF Begun
<1> DEFINE T == {j \in 0..Len(more) : Node(fs, SubSeq(a, 1, Len(c) + 1 + j)).kind = "absent"}
<1>3. 0 \in T
    <2>1. Len(c) + 1 + 0 = Len(c) + 1 /\ 0 \in 0..Len(more)
        BY <1>2
    <2> QED
        BY <1>1, <1>2, <2>1
<1>4. ASSUME NEW j \in 1..Len(more), j - 1 \in T PROVE j \in T
    <2> DEFINE i == Len(c) + 1 + (j - 1)
    <2>1. i \in 1..(Len(a) - 1) /\ i + 1 = Len(c) + 1 + j /\ j \in 0..Len(more)
        BY <1>2
    <2>2. Node(fs, SubSeq(a, 1, i)).kind = "absent"
        BY <1>4
    <2> HIDE DEF i
    <2>3. Node(fs, SubSeq(a, 1, i + 1)).kind = "absent"
        BY <1>2, <2>1, <2>2, BelowAbsent
    <2> QED
        BY <2>1, <2>3
<1> HIDE DEF T
<1>5. 0..Len(more) \subseteq T
    BY <1>2, <1>3, <1>4, Upward
<1>6. ASSUME NEW i \in 1..Len(a)
      PROVE  Node(fs, SubSeq(a, 1, i)).kind \in {"dir", "absent"}
    <2>1. CASE i <= Len(c)
        <3>1. i \in 0..Len(c) /\ i \in 1..Len(c)
            BY <1>2, <2>1
        <3> QED
            BY <1>1, <1>2, <3>1 DEF Dirs
    <2>2. CASE ~(i <= Len(c))
        <3> DEFINE j == i - (Len(c) + 1)
        <3>1. j \in 0..Len(more) /\ Len(c) + 1 + j = i
            BY <1>2, <2>2
        <3> HIDE DEF j
        <3>2. Node(fs, SubSeq(a, 1, Len(c) + 1 + j)).kind = "absent"
            BY <1>5, <3>1 DEF T
        <3> QED
            BY <3>1, <3>2
    <2> QED
        BY <2>1, <2>2
<1> QED
    BY <1>2, <1>6 DEF Clear

LEMMA ClearNotBlocked ==
    ASSUME NEW fs \in Trees, NEW a, Clear(fs, a), NEW b, Blocked(fs, b)
    PROVE  ~IsPrefix(b, a)
<1> SUFFICES ASSUME IsPrefix(b, a) PROVE FALSE
    OBVIOUS
<1>1. PICK c \in Locations, h \in STRING \ Dots, more \in Locations :
          /\ b = c \o (<<h>> \o more)
          /\ \/ Here(fs, c) /\ ~Dirs(fs, c)
             \/ Dirs(fs, c) /\ Node(fs, Append(c, h)).kind = "link"
    BY DEF Blocked
<1>2. /\ b \in Locations /\ Len(b) = Len(c) + 1 + Len(more)
      /\ Len(c) \in Nat /\ Len(more) \in Nat
      /\ SubSeq(b, 1, Len(c)) = c /\ SubSeq(b, 1, Len(c) + 1) = Append(c, h)
    <2>1. Behind(b, c, h, more)
        BY <1>1 DEF Behind
    <2>2. Begun(b, c, h, more)
        BY <2>1, PrefixOfFirst
    <2> QED
        BY <2>2 DEF Begun
<1>3. a \in Locations /\ Len(a) \in Nat
    BY LocationFacts DEF Clear
<1>4. Len(b) <= Len(a) /\ SubSeq(b, 1, Len(b)) = SubSeq(a, 1, Len(b))
    BY DEF IsPrefix
<1>5. ASSUME NEW i \in 0..Len(b) PROVE SubSeq(a, 1, i) = SubSeq(b, 1, i)
    <2>1. Len(b) \in 0..Len(a)
        BY <1>2, <1>3, <1>4
    <2>2. SubSeq(SubSeq(a, 1, Len(b)), 1, i) = SubSeq(a, 1, i)
        BY <1>3, <2>1, PrefixOfPrefix
    <2>3. SubSeq(b, 1, Len(b)) = b
        BY <1>2, Whole
    <2> QED
        BY <1>4, <2>2, <2>3
<1>6. CASE Dirs(fs, c) /\ Node(fs, Append(c, h)).kind = "link"
    <2>1. Len(c) + 1 \in 0..Len(b) /\ Len(c) + 1 \in 1..Len(a)
        BY <1>2, <1>3, <1>4
    <2>2. Node(fs, SubSeq(a, 1, Len(c) + 1)).kind = "link"
        BY <1>2, <1>5, <1>6, <2>1
    <2> QED
        BY <2>1, <2>2 DEF Clear
<1>7. CASE Here(fs, c) /\ ~Dirs(fs, c)
    <2>1. PICK d \in Locations, n \in STRING \ Dots : c = Append(d, n) /\ Node(fs, c).kind = "file"
        BY <1>7 DEF Here
    <2>2. Len(c) = Len(d) + 1 /\ Len(d) \in Nat
        BY <2>1, Appended, LocationFacts
    <2>3. Len(c) \in 0..Len(b) /\ Len(c) \in 1..Len(a) /\ Len(c) # Len(a)
        BY <1>2, <1>3, <1>4, <2>2
    <2>4. Node(fs, SubSeq(a, 1, Len(c))).kind = "file"
        BY <1>2, <1>5, <2>1, <2>3
    <2> QED
        BY <2>3, <2>4 DEF Clear
<1> QED
    BY <1>1, <1>6, <1>7

\* Nothing is below what is not there.
LEMMA AbsentToTheEnd ==
    ASSUME NEW fs \in Trees, NEW a \in Locations, NEW i \in 1..Len(a),
           Node(fs, SubSeq(a, 1, i)).kind = "absent"
    PROVE  Node(fs, a).kind = "absent"
<1> DEFINE T == {j \in 0..(Len(a) - i) : Node(fs, SubSeq(a, 1, i + j)).kind = "absent"}
<1>1. Len(a) \in Nat /\ Len(a) - i \in Nat /\ i + 0 = i /\ i + (Len(a) - i) = Len(a)
    BY LocationFacts
<1>2. 0 \in T
    BY <1>1
<1>3. ASSUME NEW j \in 1..(Len(a) - i), j - 1 \in T PROVE j \in T
    <2> DEFINE k == i + (j - 1)
    <2>1. k \in 1..(Len(a) - 1) /\ k + 1 = i + j /\ j \in 0..(Len(a) - i)
        BY <1>1
    <2>2. Node(fs, SubSeq(a, 1, k)).kind = "absent"
        BY <1>3
    <2> HIDE DEF k
    <2>3. Node(fs, SubSeq(a, 1, k + 1)).kind = "absent"
        BY <2>1, <2>2, BelowAbsent
    <2> QED
        BY <2>1, <2>3
<1> HIDE DEF T
<1>4. 0..(Len(a) - i) \subseteq T
    BY <1>1, <1>2, <1>3, Upward
<1>5. Len(a) - i \in T
    BY <1>1, <1>4
<1> QED
    BY <1>1, <1>5, Whole DEF T

\* What a tool makes was not there.
LEMMA MadeIsNew ==
    ASSUME NEW fs \in Trees, NEW path \in Locations,
           Canonicalize(fs, path) = Nothing, Landing(fs, path) # Nothing
    PROVE  Landing(fs, path) \in Locations /\ ~Exists(fs, Landing(fs, path))
<1> DEFINE w == Walk(fs, path)
           c == w.at
           h == Name(w)
           more == Tail(w.rest)
           a == w.at \o w.rest
<1>1. Makes(fs, w) /\ Landing(fs, path) = a
    BY DEF Landing
<1>2. w \in Walks /\ w.rest # <<>> /\ ~Moves(fs, w) /\ Ahead(fs, w).kind = "absent"
    BY <1>1, WalkFacts DEF Makes
<1>3. /\ h \in STRING \ Dots /\ more \in Locations /\ c \in Locations
      /\ w.rest = <<h>> \o more
    BY <1>2, RestType DEF Moves, Walks
<1>4. Node(fs, Append(c, h)).kind = "absent"
    BY <1>2 DEF Ahead
<1> HIDE DEF w
<1>5. Behind(a, c, h, more)
    BY <1>3 DEF Behind
<1> HIDE DEF a, c, h, more
<1>6. Begun(a, c, h, more)
    BY <1>3, <1>5, PrefixOfFirst
<1>7. /\ a \in Locations /\ Len(c) + 1 \in 1..Len(a) /\ Len(a) # 0
      /\ Node(fs, SubSeq(a, 1, Len(c) + 1)).kind = "absent"
    <2>1. /\ a \in Locations /\ Len(a) = Len(c) + 1 + Len(more)
          /\ Len(c) \in Nat /\ Len(more) \in Nat
        BY <1>6 DEF Begun
    <2>2. SubSeq(a, 1, Len(c) + 1) = Append(c, h)
        BY <1>6 DEF Begun
    <2>3. Len(c) + 1 \in 1..Len(a) /\ Len(a) # 0
        BY <2>1
    <2> QED
        BY <1>4, <2>1, <2>2, <2>3
<1>8. Node(fs, a).kind = "absent"
    BY <1>7, AbsentToTheEnd
<1>9. a # <<>>
    BY <1>7, LocationFacts
<1> QED
    BY <1>1, <1>7, <1>8, <1>9 DEF Exists

\* Where something is, something is at every location on the way.
LEMMA HereExists ==
    ASSUME NEW fs \in Trees, NEW a, Here(fs, a), NEW b \in Locations, IsPrefix(b, a)
    PROVE  Exists(fs, b)
<1> SUFFICES ASSUME ~Exists(fs, b) PROVE FALSE
    OBVIOUS
<1>1. a \in Locations
    BY HereClear DEF Clear
<1>2. b # <<>> /\ Node(fs, b).kind = "absent"
    BY NodeType, Kinds DEF Exists
<1>3. Len(b) <= Len(a) /\ SubSeq(b, 1, Len(b)) = SubSeq(a, 1, Len(b))
    BY DEF IsPrefix
<1>4. Len(b) \in 1..Len(a) /\ SubSeq(a, 1, Len(b)) = b
    BY <1>1, <1>2, <1>3, LocationFacts, Whole
<1>5. Node(fs, a).kind = "absent" /\ a # <<>>
    <2> DEFINE i == Len(b)
    <2>1. i \in 1..Len(a) /\ Node(fs, SubSeq(a, 1, i)).kind = "absent"
        BY <1>2, <1>4
    <2>2. Len(a) # 0
        BY <1>1, <2>1, LocationFacts
    <2> HIDE DEF i
    <2>3. Node(fs, a).kind = "absent"
        BY <1>1, <2>1, AbsentToTheEnd
    <2> QED
        BY <1>1, <2>2, <2>3, LocationFacts
<1>6. CASE Dirs(fs, a)
    <2>1. Len(a) \in 1..Len(a) /\ SubSeq(a, 1, Len(a)) = a
        BY <1>1, <1>5, LocationFacts, Whole
    <2> QED
        BY <1>5, <1>6, <2>1 DEF Dirs
<1>7. CASE Node(fs, a).kind = "file"
    BY <1>5, <1>7
<1> QED
    BY <1>6, <1>7 DEF Here

-------------------------------------------------------------------------------
(* resolve. *)

LEMMA AnswerType ==
    ASSUME NEW fs \in Trees, NEW p \in Locations
    PROVE  CanonicalizeExistingPrefix(fs, p) \in Locations
<1> DEFINE k == Existing(fs, p)
           s == SubSeq(p, 1, k)
           q == SubSeq(p, k + 1, Len(p))
<1>1. k \in 0..Len(p) /\ Canonicalize(fs, s) # Nothing
    BY ExistingIs
<1> HIDE DEF k
<1>2. s \in Locations /\ q \in Locations
    BY <1>1, SplitAt
<1>3. Canonicalize(fs, s) \in Locations
    BY <1>1, <1>2, CanonicalThere
<1> HIDE DEF s, q
<1>4. Canonicalize(fs, s) \o q \in Locations
    BY <1>2, <1>3, ConcatProperties DEF Locations
<1> QED
    BY <1>4 DEF CanonicalizeExistingPrefix, k, s, q

\* The paths that EnoughSteps is about.
Lookups == {Lexical(r) : r \in Requests} \cup {LexicallyNormalize(Roots[i]) : i \in DOMAIN Roots}

LEMMA RequestedPath ==
    ASSUME NEW r \in Requests
    PROVE  Joined(r) \in Locations
<1>1. Roots \in Seq(Locations) /\ Roots # <<>>
    BY WorkspaceAssumption
<1>2. r.parts \in Locations
    BY WorkspaceAssumption
<1>3. Roots[1] \in Locations
    <2>1. 1 \in 1..Len(Roots)
        BY <1>1, EmptySeq, LenProperties
    <2> QED
        BY <1>1, <2>1, ElementOfSeq
<1>4. Roots[1] \o r.parts \in Locations
    BY <1>2, <1>3, ConcatProperties DEF Locations
<1> QED
    BY <1>2, <1>4 DEF Joined

LEMMA LookupsPlain ==
    ASSUME NEW p \in Lookups
    PROVE  Plain(p) /\ p \in Locations
<1>1. Roots \in Seq(Locations) /\ Roots # <<>>
    BY WorkspaceAssumption
<1>2. \A i \in DOMAIN Roots : Roots[i] \in Locations
    BY <1>1
<1>3. \A r \in Requests : Joined(r) \in Locations
    BY RequestedPath
<1> QED
    BY <1>2, <1>3, NormalizedPlain DEF Lookups, Lexical

LEMMA LookupsUnbounded ==
    ASSUME NEW fs \in Trees, NEW p \in Lookups
    PROVE  Unbounded(fs, p)
<1>1. /\ \A k \in 0..Len(p) : Settled(fs, SubSeq(p, 1, k))
      /\ Settled(fs, CanonicalizeExistingPrefix(fs, p))
    BY EnoughSteps DEF Lookups
<1>2. p \in Locations
    BY LookupsPlain
<1>3. \A k \in 0..Len(p) : Exact(fs, SubSeq(p, 1, k))
    <2> TAKE k \in 0..Len(p)
    <2>1. SubSeq(p, 1, k) \in Locations
        BY <1>2, Prefix
    <2> QED
        BY <1>1, <2>1, SettledExact
<1>4. Exact(fs, CanonicalizeExistingPrefix(fs, p))
    BY <1>1, <1>2, AnswerType, SettledExact
<1> QED
    BY <1>3, <1>4 DEF Unbounded

\* What is answered for a path, in the words of RealShape.
Answers(fs, p, res) ==
    /\ Landing(fs, res) = Landing(fs, p) /\ Canonicalize(fs, res) = Canonicalize(fs, p)
    /\ \/ Here(fs, res) /\ Landing(fs, res) = res /\ Canonicalize(fs, res) = res
       \/ Missing(fs, res) /\ Landing(fs, res) = res /\ Canonicalize(fs, res) = Nothing
       \/ /\ Blocked(fs, res) /\ Canonicalize(fs, res) = Nothing
          /\ Landing(fs, res) = Nothing \/ Node(fs, res).kind = "link"

LEMMA Answered ==
    ASSUME NEW fs \in Trees, NEW p \in Lookups
    PROVE  /\ Answers(fs, p, CanonicalizeExistingPrefix(fs, p))
           /\ CanonicalizeExistingPrefix(fs, p) # Nothing
<1>1. Plain(p) /\ Unbounded(fs, p) /\ p \in Locations
    BY LookupsPlain, LookupsUnbounded
<1>2. CanonicalizeExistingPrefix(fs, p) # Nothing
    BY <1>1, AnswerType, WorkspaceAssumption
<1> QED
    BY <1>1, <1>2, RealShape DEF Answers

\* The answer is clear of links, and so is every root that it is inside of:
\* comparing the answers compares the places.
LEMMA Compared ==
    ASSUME NEW fs \in Trees, NEW p \in Lookups, NEW g \in Lookups, NEW res, NEW root,
           res = CanonicalizeExistingPrefix(fs, p), root = CanonicalizeExistingPrefix(fs, g),
           Here(fs, res) \/ Missing(fs, res)
    PROVE  /\ res = Landing(fs, p)
           /\ IsPrefix(root, res) => Landing(fs, g) # Nothing /\ IsPrefix(Landing(fs, g), res)
           /\ /\ Landing(fs, g) # Nothing /\ IsPrefix(Landing(fs, g), res)
              /\ Here(fs, res) \/ ~Dangles(fs, root)
              => IsPrefix(root, res)
<1>1. Answers(fs, p, res) /\ Answers(fs, g, root) /\ root # Nothing
    BY Answered
<1>2. Clear(fs, res)
    BY HereClear, MissingClear
<1>3. ~Blocked(fs, res)
    <2>1. res \in Locations
        BY <1>2 DEF Clear
    <2>2. IsPrefix(res, res)
        BY <2>1, LocationFacts DEF IsPrefix
    <2> QED
        BY <1>2, <2>2, ClearNotBlocked
<1>4. res = Landing(fs, p)
    BY <1>1, <1>3 DEF Answers
<1>5. ASSUME IsPrefix(root, res)
      PROVE  Landing(fs, g) # Nothing /\ IsPrefix(Landing(fs, g), res)
    <2>1. ~Blocked(fs, root)
        BY <1>2, <1>5, ClearNotBlocked
    <2> QED
        BY <1>1, <1>5, <2>1 DEF Answers
<1>6. ASSUME Landing(fs, g) # Nothing, IsPrefix(Landing(fs, g), res),
             Here(fs, res) \/ ~Dangles(fs, root)
      PROVE  IsPrefix(root, res)
    <2>1. CASE ~Blocked(fs, root)
        BY <1>1, <1>6, <2>1 DEF Answers
    <2>2. CASE Blocked(fs, root) /\ ~Dangles(fs, root)
        BY <1>1, <1>6, <2>2 DEF Answers, Dangles
    <2>3. CASE Dangles(fs, root) /\ Here(fs, res)
        <3>1. g \in Locations /\ Canonicalize(fs, g) = Nothing
            BY <1>1, <2>3, LookupsPlain DEF Answers, Dangles
        <3>2. Landing(fs, g) \in Locations /\ ~Exists(fs, Landing(fs, g))
            BY <1>6, <3>1, MadeIsNew
        <3> QED
            BY <1>6, <2>3, <3>2, HereExists
    <2> QED
        BY <1>6, <2>1, <2>2, <2>3
<1> QED
    BY <1>4, <1>5, <1>6

-------------------------------------------------------------------------------
(* The properties of Workspace. *)

\* Some root is a prefix of what the request comes to.
Accepted == \E i \in DOMAIN Roots : IsPrefix(RootReal(tree, Roots[i]), Real(tree, request))

\* The answer is the one for this file system, and the tools open what it names
\* there.
WorkspaceInv ==
    /\ tree \in Trees /\ request \in Requests /\ quiet \in BOOLEAN
    /\ pc \in {"start", "resolved", "outside", "empty", "opened"}
    /\ pc = "start" => quiet
    /\ pc \in {"resolved", "opened"} /\ quiet => Accepted /\ resolved = Real(tree, request)
    /\ pc = "outside" /\ quiet => ~Accepted
    /\ pc = "opened" /\ quiet =>
          opened \in {Landing(tree, resolved), Canonicalize(tree, resolved)}

LEMMA InvInit == Init => WorkspaceInv
BY DEF Init, WorkspaceInv

LEMMA InvNext == WorkspaceInv /\ [Next]_vars => WorkspaceInv'
<1> SUFFICES ASSUME WorkspaceInv, [Next]_vars PROVE WorkspaceInv'
    OBVIOUS
<1>0. tree' = tree /\ request' = request => (Accepted' <=> Accepted)
    BY DEF Accepted
<1>1. CASE Resolve
    <2>1. /\ tree' = tree /\ request' = request /\ quiet' = quiet /\ opened' = opened
          /\ pc = "start" /\ quiet
        BY <1>1 DEF Resolve, WorkspaceInv
    <2>2. CASE pc' = "empty"
        BY <2>1, <2>2 DEF WorkspaceInv
    <2>3. CASE Accepted /\ pc' = "resolved" /\ resolved' = Real(tree, request)
        BY <1>0, <2>1, <2>3 DEF WorkspaceInv
    <2>4. CASE ~Accepted /\ pc' = "outside"
        BY <1>0, <2>1, <2>4 DEF WorkspaceInv
    <2> QED
        BY <1>1, <2>2, <2>3, <2>4 DEF Resolve, Accepted
<1>2. CASE TreeChanges
    BY <1>2 DEF TreeChanges, WorkspaceInv
<1>3. ASSUME NEW makes \in BOOLEAN, Open(makes) PROVE WorkspaceInv'
    <2>1. /\ pc = "resolved" /\ pc' = "opened"
          /\ opened' \in {Landing(tree, resolved), Canonicalize(tree, resolved)}
          /\ tree' = tree /\ request' = request /\ resolved' = resolved /\ quiet' = quiet
        BY <1>3 DEF Open
    <2> QED
        BY <1>0, <2>1 DEF WorkspaceInv
<1>4. CASE UNCHANGED vars
    BY <1>0, <1>4 DEF vars, WorkspaceInv
<1> QED
    BY <1>1, <1>2, <1>3, <1>4 DEF Next

LEMMA AnswersCurrent == Spec => []WorkspaceInv
BY InvInit, InvNext, PTL DEF Spec

\* What the invariant says of the answer to the request.
LEMMA AsRequested ==
    ASSUME WorkspaceInv
    PROVE  /\ tree \in Trees /\ request \in Requests /\ Lexical(request) \in Lookups
           /\ Answers(tree, Lexical(request), Real(tree, request))
           /\ Lexical(request) \in Locations /\ Real(tree, request) \in Locations
           /\ \A i \in DOMAIN Roots : LexicallyNormalize(Roots[i]) \in Lookups
<1>1. tree \in Trees /\ request \in Requests
    BY DEF WorkspaceInv
<1>2. Lexical(request) \in Lookups /\ \A i \in DOMAIN Roots : LexicallyNormalize(Roots[i]) \in Lookups
    BY <1>1 DEF Lookups
<1>3. Lexical(request) \in Locations
    BY <1>2, LookupsPlain
<1>4. Real(tree, request) \in Locations
    BY <1>1, <1>3, AnswerType DEF Real
<1> QED
    BY <1>1, <1>2, <1>3, <1>4, Answered DEF Real

\* The answer compares with the roots as the place compares with what they lead to.
LEMMA AcceptedInside ==
    ASSUME WorkspaceInv,
           Here(tree, Real(tree, request)) \/ Missing(tree, Real(tree, request))
    PROVE  /\ Real(tree, request) = Landing(tree, Lexical(request))
           /\ Accepted => Inside(tree, Real(tree, request))
           /\ /\ Inside(tree, Real(tree, request))
              /\ \/ Here(tree, Real(tree, request))
                 \/ \A i \in DOMAIN Roots : ~Dangles(tree, RootReal(tree, Roots[i]))
              => Accepted
<1> DEFINE p == Lexical(request)
           res == Real(tree, request)
           G(i) == LexicallyNormalize(Roots[i])
           R(i) == RootReal(tree, Roots[i])
<1>1. /\ tree \in Trees /\ p \in Lookups
      /\ \A i \in DOMAIN Roots : G(i) \in Lookups
    BY AsRequested
<1>2. /\ res = CanonicalizeExistingPrefix(tree, p)
      /\ \A i \in DOMAIN Roots : R(i) = CanonicalizeExistingPrefix(tree, G(i))
    BY DEF Real, RootReal
<1>3. /\ Accepted <=> \E i \in DOMAIN Roots : IsPrefix(R(i), res)
      /\ Inside(tree, res) <=> \E i \in DOMAIN Roots :
             Landing(tree, G(i)) # Nothing /\ IsPrefix(Landing(tree, G(i)), res)
    BY DEF Accepted, Inside
<1>4. DOMAIN Roots # {}
    <2>1. Roots \in Seq(Locations) /\ Roots # <<>>
        BY WorkspaceAssumption
    <2>2. 1 \in 1..Len(Roots)
        BY <2>1, EmptySeq, LenProperties
    <2> QED
        BY <2>1, <2>2
<1> HIDE DEF p, res, G, R
<1>5. ASSUME NEW i \in DOMAIN Roots
      PROVE  /\ res = Landing(tree, p)
             /\ IsPrefix(R(i), res) =>
                   Landing(tree, G(i)) # Nothing /\ IsPrefix(Landing(tree, G(i)), res)
             /\ /\ Landing(tree, G(i)) # Nothing /\ IsPrefix(Landing(tree, G(i)), res)
                /\ Here(tree, res) \/ ~Dangles(tree, R(i))
                => IsPrefix(R(i), res)
    <2>1. Here(tree, res) \/ Missing(tree, res)
        BY DEF res
    <2>2. G(i) \in Lookups /\ R(i) = CanonicalizeExistingPrefix(tree, G(i))
        BY <1>1, <1>2
    <2> QED
        BY <1>1, <1>2, <2>1, <2>2, Compared
<1>6. res = Landing(tree, p)
    BY <1>4, <1>5
<1>7. Accepted => Inside(tree, res)
    BY <1>3, <1>5
<1>8. Inside(tree, res) /\ (Here(tree, res) \/ \A i \in DOMAIN Roots : ~Dangles(tree, R(i)))
      => Accepted
    BY <1>3, <1>5
<1> QED
    BY <1>6, <1>7, <1>8 DEF p, res, R

\* The tools open the location that was compared with the roots, however links and
\* ".." lead to it, or make a file by a link to nothing (resolve,
\* canonicalize_existing_prefix).
THEOREM OpensWhatIsCompared == Spec => []OpensResolved
<1>1. WorkspaceInv => OpensResolved
    <2> SUFFICES ASSUME WorkspaceInv, pc = "opened", quiet, opened \notin {resolved, Nothing}
                 PROVE  Dangles(tree, resolved) /\ ~Exists(tree, opened)
        BY DEF OpensResolved
    <2>1. resolved = Real(tree, request)
        BY DEF WorkspaceInv
    <2>2. opened \in {Landing(tree, resolved), Canonicalize(tree, resolved)}
        BY DEF WorkspaceInv
    <2>3. Answers(tree, Lexical(request), resolved) /\ tree \in Trees /\ resolved \in Locations
        BY <2>1, AsRequested
    <2>4. /\ Canonicalize(tree, resolved) = Nothing /\ opened = Landing(tree, resolved)
          /\ Node(tree, resolved).kind = "link"
        BY <2>2, <2>3 DEF Answers
    <2>5. ~Exists(tree, opened)
        BY <2>3, <2>4, MadeIsNew
    <2> QED
        BY <2>4, <2>5 DEF Dangles
<1> QED
    BY <1>1, AnswersCurrent, PTL

\* resolve refuses what is outside all roots, and nothing else; where it errs,
\* nothing is there and the answer or a root is a link to nothing (resolve).
THEOREM RefusesWhatIsOutside == Spec => []RefusesOutside
<1>1. WorkspaceInv => RefusesOutside
    <2> DEFINE at == Landing(tree, Lexical(request))
               res == Real(tree, request)
               Links == \/ Dangles(tree, res)
                        \/ \E i \in DOMAIN Roots : Dangles(tree, RootReal(tree, Roots[i]))
    <2> SUFFICES ASSUME WorkspaceInv, pc \in {"resolved", "outside"}, quiet, at # Nothing
                 PROVE  (pc = "resolved" <=> Inside(tree, at)) \/ (~Exists(tree, at) /\ Links)
        BY DEF RefusesOutside
    <2>1. pc = "resolved" <=> Accepted
        BY DEF WorkspaceInv
    <2>2. /\ tree \in Trees /\ Lexical(request) \in Locations
          /\ Answers(tree, Lexical(request), res)
        BY AsRequested
    <2>3. CASE Canonicalize(tree, Lexical(request)) = Nothing /\ Links
        BY <2>2, <2>3, MadeIsNew
    <2>4. CASE Canonicalize(tree, Lexical(request)) # Nothing
        <3>1. Here(tree, res)
            BY <2>2, <2>4 DEF Answers
        <3>2. res = at /\ (Accepted <=> Inside(tree, res))
            BY <3>1, AcceptedInside
        <3> QED
            BY <2>1, <3>2
    <2>5. CASE ~Links
        <3>1. Here(tree, res) \/ Missing(tree, res)
            BY <2>2, <2>5 DEF Answers, Dangles
        <3>2. res = at /\ (Accepted <=> Inside(tree, res))
            BY <2>5, <3>1, AcceptedInside
        <3> QED
            BY <2>1, <3>2
    <2> HIDE DEF at, Links, res
    <2> QED
        BY <2>3, <2>4, <2>5
<1> QED
    BY <1>1, AnswersCurrent, PTL

\* From the request to the file: nothing that is there is opened outside the roots,
\* and nothing is made there but by a link to nothing (resolve, write_file).
THEOREM NothingThereOutside == Spec => []OpensInside
<1>1. WorkspaceInv => OpensInside
    <2> DEFINE res == Real(tree, request)
    <2> SUFFICES ASSUME WorkspaceInv, pc = "opened", quiet, opened # Nothing
                 PROVE  Inside(tree, opened) \/ (Dangles(tree, resolved) /\ ~Exists(tree, opened))
        BY DEF OpensInside
    <2>1. resolved = res /\ Accepted /\ opened \in {Landing(tree, res), Canonicalize(tree, res)}
        BY DEF WorkspaceInv
    <2>2. tree \in Trees /\ res \in Locations /\ Answers(tree, Lexical(request), res)
        BY AsRequested
    <2>3. CASE Here(tree, res) \/ Missing(tree, res)
        <3>1. Inside(tree, res)
            BY <2>1, <2>3, AcceptedInside
        <3>2. Clear(tree, res) /\ IsPrefix(res, res)
            <4>1. Clear(tree, res)
                BY <2>2, <2>3, HereClear, MissingClear
            <4> QED
                BY <2>2, <4>1, LocationFacts DEF IsPrefix
        <3>3. ~Blocked(tree, res)
            BY <2>2, <3>2, ClearNotBlocked
        <3> HIDE DEF res
        <3>4. opened = res
            BY <2>1, <2>2, <3>3 DEF Answers
        <3> QED
            BY <3>1, <3>4
    <2>4. CASE ~(Here(tree, res) \/ Missing(tree, res))
        <3>1. Canonicalize(tree, res) = Nothing /\ opened = Landing(tree, res)
              /\ Node(tree, res).kind = "link"
            BY <2>1, <2>2, <2>4 DEF Answers
        <3>2. ~Exists(tree, opened)
            BY <2>2, <3>1, MadeIsNew
        <3> QED
            BY <2>1, <3>1, <3>2 DEF Dangles
    <2> HIDE DEF res
    <2> QED
        BY <2>3, <2>4
<1> QED
    BY <1>1, AnswersCurrent, PTL

\* The answer of resolve names what the request names, also where nothing is there
\* yet (canonicalize_existing_prefix).
THEOREM AnswersNameTheSame == Spec => []NamesTheSame
<1>1. WorkspaceInv => NamesTheSame
    <2> SUFFICES ASSUME WorkspaceInv, pc = "resolved", quiet
                 PROVE  Landing(tree, resolved) = Landing(tree, Lexical(request))
        BY DEF NamesTheSame
    <2>1. resolved = Real(tree, request)
        BY DEF WorkspaceInv
    <2> QED
        BY <2>1, AsRequested DEF Answers
<1> QED
    BY <1>1, AnswersCurrent, PTL

\* Where no link is in the way, normalizing before looking gives what looking
\* gives (lexically_normalize).
THEOREM DotsAgreeWithKernel == Spec => []DotsAgree
<1>1. WorkspaceInv => DotsAgree
    <2> DEFINE there == Canonicalize(tree, Joined(request))
               p == Lexical(request)
    <2> SUFFICES ASSUME WorkspaceInv, pc = "resolved", quiet,
                        \A at \in DOMAIN tree : tree[at].kind # "link", there # Nothing
                 PROVE  resolved = there
        BY DEF DotsAgree
    <2>1. resolved = Real(tree, request)
        BY DEF WorkspaceInv
    <2>2. tree \in Trees /\ p \in Lookups /\ Answers(tree, p, resolved) /\ request \in Requests
        BY <2>1, AsRequested
    <2>3. \A at : Node(tree, at).kind # "link"
        BY DEF Node
    <2>4. Joined(request) \in Locations
        BY <2>2, RequestedPath
    <2>5. there = p
        BY <2>2, <2>3, <2>4, WithoutLinks DEF Lexical
    <2>6. Here(tree, p) /\ p \in Locations
        BY <2>2, <2>4, <2>5, CanonicalThere
    <2>7. Exact(tree, p)
        <3>1. Len(p) \in 0..Len(p) /\ SubSeq(p, 1, Len(p)) = p
            BY <2>6, LocationFacts, Whole
        <3> HIDE DEF p
        <3> QED
            BY <2>2, <3>1, LookupsUnbounded DEF Unbounded
    <2>8. Canonicalize(tree, p) = p
        BY <2>2, <2>6, <2>7, HereArrives, ArrivesThere
    <2>9. p # Nothing
        BY <2>6, WorkspaceAssumption
    <2> HIDE DEF p, there
    <2> QED
        BY <2>2, <2>5, <2>8, <2>9 DEF Answers
<1> QED
    BY <1>1, AnswersCurrent, PTL

-------------------------------------------------------------------------------
(* The properties of TextQuestions, for every text of any characters. *)
LEMMA QuestionKind == TextSpec => [](question \in Questions \cup {NoQuestion})
<1>1. question \in Questions \cup {NoQuestion} /\ [UNCHANGED question]_question
          => (question \in Questions \cup {NoQuestion})'
    OBVIOUS
<1> QED
    BY <1>1, PTL DEF TextSpec

LEMMA OneKind == "edit" # "cut" /\ "edit" # "none" /\ "cut" # "none"
    OBVIOUS

\* Every edit reports the replacements it makes, and makes them (edit_file).
THEOREM EditsExact == TextSpec => []EditExact
<1>1. question \in Questions \cup {NoQuestion} => EditExact
    <2> SUFFICES ASSUME question \in Questions \cup {NoQuestion}, question.of = "edit"
                 PROVE  ReportsActual(question.text, question)
        BY DEF EditExact
    <2>1. question \in Edits
        BY TextAssumption, OneKind DEF Cuts, NoQuestion
    <2>2. /\ question.text \in Seq(Chars) /\ question.find \in Seq(Chars)
          /\ question.replace \in Seq(Chars) /\ question.count \in Nat
        BY <2>1 DEF Edits
    <2> QED
        BY <2>2, EditReportsActual
<1> QED
    BY <1>1, QuestionKind, PTL

\* Every cut is the longest run of whole characters that fits, and is flagged when
\* something is missing (truncate_to).
THEOREM CutsExact == TextSpec => []CutExact
<1>1. question \in Questions \cup {NoQuestion} => CutExact
    <2> SUFFICES ASSUME question \in Questions \cup {NoQuestion}, question.of = "cut"
                 PROVE  CutsCleanly(question.text, Width, question.max)
        BY DEF CutExact
    <2>1. question \in Cuts
        BY TextAssumption, OneKind DEF Edits, NoQuestion
    <2>2. question.text \in Seq(Chars) /\ question.max \in Nat
        BY <2>1 DEF Cuts
    <2>3. Width \in [Chars -> 1..4]
        BY TextAssumption
    <2> QED
        BY <2>2, <2>3, CutIsClean
<1> QED
    BY <1>1, QuestionKind, PTL
===============================================================================
