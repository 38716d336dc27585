---------------------------- MODULE LoopProofs -----------------------------
(***************************************************************************)
(* Facts about sequences and about the loops over them (FoldLeft,          *)
(* FlattenSeq), for sequences of every length, and about sums and sorts.   *)
(* A loop is unfolded into the run of its accumulator, and what holds at   *)
(* the start of a run and is kept by each of its steps holds throughout.   *)
(***************************************************************************)
EXTENDS Items, Integers, TLAPS, WellFoundedInduction, FiniteSetTheorems

-----------------------------------------------------------------------------
(* Loops.                                                                   *)

\* Induction over the naturals, for a set of them.
LEMMA NaturalsBySteps ==
    ASSUME NEW S \in SUBSET Nat, 0 \in S, \A n \in S : n + 1 \in S
    PROVE  S = Nat
<1> DEFINE Lt == {p \in Nat \X Nat : p[1] < p[2]}
<1>1. IsWellFoundedOn(Lt, Nat)
    BY NatLessThanWellFounded DEF OpToRel
<1> SUFFICES ASSUME Nat \ S # {} PROVE FALSE
    OBVIOUS
<1>2. PICK x \in Nat \ S : \A y \in Nat \ S : ~(<<y, x>> \in Lt)
    BY <1>1, WFMin
<1>3. x # 0 /\ x - 1 \in Nat /\ x - 1 < x
    OBVIOUS
<1>4. x - 1 \in S
    BY <1>2, <1>3
<1> QED
    BY <1>3, <1>4

\* The greatest element of a set of indexes.
LEMMA MaxOfIndexes ==
    ASSUME NEW n \in Nat, NEW s \in SUBSET (1 .. n), s # {}
    PROVE  /\ Max(s) \in s
           /\ \A i \in s : i <= Max(s)
<1> DEFINE Lt == {p \in Nat \X Nat : p[1] < p[2]}
           T  == {t \in Nat : n - t \in s}
<1>1. IsWellFoundedOn(Lt, Nat)
    BY NatLessThanWellFounded DEF OpToRel
<1>2. T \in SUBSET Nat
    OBVIOUS
<1>3. PICK i \in s : TRUE
    OBVIOUS
<1>4. n - i \in Nat /\ n - (n - i) = i
    OBVIOUS
<1>5. n - i \in T
    BY <1>3, <1>4
<1>6. PICK x \in T : \A y \in T : ~(<<y, x>> \in Lt)
    BY <1>1, <1>2, <1>5, WFMin
<1>7. \A y \in T : x <= y
    <2> SUFFICES ASSUME NEW y \in T PROVE x <= y
        OBVIOUS
    <2>1. y \in Nat /\ x \in Nat
        BY <1>2
    <2>2. y < x => <<y, x>> \in Lt
        BY <2>1
    <2>3. ~(y < x)
        BY <1>6, <2>2
    <2> HIDE DEF T, Lt
    <2> QED
        BY <2>1, <2>3
<1>8. n - x \in s
    OBVIOUS
<1>9. \A j \in s : j <= n - x
    <2> TAKE j \in s
    <2>1. n - j \in Nat /\ n - (n - j) = j
        OBVIOUS
    <2>2. n - j \in T
        BY <2>1
    <2>3. x <= n - j
        BY <1>7, <2>2
    <2> QED
        BY <2>1, <2>3
<1> QED
    BY <1>8, <1>9 DEF Max

\* What holds at the start of a run and is kept by its steps holds throughout.
LEMMA RunStays ==
    ASSUME NEW n \in Nat, NEW h, NEW X, h[0] \in X,
           \A i \in 1 .. n : h[i - 1] \in X => h[i] \in X
    PROVE  \A i \in 0 .. n : h[i] \in X
<1> DEFINE S == {m \in Nat : m <= n => h[m] \in X}
<1>1. 0 \in S
    OBVIOUS
<1>2. \A m \in S : m + 1 \in S
    <2> SUFFICES ASSUME NEW m \in S, m + 1 <= n PROVE h[m + 1] \in X
        OBVIOUS
    <2>1. m + 1 \in 1 .. n /\ (m + 1) - 1 = m
        OBVIOUS
    <2> QED
        BY <2>1
<1>3. S \in SUBSET Nat
    OBVIOUS
<1>4. S = Nat
    <2> HIDE DEF S
    <2> QED
        BY <1>1, <1>2, <1>3, NaturalsBySteps
<1> QED
    BY <1>4

\* A set of indexes up to n that has the first and the next of each has the last.
LEMMA StepsUp ==
    ASSUME NEW n \in Nat, NEW good, 0 \in good,
           \A i \in 1 .. n : i - 1 \in good => i \in good
    PROVE  n \in good
<1> DEFINE h == [i \in 0 .. n |-> i]
<1>1. h[0] \in good /\ \A i \in 1 .. n : h[i - 1] \in good => h[i] \in good
    OBVIOUS
<1> HIDE DEF h
<1>2. \A i \in 0 .. n : h[i] \in good
    BY <1>1, RunStays
<1>3. n \in 0 .. n
    OBVIOUS
<1> QED
    BY <1>2, <1>3 DEF h

\* f is the recursion over the sets of indexes up to n that takes their greatest
\* element first, starts from base and steps with F.
RecursesOver(f, n, X, base, F) ==
    /\ f \in [SUBSET (1 .. n) -> X]
    /\ \A s \in SUBSET (1 .. n) :
           f[s] = IF s = {} THEN base ELSE F[<<f[s \ {Max(s)}], Max(s)>>]

\* A recursion over the sets of indexes, their greatest element first, has a solution.
LEMMA FoldRecursion ==
    ASSUME NEW n \in Nat, NEW X, NEW base \in X, NEW F \in [X \X (1 .. n) -> X]
    PROVE  \E f : RecursesOver(f, n, X, base, F)
<1> DEFINE Solves(f, m) ==
               \A s \in SUBSET (1 .. m) :
                   f[s] = IF s = {} THEN base ELSE F[<<f[s \ {Max(s)}], Max(s)>>]
           Good == {m \in Nat : m <= n => \E f \in [SUBSET (1 .. m) -> X] : Solves(f, m)}
<1>1. 0 \in Good
    <2> DEFINE g == [s \in SUBSET (1 .. 0) |-> base]
    <2>1. g \in [SUBSET (1 .. 0) -> X]
        OBVIOUS
    <2>2. \A s \in SUBSET (1 .. 0) : s = {}
        OBVIOUS
    <2>3. Solves(g, 0)
        BY <2>2
    <2> QED
        BY <2>1, <2>3
<1>2. \A m \in Good : m + 1 \in Good
    <2> SUFFICES ASSUME NEW m \in Nat, m + 1 <= n,
                        NEW f \in [SUBSET (1 .. m) -> X], Solves(f, m)
                 PROVE  \E g \in [SUBSET (1 .. (m + 1)) -> X] : Solves(g, m + 1)
        <3>1. \A k \in Nat : k + 1 \in Nat /\ (k + 1 <= n => k <= n)
            OBVIOUS
        <3> QED
            BY <3>1
    <2> DEFINE g == [s \in SUBSET (1 .. (m + 1)) |->
                        IF m + 1 \in s THEN F[<<f[s \ {m + 1}], m + 1>>] ELSE f[s]]
    <2>1. \A s \in SUBSET (1 .. (m + 1)) :
            /\ s \ {m + 1} \in SUBSET (1 .. m)
            /\ m + 1 \notin s => s \in SUBSET (1 .. m)
        OBVIOUS
    <2>2. \A s \in SUBSET (1 .. (m + 1)) : g[s] \in X
        <3> TAKE s \in SUBSET (1 .. (m + 1))
        <3>1. CASE m + 1 \in s
            <4>1. f[s \ {m + 1}] \in X /\ m + 1 \in 1 .. n
                BY <2>1
            <4>2. F[<<f[s \ {m + 1}], m + 1>>] \in X
                BY <4>1
            <4> QED
                BY <3>1, <4>2
        <3>2. CASE m + 1 \notin s
            BY <2>1, <3>2
        <3> QED
            BY <3>1, <3>2
    <2>3. g \in [SUBSET (1 .. (m + 1)) -> X]
        BY <2>2
    <2>4. \A s \in SUBSET (1 .. (m + 1)) :
            g[s] = IF s = {} THEN base ELSE F[<<g[s \ {Max(s)}], Max(s)>>]
        <3> SUFFICES ASSUME NEW s \in SUBSET (1 .. (m + 1))
                     PROVE  g[s] = IF s = {} THEN base ELSE F[<<g[s \ {Max(s)}], Max(s)>>]
            OBVIOUS
        <3>1. CASE m + 1 \in s
            <4>1. Max(s) \in s /\ \A i \in s : i <= Max(s)
                <5>1. m + 1 \in Nat /\ s # {}
                    BY <3>1
                <5> HIDE DEF g
                <5> QED
                    BY <5>1, MaxOfIndexes
            <4>2. Max(s) = m + 1
                <5>1. Max(s) \in 1 .. (m + 1) /\ m + 1 <= Max(s)
                    BY <3>1, <4>1
                <5> QED
                    BY <5>1
            <4>3. s \ {m + 1} \in SUBSET (1 .. (m + 1)) /\ m + 1 \notin s \ {m + 1}
                OBVIOUS
            <4>4. g[s \ {m + 1}] = f[s \ {m + 1}]
                BY <4>3
            <4> QED
                BY <3>1, <4>2, <4>4
        <3>2. CASE m + 1 \notin s
            <4>1. s \in SUBSET (1 .. m) /\ g[s] = f[s]
                BY <2>1, <3>2
            <4>2. CASE s = {}
                BY <4>1, <4>2
            <4>3. CASE s # {}
                <5>1. f[s] = F[<<f[s \ {Max(s)}], Max(s)>>]
                    BY <4>1, <4>3
                <5>2. s \ {Max(s)} \in SUBSET (1 .. (m + 1)) /\ m + 1 \notin s \ {Max(s)}
                    BY <3>2
                <5>3. g[s \ {Max(s)}] = f[s \ {Max(s)}]
                    BY <5>2
                <5> QED
                    BY <4>1, <4>3, <5>1, <5>3
            <4> QED
                BY <4>2, <4>3
        <3> QED
            BY <3>1, <3>2
    <2> QED
        BY <2>3, <2>4
<1>3. Good = Nat
    <2> HIDE DEF Good
    <2>1. Good \in SUBSET Nat
        BY DEF Good
    <2> QED
        BY <1>1, <1>2, <2>1, NaturalsBySteps
<1>4. n \in Good
    BY <1>3
<1>5. n <= n
    OBVIOUS
<1>6. PICK f \in [SUBSET (1 .. n) -> X] : Solves(f, n)
    BY <1>4, <1>5
<1> QED
    BY <1>6 DEF RecursesOver

\* The indexes up to i, taken from the greatest.
LEMMA UpTo ==
    ASSUME NEW n \in Nat, NEW i \in 1 .. n
    PROVE  /\ 1 .. i \in SUBSET (1 .. n)
           /\ 1 .. i # {}
           /\ Max(1 .. i) = i
           /\ (1 .. i) \ {Max(1 .. i)} = 1 .. (i - 1)
           /\ i - 1 \in 0 .. n
<1>1. 1 .. i \in SUBSET (1 .. n) /\ i \in 1 .. i
    OBVIOUS
<1>2. Max(1 .. i) \in 1 .. i /\ \A j \in 1 .. i : j <= Max(1 .. i)
    BY <1>1, MaxOfIndexes
<1>3. Max(1 .. i) = i
    BY <1>1, <1>2
<1> QED
    BY <1>1, <1>3

-----------------------------------------------------------------------------
(* Sequences.                                                               *)

\* Taking one item out of a sequence leaves the others, in their order.
LEMMA RemoveAtDrops ==
    ASSUME NEW X, NEW s \in Seq(X), NEW i \in 1 .. Len(s)
    PROVE  /\ RemoveAt(s, i) \in Seq(X)
           /\ Len(RemoveAt(s, i)) = Len(s) - 1
           /\ \A j \in 1 .. Len(s) - 1 :
                  RemoveAt(s, i)[j] = IF j < i THEN s[j] ELSE s[j + 1]
           /\ ToSet(RemoveAt(s, i)) \subseteq ToSet(s)
<1> DEFINE a == SubSeq(s, 1, i - 1)
           b == SubSeq(s, i + 1, Len(s))
<1>1. a \in Seq(X) /\ Len(a) = i - 1 /\ \A j \in 1 .. i - 1 : a[j] = s[j]
    OBVIOUS
<1>2. b \in Seq(X) /\ Len(b) = Len(s) - i /\ \A j \in 1 .. Len(s) - i : b[j] = s[j + i]
    OBVIOUS
<1>3. RemoveAt(s, i) = a \o b
    BY DEF RemoveAt
<1> HIDE DEF a, b
<1>4. /\ RemoveAt(s, i) \in Seq(X)
      /\ Len(RemoveAt(s, i)) = Len(s) - 1
      /\ \A j \in 1 .. Len(s) - 1 :
             RemoveAt(s, i)[j] = IF j < i THEN s[j] ELSE s[j + 1]
    <2>a. a \in Seq(X) /\ b \in Seq(X)
        BY <1>1, <1>2
    <2>1. a \o b \in Seq(X) /\ Len(a \o b) = Len(a) + Len(b)
        BY <2>a
    <2>2. \A j \in 1 .. Len(s) - 1 : (a \o b)[j] = IF j <= Len(a) THEN a[j] ELSE b[j - Len(a)]
        BY <1>1, <1>2
    <2>3. \A j \in 1 .. Len(s) - 1 : j < i => j <= Len(a) /\ a[j] = s[j]
        BY <1>1
    <2>4. \A j \in 1 .. Len(s) - 1 : ~(j < i) => ~(j <= Len(a)) /\ b[j - Len(a)] = s[j + 1]
        <3> TAKE j \in 1 .. Len(s) - 1
        <3> HAVE ~(j < i)
        <3>1. j - Len(a) = (j - i) + 1 /\ (j - i) + 1 \in 1 .. Len(s) - i
            BY <1>1
        <3>2. b[(j - i) + 1] = s[((j - i) + 1) + i]
            BY <1>2, <3>1
        <3>3. ((j - i) + 1) + i = j + 1
            OBVIOUS
        <3>4. ~(j <= Len(a))
            BY <1>1
        <3> QED
            BY <3>1, <3>2, <3>3, <3>4
    <2> QED
        BY <1>1, <1>2, <1>3, <2>1, <2>2, <2>3, <2>4
<1>5. ToSet(RemoveAt(s, i)) \subseteq ToSet(s)
    BY <1>4 DEF ToSet
<1> QED
    BY <1>4, <1>5

\* Appending one item adds it to the items.
LEMMA AppendAdds ==
    ASSUME NEW X, NEW s \in Seq(X), NEW x \in X
    PROVE  /\ Append(s, x) \in Seq(X)
           /\ ToSet(Append(s, x)) = ToSet(s) \cup {x}
<1>1. /\ Append(s, x) \in Seq(X)
      /\ DOMAIN Append(s, x) = DOMAIN s \cup {Len(s) + 1}
      /\ \A i \in DOMAIN s : Append(s, x)[i] = s[i]
      /\ Append(s, x)[Len(s) + 1] = x
    OBVIOUS
<1> QED
    BY <1>1 DEF ToSet

\* A non-empty set of naturals has a least element.
LEMMA MinOfNaturals ==
    ASSUME NEW S \in SUBSET Nat, S # {}
    PROVE  /\ Min(S) \in S
           /\ \A n \in S : Min(S) <= n
<1> DEFINE Lt == {p \in Nat \X Nat : p[1] < p[2]}
<1>1. IsWellFoundedOn(Lt, Nat)
    BY NatLessThanWellFounded DEF OpToRel
<1>2. PICK x \in S : \A y \in S : ~(<<y, x>> \in Lt)
    BY <1>1, WFMin
<1>3. \A y \in S : y < x => <<y, x>> \in Lt
    OBVIOUS
<1>4. \A y \in S : ~(y < x)
    BY <1>2, <1>3
<1>5. \A y \in S : x <= y
    BY <1>4
<1> QED
    BY <1>5 DEF Min

\* FlattenSeq joins the sequences one after the other.
JoiningRun(h, seqs) ==
    /\ h[0] = <<>>
    /\ \A i \in 1 .. Len(seqs) : h[i] = h[i - 1] \o seqs[i]

\* Flattening is a run that joins one sequence after the other.
LEMMA FlattenSeqRun ==
    ASSUME NEW X, NEW seqs \in Seq(Seq(X))
    PROVE  \E h : JoiningRun(h, seqs) /\ FlattenSeq(seqs) = h[Len(seqs)]
<1> DEFINE n == Len(seqs)
           F == [p \in Seq(X) \X (1 .. n) |-> p[1] \o seqs[p[2]]]
           Flattens(f) == f = [i \in 1 .. n |-> IF i = 1 THEN seqs[i] ELSE f[i - 1] \o seqs[i]]
           C == CHOOSE f : Flattens(f)
<1>1. n \in Nat /\ DOMAIN seqs = 1 .. n /\ \A i \in 1 .. n : seqs[i] \in Seq(X)
    OBVIOUS
<1>2. <<>> \in Seq(X)
    OBVIOUS
<1>3. F \in [Seq(X) \X (1 .. n) -> Seq(X)]
    BY <1>1
<1>4. PICK f : RecursesOver(f, n, Seq(X), <<>>, F)
    <2> HIDE DEF F, n
    <2> QED
        BY <1>1, <1>2, <1>3, FoldRecursion
<1> DEFINE g == [i \in 1 .. n |-> f[1 .. i]]
<1>5. f[1 .. 0] = <<>> /\ \A i \in 0 .. n : f[1 .. i] \in Seq(X)
    <2> HIDE DEF F
    <2>1. 1 .. 0 = {} /\ \A i \in 0 .. n : 1 .. i \in SUBSET (1 .. n)
        BY <1>1
    <2> QED
        BY <1>1, <1>4, <2>1 DEF RecursesOver
<1>6. \A i \in 1 .. n : f[1 .. i] = f[1 .. (i - 1)] \o seqs[i]
    <2> TAKE i \in 1 .. n
    <2> HIDE DEF n
    <2>1. f[1 .. i] = F[<<f[1 .. (i - 1)], i>>]
        <3> HIDE DEF F
        <3> QED
            BY <1>1, <1>4, UpTo DEF RecursesOver
    <2>2. i - 1 \in 0 .. n
        BY <1>1
    <2>3. f[1 .. (i - 1)] \in Seq(X)
        BY <1>5, <2>2
    <2> QED
        BY <2>1, <2>3
<1>7. \A i \in 1 .. n : g[i] = IF i = 1 THEN seqs[i] ELSE g[i - 1] \o seqs[i]
    <2> TAKE i \in 1 .. n
    <2>1. CASE i = 1
        <3>1. f[1 .. 1] = f[1 .. 0] \o seqs[1] /\ seqs[1] \in Seq(X)
            <4>1. 1 \in 1 .. n /\ 1 - 1 = 0
                BY <2>1
            <4> HIDE DEF n
            <4> QED
                BY <1>1, <1>6, <4>1
        <3>2. f[1 .. 1] = seqs[1]
            BY <1>5, <3>1
        <3> QED
            BY <2>1, <3>2
    <2>2. CASE i # 1
        <3>1. i - 1 \in 1 .. n
            BY <1>1, <2>2
        <3> HIDE DEF n
        <3> QED
            BY <1>6, <2>2, <3>1
    <2> QED
        BY <2>1, <2>2
<1>8. Flattens(g)
    <2> HIDE DEF n
    <2> QED
        BY <1>7
<1>9. Flattens(C)
    <2> HIDE DEF Flattens, g
    <2> QED
        BY <1>8
<1> DEFINE h == [i \in 0 .. n |-> IF i = 0 THEN <<>> ELSE C[i]]
<1>10. \A i \in 1 .. n : h[i] = h[i - 1] \o seqs[i]
    <2> TAKE i \in 1 .. n
    <2>1. C[i] = IF i = 1 THEN seqs[i] ELSE C[i - 1] \o seqs[i]
        <3> HIDE DEF C, n
        <3> QED
            BY <1>9
    <2>2. <<>> \o seqs[i] = seqs[i]
        BY <1>1
    <2>3. i \in 0 .. n /\ i - 1 \in 0 .. n /\ i # 0 /\ (i - 1 = 0 <=> i = 1)
        BY <1>1
    <2> HIDE DEF C, n
    <2> QED
        BY <2>1, <2>2, <2>3
<1>11. FlattenSeq(seqs) = h[n]
    <2>1. CASE n = 0
        <3>1. seqs = <<>>
            BY <2>1
        <3> QED
            BY <2>1, <3>1 DEF FlattenSeq
    <2>2. CASE n # 0
        <3>1. FlattenSeq(seqs) = C[n]
            BY <2>2 DEF FlattenSeq
        <3>2. n \in 0 .. n
            BY <1>1
        <3> HIDE DEF C, n
        <3> QED
            BY <2>2, <3>1, <3>2
    <2> QED
        BY <2>1, <2>2
<1>12. h[0] = <<>>
    BY <1>1
<1> HIDE DEF h
<1> QED
    BY <1>10, <1>11, <1>12 DEF JoiningRun

\* Its items are the items of the sequences joined.
LEMMA FlattenSeqMembers ==
    ASSUME NEW X, NEW seqs \in Seq(Seq(X))
    PROVE  /\ FlattenSeq(seqs) \in Seq(X)
           /\ \A i \in DOMAIN FlattenSeq(seqs) :
                  \E j \in DOMAIN seqs : FlattenSeq(seqs)[i] \in ToSet(seqs[j])
<1> DEFINE n == Len(seqs)
           All == {s \in Seq(X) : \A i \in DOMAIN s : \E j \in DOMAIN seqs : s[i] \in ToSet(seqs[j])}
<1>1. n \in Nat /\ DOMAIN seqs = 1 .. n /\ \A i \in 1 .. n : seqs[i] \in Seq(X)
    OBVIOUS
<1>2. <<>> \in All
    OBVIOUS
<1>3. \A s \in All, i \in 1 .. n : s \o seqs[i] \in All
    <2> TAKE s \in All, i \in 1 .. n
    <2>1. s \in Seq(X) /\ seqs[i] \in Seq(X)
        BY <1>1
    <2>2. \A k \in DOMAIN (s \o seqs[i]) :
             \/ k \in DOMAIN s /\ (s \o seqs[i])[k] = s[k]
             \/ k - Len(s) \in DOMAIN seqs[i] /\ (s \o seqs[i])[k] = seqs[i][k - Len(s)]
        BY <2>1
    <2>3. \A k \in DOMAIN seqs[i] : seqs[i][k] \in ToSet(seqs[i])
        BY DEF ToSet
    <2>4. \A k \in DOMAIN (s \o seqs[i]) : \E j \in DOMAIN seqs : (s \o seqs[i])[k] \in ToSet(seqs[j])
        <3> TAKE k \in DOMAIN (s \o seqs[i])
        <3>1. CASE k \in DOMAIN s /\ (s \o seqs[i])[k] = s[k]
            BY <3>1
        <3>2. CASE k - Len(s) \in DOMAIN seqs[i] /\ (s \o seqs[i])[k] = seqs[i][k - Len(s)]
            BY <1>1, <2>3, <3>2
        <3> QED
            BY <2>2, <3>1, <3>2
    <2>5. s \o seqs[i] \in Seq(X)
        BY <2>1
    <2> QED
        BY <2>4, <2>5
<1>4. PICK h : JoiningRun(h, seqs) /\ FlattenSeq(seqs) = h[n]
    BY FlattenSeqRun
<1>5. FlattenSeq(seqs) \in All
    <2> HIDE DEF All, n
    <2>1. h[0] \in All
        BY <1>2, <1>4 DEF JoiningRun
    <2>2. \A i \in 1 .. n : h[i - 1] \in All => h[i] \in All
        BY <1>3, <1>4 DEF JoiningRun, n
    <2>3. \A i \in 0 .. n : h[i] \in All
        BY <1>1, <2>1, <2>2, RunStays
    <2>4. n \in 0 .. n
        BY <1>1
    <2> QED
        BY <1>4, <2>3, <2>4
<1> QED
    BY <1>5

\* One item from each sequence of one item.
LEMMA FlattenSeqOfSingles ==
    ASSUME NEW X, NEW s \in Seq(X)
    PROVE  FlattenSeq([i \in DOMAIN s |-> <<s[i]>>]) = s
<1> DEFINE n == Len(s)
           seqs == [i \in DOMAIN s |-> <<s[i]>>]
<1>1. n \in Nat /\ DOMAIN s = 1 .. n /\ \A i \in 1 .. n : s[i] \in X
    OBVIOUS
<1>2. seqs \in Seq(Seq(X)) /\ Len(seqs) = n /\ \A i \in 1 .. n : seqs[i] = <<s[i]>>
    BY <1>1
<1> HIDE DEF seqs, n
<1>3. PICK h : JoiningRun(h, seqs) /\ FlattenSeq(seqs) = h[n]
    BY <1>2, FlattenSeqRun
<1> DEFINE good == {i \in 0 .. n : /\ h[i] \in Seq(X)
                                   /\ Len(h[i]) = i
                                   /\ \A j \in 1 .. i : h[i][j] = s[j]}
<1>4. 0 \in good
    <2>1. h[0] = <<>> /\ 0 \in 0 .. n /\ 1 .. 0 = {}
        BY <1>1, <1>3 DEF JoiningRun
    <2>2. h[0] \in Seq(X) /\ Len(h[0]) = 0 /\ \A j \in 1 .. 0 : h[0][j] = s[j]
        BY <2>1
    <2> QED
        BY <2>1, <2>2
<1>5. \A i \in 1 .. n : i - 1 \in good => i \in good
    <2> SUFFICES ASSUME NEW i \in 1 .. n, i - 1 \in good PROVE i \in good
        OBVIOUS
    <2>1. h[i] = h[i - 1] \o <<s[i]>> /\ s[i] \in X
        BY <1>1, <1>2, <1>3 DEF JoiningRun
    <2>2. /\ h[i - 1] \in Seq(X)
          /\ Len(h[i - 1]) = i - 1
          /\ \A j \in 1 .. i - 1 : h[i - 1][j] = s[j]
        OBVIOUS
    <2>3. h[i] \in Seq(X) /\ Len(h[i]) = i /\ i \in 0 .. n
        BY <1>1, <2>1, <2>2
    <2>4. \A j \in 1 .. i : h[i][j] = s[j]
        BY <1>1, <2>1, <2>2
    <2> QED
        BY <2>3, <2>4
<1>6. n \in good
    <2> HIDE DEF good
    <2> QED
        BY <1>1, <1>4, <1>5, StepsUp
<1>7. h[n] \in Seq(X) /\ DOMAIN h[n] = 1 .. n /\ \A j \in 1 .. n : h[n][j] = s[j]
    BY <1>6
<1>8. h[n] = s
    BY <1>1, <1>7
<1> QED
    BY <1>3, <1>8 DEF seqs

\* w stands in s as a block.
Inside(w, s) == \E p \in Nat : p + Len(w) <= Len(s) /\ \A k \in 1 .. Len(w) : s[p + k] = w[k]

\* A text inside a text inside a third is inside the third.
LEMMA InsideIsTransitive ==
    ASSUME NEW X, NEW u \in Seq(X), NEW v \in Seq(X), NEW w \in Seq(X), Inside(u, v), Inside(v, w)
    PROVE  Inside(u, w)
<1>1. PICK p \in Nat : p + Len(u) <= Len(v) /\ \A k \in 1 .. Len(u) : v[p + k] = u[k]
    BY DEF Inside
<1>2. PICK q \in Nat : q + Len(v) <= Len(w) /\ \A k \in 1 .. Len(v) : w[q + k] = v[k]
    BY DEF Inside
<1>3. Len(u) \in Nat /\ Len(v) \in Nat /\ Len(w) \in Nat
    OBVIOUS
<1>4. q + p \in Nat /\ (q + p) + Len(u) <= Len(w)
    BY <1>1, <1>2, <1>3
<1>5. \A k \in 1 .. Len(u) : w[(q + p) + k] = u[k]
    <2> TAKE k \in 1 .. Len(u)
    <2>1. p + k \in 1 .. Len(v) /\ q + (p + k) = (q + p) + k
        BY <1>1, <1>2, <1>3
    <2>2. w[q + (p + k)] = v[p + k] /\ v[p + k] = u[k]
        BY <1>1, <1>2, <2>1
    <2> QED
        BY <2>1, <2>2
<1> QED
    BY <1>4, <1>5 DEF Inside

\* Each of the sequences joined stands in the result as a block.
LEMMA FlattenSeqBlocks ==
    ASSUME NEW X, NEW seqs \in Seq(Seq(X)), NEW j \in DOMAIN seqs
    PROVE  Inside(seqs[j], FlattenSeq(seqs))
<1> DEFINE n == Len(seqs)
<1>1. n \in Nat /\ j \in 1 .. n /\ \A i \in 1 .. n : seqs[i] \in Seq(X)
    OBVIOUS
<1>2. PICK h : JoiningRun(h, seqs) /\ FlattenSeq(seqs) = h[n]
    BY FlattenSeqRun
<1> HIDE DEF n
<1>3. h[0] = <<>> /\ \A i \in 1 .. n : h[i] = h[i - 1] \o seqs[i]
    BY <1>2 DEF JoiningRun, n
<1>4. \A s \in Seq(X), t \in Seq(X) : Inside(t, s \o t) /\ Inside(s, s \o t)
    <2> TAKE s \in Seq(X), t \in Seq(X)
    <2>1. Len(s) \in Nat /\ Len(s \o t) = Len(s) + Len(t) /\ Len(t) \in Nat
        OBVIOUS
    <2>2. \A k \in 1 .. Len(t) : (s \o t)[Len(s) + k] = t[k]
        OBVIOUS
    <2>3. \A k \in 1 .. Len(s) : (s \o t)[0 + k] = s[k]
        OBVIOUS
    <2>4. Inside(t, s \o t)
        <3>1. \E p \in Nat : /\ p + Len(t) <= Len(s \o t)
                            /\ \A k \in 1 .. Len(t) : (s \o t)[p + k] = t[k]
            <4>1. Len(s) \in Nat /\ Len(s) + Len(t) <= Len(s \o t)
                BY <2>1
            <4> WITNESS Len(s) \in Nat
            <4> QED
                BY <2>2, <4>1
        <3> QED
            BY <3>1 DEF Inside
    <2>5. 0 \in Nat /\ 0 + Len(s) <= Len(s \o t)
        BY <2>1
    <2> QED
        BY <2>3, <2>4, <2>5 DEF Inside
<1> DEFINE good == {i \in 0 .. n : h[i] \in Seq(X) /\ (j <= i => Inside(seqs[j], h[i]))}
<1>5. 0 \in good
    <2>1. ~(j <= 0) /\ 0 \in 0 .. n
        BY <1>1
    <2>2. h[0] \in Seq(X)
        BY <1>3
    <2> QED
        BY <2>1, <2>2
<1>6. \A i \in 1 .. n : i - 1 \in good => i \in good
    <2> SUFFICES ASSUME NEW i \in 1 .. n, i - 1 \in good PROVE i \in good
        OBVIOUS
    <2>1. h[i] = h[i - 1] \o seqs[i] /\ seqs[i] \in Seq(X) /\ h[i - 1] \in Seq(X)
        BY <1>1, <1>3
    <2>2. h[i] \in Seq(X) /\ i \in 0 .. n
        BY <1>1, <2>1
    <2>3. ASSUME j <= i PROVE Inside(seqs[j], h[i])
        <3>1. CASE j = i
            BY <1>4, <2>1, <3>1
        <3>2. CASE j # i
            <4>1. Inside(seqs[j], h[i - 1])
                BY <1>1, <2>3, <3>2
            <4>2. Inside(h[i - 1], h[i])
                BY <1>4, <2>1
            <4>3. seqs[j] \in Seq(X)
                BY <1>1
            <4> QED
                BY <2>1, <2>2, <4>1, <4>2, <4>3, InsideIsTransitive
        <3> QED
            BY <3>1, <3>2
    <2> QED
        BY <2>2, <2>3
<1>7. n \in good
    <2> HIDE DEF good
    <2> QED
        BY <1>1, <1>5, <1>6, StepsUp
<1> QED
    BY <1>1, <1>2, <1>7

\* h is the run of the selection of the items of s at the positions in I.
SelectingRun(h, s, I) ==
    /\ h[0] = <<>>
    /\ \A i \in 1 .. Len(s) : h[i] = IF i \in I THEN Append(h[i - 1], s[i]) ELSE h[i - 1]

\* A selection is a run that takes the selected items.
LEMMA ItemsAtRun ==
    ASSUME NEW X, NEW s \in Seq(X), NEW I
    PROVE  \E h : SelectingRun(h, s, I) /\ ItemsAt(s, I) = h[Len(s)]
<1> DEFINE n == Len(s)
           Op(out, i) == IF i \in I THEN Append(out, s[i]) ELSE out
           F == [p \in Seq(X) \X (1 .. n) |-> Op(p[1], p[2])]
           at == [i \in DOMAIN s |-> i]
           Folds(f) == f = [S \in SUBSET DOMAIN at |->
                            IF S = {} THEN <<>> ELSE Op(f[S \ {Max(S)}], at[Max(S)])]
           C == CHOOSE f : Folds(f)
           h == [i \in 0 .. n |-> C[1 .. i]]
<1>1. n \in Nat /\ DOMAIN s = 1 .. n /\ \A i \in 1 .. n : s[i] \in X
    OBVIOUS
<1>2. DOMAIN at = 1 .. n /\ \A i \in 1 .. n : at[i] = i
    BY <1>1
<1>3. F \in [Seq(X) \X (1 .. n) -> Seq(X)]
    BY <1>1
<1>4. PICK f : RecursesOver(f, n, Seq(X), <<>>, F)
    <2>1. <<>> \in Seq(X)
        OBVIOUS
    <2> HIDE DEF F, n
    <2> QED
        BY <1>1, <1>3, <2>1, FoldRecursion
<1> HIDE DEF n, at
<1>5. Folds(f)
    <2>1. \A S \in SUBSET (1 .. n) :
              f[S] = IF S = {} THEN <<>> ELSE Op(f[S \ {Max(S)}], at[Max(S)])
        <3> TAKE S \in SUBSET (1 .. n)
        <3>1. CASE S = {}
            BY <1>4, <3>1 DEF RecursesOver
        <3>2. CASE S # {}
            <4>1. Max(S) \in 1 .. n /\ at[Max(S)] = Max(S)
                BY <1>1, <1>2, <3>2, MaxOfIndexes
            <4>2. f[S \ {Max(S)}] \in Seq(X) /\ f[S] = F[<<f[S \ {Max(S)}], Max(S)>>]
                <5> HIDE DEF F
                <5> QED
                    BY <1>4, <3>2 DEF RecursesOver
            <4> HIDE DEF Op
            <4> QED
                BY <3>2, <4>1, <4>2
        <3> QED
            BY <3>1, <3>2
    <2>2. f = [S \in SUBSET (1 .. n) |-> f[S]]
        <3> HIDE DEF F
        <3> QED
            BY <1>4 DEF RecursesOver
    <2> HIDE DEF Op
    <2> QED
        BY <1>2, <2>1, <2>2
<1>6. Folds(C)
    <2> HIDE DEF Folds
    <2> QED
        BY <1>5
<1>7. h[0] = <<>> /\ \A i \in 1 .. n : h[i] = Op(h[i - 1], i)
    <2> HIDE DEF Op, C
    <2>1. 1 .. 0 = {} /\ 0 \in 0 .. n
        BY <1>1
    <2>2. \A i \in 1 .. n : C[1 .. i] = Op(C[1 .. (i - 1)], i)
        <3> TAKE i \in 1 .. n
        <3>1. /\ 1 .. i \in SUBSET DOMAIN at
              /\ 1 .. i # {}
              /\ Max(1 .. i) = i
              /\ (1 .. i) \ {Max(1 .. i)} = 1 .. (i - 1)
            BY <1>1, <1>2, UpTo
        <3>2. C[1 .. i] = Op(C[(1 .. i) \ {Max(1 .. i)}], at[Max(1 .. i)])
            BY <1>6, <3>1
        <3> QED
            BY <1>2, <3>1, <3>2
    <2>3. \A i \in 1 .. n : i \in 0 .. n /\ i - 1 \in 0 .. n
        BY <1>1
    <2> QED
        BY <1>2, <1>6, <2>1, <2>2, <2>3
<1>8. ItemsAt(s, I) = h[n]
    <2>1. ItemsAt(s, I) = C[DOMAIN at]
        BY DEF ItemsAt, FoldLeft, MapThenFoldSet, at
    <2>2. n \in 0 .. n
        BY <1>1
    <2> HIDE DEF C
    <2> QED
        BY <1>2, <2>1, <2>2
<1> HIDE DEF h
<1> QED
    BY <1>7, <1>8 DEF SelectingRun, n

\* Selecting positions keeps exactly the items there.
LEMMA ItemsAtMembers ==
    ASSUME NEW X, NEW s \in Seq(X), NEW I
    PROVE  /\ ItemsAt(s, I) \in Seq(X)
           /\ ToSet(ItemsAt(s, I)) = {s[i] : i \in DOMAIN s \cap I}
<1> DEFINE n == Len(s)
<1>1. n \in Nat /\ DOMAIN s = 1 .. n /\ \A i \in 1 .. n : s[i] \in X
    OBVIOUS
<1>2. PICK h : SelectingRun(h, s, I) /\ ItemsAt(s, I) = h[n]
    BY ItemsAtRun
<1>3. h[0] = <<>> /\ \A i \in 1 .. n : h[i] = IF i \in I THEN Append(h[i - 1], s[i]) ELSE h[i - 1]
    BY <1>2 DEF SelectingRun
<1> HIDE DEF n
<1> DEFINE good == {i \in 0 .. n : h[i] \in Seq(X) /\ ToSet(h[i]) = {s[j] : j \in 1 .. i \cap I}}
<1>4. 0 \in good
    <2>1. 1 .. 0 = {} /\ 0 \in 0 .. n /\ ToSet(h[0]) = {} /\ h[0] \in Seq(X)
        BY <1>1, <1>3 DEF ToSet
    <2> QED
        BY <2>1
<1>5. \A i \in 1 .. n : i - 1 \in good => i \in good
    <2> SUFFICES ASSUME NEW i \in 1 .. n, i - 1 \in good PROVE i \in good
        OBVIOUS
    <2>1. h[i - 1] \in Seq(X) /\ ToSet(h[i - 1]) = {s[j] : j \in 1 .. (i - 1) \cap I}
        OBVIOUS
    <2>2. CASE i \in I
        <3>1. h[i] = Append(h[i - 1], s[i])
            BY <1>3, <2>2
        <3>2. h[i] \in Seq(X) /\ ToSet(h[i]) = ToSet(h[i - 1]) \cup {s[i]}
            BY <1>1, <2>1, <3>1, AppendAdds
        <3>3. 1 .. i \cap I = (1 .. (i - 1) \cap I) \cup {i}
            BY <1>1, <2>2
        <3> QED
            BY <1>1, <2>1, <3>2, <3>3
    <2>3. CASE i \notin I
        <3>1. 1 .. i \cap I = 1 .. (i - 1) \cap I
            BY <1>1, <2>3
        <3> QED
            BY <1>1, <1>3, <2>1, <2>3, <3>1
    <2> QED
        BY <2>2, <2>3
<1>6. n \in good
    <2> HIDE DEF good
    <2> QED
        BY <1>1, <1>4, <1>5, StepsUp
<1> QED
    BY <1>1, <1>2, <1>6

\* How many items of s are in K.
HowMany(s, K) == Cardinality({i \in DOMAIN s : s[i] \in K})

\* A count is a number.
LEMMA HowManyType ==
    ASSUME NEW X, NEW s \in Seq(X), NEW K
    PROVE  /\ IsFiniteSet({i \in DOMAIN s : s[i] \in K})
           /\ HowMany(s, K) \in Nat
           /\ HowMany(s, K) = 0 <=> \A i \in DOMAIN s : s[i] \notin K
<1> DEFINE S == {i \in DOMAIN s : s[i] \in K}
<1>1. Len(s) \in Nat /\ DOMAIN s = 1 .. Len(s)
    OBVIOUS
<1>2. IsFiniteSet(1 .. Len(s)) /\ S \in SUBSET (1 .. Len(s))
    BY <1>1, FS_Interval
<1>3. IsFiniteSet(S)
    BY <1>2, FS_Subset
<1>4. Cardinality(S) \in Nat /\ (Cardinality(S) = 0 <=> S = {})
    BY <1>3, FS_CardinalityType, FS_EmptySet
<1> QED
    BY <1>3, <1>4 DEF HowMany

\* Appending adds one of the kind of the item.
LEMMA HowManyAppend ==
    ASSUME NEW X, NEW s \in Seq(X), NEW x \in X, NEW K
    PROVE  HowMany(Append(s, x), K) = HowMany(s, K) + (IF x \in K THEN 1 ELSE 0)
<1> DEFINE S == {i \in DOMAIN s : s[i] \in K}
           T == {i \in DOMAIN Append(s, x) : Append(s, x)[i] \in K}
<1>1. /\ DOMAIN Append(s, x) = DOMAIN s \cup {Len(s) + 1}
      /\ Len(s) + 1 \notin DOMAIN s
      /\ \A i \in DOMAIN s : Append(s, x)[i] = s[i]
      /\ Append(s, x)[Len(s) + 1] = x
    OBVIOUS
<1>2. IsFiniteSet(S) /\ Cardinality(S) \in Nat
    BY HowManyType DEF HowMany
<1>3. CASE x \in K
    <2>1. T = S \cup {Len(s) + 1} /\ Len(s) + 1 \notin S
        BY <1>1, <1>3
    <2>2. Cardinality(S \cup {Len(s) + 1}) = Cardinality(S) + 1
        BY <1>2, <2>1, FS_AddElement
    <2> QED
        BY <1>3, <2>1, <2>2 DEF HowMany
<1>4. CASE x \notin K
    <2>1. T = S
        BY <1>1, <1>4
    <2> HIDE DEF S, T
    <2>2. HowMany(s, K) = Cardinality(S) /\ HowMany(Append(s, x), K) = Cardinality(T)
        BY DEF HowMany, S, T
    <2> QED
        BY <1>2, <1>4, <2>1, <2>2
<1> QED
    BY <1>3, <1>4

\* Removing an item takes away one of its kind.
LEMMA HowManyRemoveAt ==
    ASSUME NEW X, NEW s \in Seq(X), NEW i \in 1 .. Len(s), NEW K
    PROVE  HowMany(RemoveAt(s, i), K) = HowMany(s, K) - (IF s[i] \in K THEN 1 ELSE 0)
<1> DEFINE r == RemoveAt(s, i)
           S == {j \in DOMAIN s : s[j] \in K}
           T == {j \in DOMAIN r : r[j] \in K}
           f == [j \in T |-> IF j < i THEN j ELSE j + 1]
<1>1. /\ DOMAIN r = 1 .. Len(s) - 1
      /\ DOMAIN s = 1 .. Len(s)
      /\ Len(s) \in Nat
      /\ \A j \in 1 .. Len(s) - 1 : r[j] = IF j < i THEN s[j] ELSE s[j + 1]
      /\ r \in Seq(X)
    BY RemoveAtDrops
<1> HIDE DEF r
<1>2. /\ IsFiniteSet(S) /\ Cardinality(S) \in Nat
      /\ IsFiniteSet(T) /\ Cardinality(T) \in Nat
    BY <1>1, HowManyType DEF HowMany
<1>3. \A j \in T : /\ j \in 1 .. Len(s) - 1
                   /\ (IF j < i THEN j ELSE j + 1) \in S \ {i}
    <2> TAKE j \in T
    <2>1. j \in 1 .. Len(s) - 1 /\ r[j] \in K
        BY <1>1
    <2>2. CASE j < i
        BY <1>1, <2>1, <2>2
    <2>3. CASE ~(j < i)
        <3>1. j + 1 \in 1 .. Len(s) /\ j + 1 # i /\ s[j + 1] \in K
            BY <1>1, <2>1, <2>3
        <3> QED
            BY <1>1, <2>1, <2>3, <3>1
    <2> QED
        BY <2>2, <2>3
<1>4. \A k \in S \ {i} : \E j \in T : k = IF j < i THEN j ELSE j + 1
    <2> TAKE k \in S \ {i}
    <2>1. CASE k < i
        <3>1. k \in 1 .. Len(s) - 1 /\ r[k] = s[k]
            BY <1>1, <2>1
        <3> QED
            BY <1>1, <2>1, <3>1
    <2>2. CASE ~(k < i)
        <3>1. k - 1 \in 1 .. Len(s) - 1 /\ ~(k - 1 < i) /\ (k - 1) + 1 = k
            BY <1>1, <2>2
        <3>2. r[k - 1] = s[k]
            BY <1>1, <3>1
        <3>3. k - 1 \in T
            BY <1>1, <3>1, <3>2
        <3> QED
            BY <3>1, <3>3
    <2> QED
        BY <2>1, <2>2
<1>5. \A j, k \in T : (IF j < i THEN j ELSE j + 1) = (IF k < i THEN k ELSE k + 1) => j = k
    BY <1>3
<1>6. f \in Surjection(T, S \ {i}) /\ f \in Injection(T, S \ {i})
    <2> HIDE DEF S, T
    <2> QED
        BY <1>3, <1>4, <1>5 DEF Surjection, Injection, IsInjective
<1>7. Cardinality(S \ {i}) = Cardinality(T)
    <2> HIDE DEF f, S, T
    <2> QED
        BY <1>2, <1>6, FS_Surjection
<1>8. Cardinality(S \ {i}) = IF i \in S THEN Cardinality(S) - 1 ELSE Cardinality(S)
    <2> HIDE DEF S
    <2> QED
        BY <1>2, FS_RemoveElement
<1>9. i \in S <=> s[i] \in K
    BY <1>1
<1>10. HowMany(s, K) = Cardinality(S) /\ HowMany(r, K) = Cardinality(T)
    BY DEF HowMany
<1> HIDE DEF S, T
<1> QED
    BY <1>2, <1>7, <1>8, <1>9, <1>10 DEF r

\* Rewriting one item loses at most one of any kind, and brings in no other item.
LEMMA HowManyExcept ==
    ASSUME NEW X, NEW s \in Seq(X), NEW i \in DOMAIN s, NEW x \in X, NEW K
    PROVE  /\ [s EXCEPT ![i] = x] \in Seq(X)
           /\ ToSet([s EXCEPT ![i] = x]) \subseteq ToSet(s) \cup {x}
           /\ HowMany([s EXCEPT ![i] = x], K) + 1 >= HowMany(s, K)
<1> DEFINE r == [s EXCEPT ![i] = x]
           S == {j \in DOMAIN s : s[j] \in K}
           T == {j \in DOMAIN r : r[j] \in K}
<1>1. /\ r \in Seq(X)
      /\ DOMAIN r = DOMAIN s
      /\ \A j \in DOMAIN s : r[j] = IF j = i THEN x ELSE s[j]
    OBVIOUS
<1> HIDE DEF r
<1>2. ToSet(r) \subseteq ToSet(s) \cup {x}
    BY <1>1 DEF ToSet
<1>3. /\ IsFiniteSet(S) /\ Cardinality(S) \in Nat
      /\ IsFiniteSet(T) /\ Cardinality(T) \in Nat
    BY <1>1, HowManyType DEF HowMany
<1>4. S \ {i} \in SUBSET T
    BY <1>1
<1> HIDE DEF S, T
<1>5. Cardinality(S \ {i}) >= Cardinality(S) - 1
    <2>1. Cardinality(S \ {i}) = IF i \in S THEN Cardinality(S) - 1 ELSE Cardinality(S)
        BY <1>3, FS_RemoveElement
    <2> QED
        BY <1>3, <2>1
<1>6. Cardinality(S \ {i}) <= Cardinality(T) /\ Cardinality(S \ {i}) \in Nat
    <2>1. IsFiniteSet(S \ {i})
        BY <1>3, FS_RemoveElement
    <2> QED
        BY <1>3, <1>4, <2>1, FS_Subset, FS_CardinalityType
<1>7. HowMany(s, K) = Cardinality(S) /\ HowMany(r, K) = Cardinality(T)
    BY DEF HowMany, S, T
<1>8. HowMany(r, K) + 1 >= HowMany(s, K)
    BY <1>3, <1>5, <1>6, <1>7
<1> QED
    BY <1>1, <1>2, <1>8 DEF r

\* The items of two sequences joined.
LEMMA JoinedItems ==
    ASSUME NEW X, NEW s \in Seq(X), NEW t \in Seq(X)
    PROVE  /\ s \o t \in Seq(X)
           /\ Len(s \o t) = Len(s) + Len(t)
           /\ \A i \in DOMAIN (s \o t) :
                  (s \o t)[i] = IF i <= Len(s) THEN s[i] ELSE t[i - Len(s)]
    OBVIOUS

\* Joining two sequences adds up how often they have an item.
LEMMA HowManyConcat ==
    ASSUME NEW X, NEW s \in Seq(X), NEW t \in Seq(X), NEW K
    PROVE  HowMany(s \o t, K) = HowMany(s, K) + HowMany(t, K)
<1> DEFINE r == s \o t
           A == {j \in DOMAIN s : s[j] \in K}
           S == {j \in DOMAIN t : t[j] \in K}
           T == {j \in DOMAIN r : r[j] \in K}
           U == {j \in T : j > Len(s)}
           f == [j \in S |-> Len(s) + j]
<1>1. /\ r \in Seq(X)
      /\ Len(s) \in Nat
      /\ DOMAIN s = 1 .. Len(s)
      /\ DOMAIN r \subseteq Nat
      /\ \A j \in DOMAIN s : j \in DOMAIN r /\ r[j] = s[j]
      /\ \A j \in DOMAIN r : j <= Len(s) => j \in DOMAIN s
      /\ \A j \in DOMAIN r : j > Len(s) => j - Len(s) \in DOMAIN t
      /\ \A j \in DOMAIN t : /\ Len(s) + j \in DOMAIN r
                              /\ r[Len(s) + j] = t[j]
                              /\ j \in Nat /\ j > 0
    OBVIOUS
<1> HIDE DEF r
<1>2. IsFiniteSet(A) /\ IsFiniteSet(S) /\ IsFiniteSet(T)
    BY <1>1, HowManyType
<1>3. f \in Bijection(S, U)
    <2>1. \A j \in S : Len(s) + j \in U
        BY <1>1
    <2>2. \A j, k \in S : Len(s) + j = Len(s) + k => j = k
        BY <1>1
    <2>3. \A k \in U : k - Len(s) \in S /\ Len(s) + (k - Len(s)) = k
        <3> TAKE k \in U
        <3>1. k \in DOMAIN r /\ k > Len(s) /\ k \in Nat /\ r[k] \in K
            BY <1>1
        <3>2. k - Len(s) \in DOMAIN t /\ Len(s) + (k - Len(s)) = k
            BY <1>1, <3>1
        <3> QED
            BY <1>1, <3>1, <3>2
    <2> HIDE DEF S, U
    <2> QED
        BY <2>1, <2>2, <2>3 DEF Bijection, Injection, Surjection, IsInjective
<1>4. IsFiniteSet(U) /\ Cardinality(U) = Cardinality(S)
    <2> HIDE DEF f, S, U
    <2> QED
        BY <1>2, <1>3, FS_Bijection DEF ExistsBijection
<1>5. T = A \cup U /\ A \cap U = {}
    BY <1>1
<1>6. Cardinality(T) = Cardinality(A) + Cardinality(U)
    <2>1. Cardinality(A \cap U) = 0 /\ Cardinality(A) \in Nat /\ Cardinality(U) \in Nat
        BY <1>2, <1>4, <1>5, FS_EmptySet, FS_CardinalityType
    <2> HIDE DEF A, U, T
    <2>2. Cardinality(A \cup U) = Cardinality(A) + Cardinality(U) - Cardinality(A \cap U)
        BY <1>2, <1>4, FS_Union
    <2> QED
        BY <1>5, <2>1, <2>2
<1> QED
    BY <1>4, <1>6 DEF HowMany, r

\* How many of the items after the n-th are in K.
HowManyAfter(s, n, K) == Cardinality({i \in DOMAIN s : i > n /\ s[i] \in K})

\* The items after the n-th are one fewer with every step.
LEMMA HowManyAfterSteps ==
    ASSUME NEW X, NEW s \in Seq(X), NEW K
    PROVE  /\ HowManyAfter(s, 0, K) = HowMany(s, K)
           /\ HowManyAfter(s, Len(s), K) = 0
           /\ \A n \in 0 .. Len(s) : HowManyAfter(s, n, K) \in Nat
           /\ \A n \in 1 .. Len(s) :
                  HowManyAfter(s, n - 1, K)
                      = HowManyAfter(s, n, K) + (IF s[n] \in K THEN 1 ELSE 0)
<1> DEFINE A(n) == {i \in DOMAIN s : i > n /\ s[i] \in K}
<1>1. Len(s) \in Nat /\ DOMAIN s = 1 .. Len(s)
    OBVIOUS
<1>2. \A n : IsFiniteSet(A(n)) /\ Cardinality(A(n)) \in Nat
    <2>1. IsFiniteSet(1 .. Len(s)) /\ \A n : A(n) \in SUBSET (1 .. Len(s))
        BY <1>1, FS_Interval
    <2> HIDE DEF A
    <2> QED
        BY <2>1, FS_Subset, FS_CardinalityType
<1>3. A(0) = {i \in DOMAIN s : s[i] \in K} /\ A(Len(s)) = {}
    BY <1>1
<1>4. ASSUME NEW n \in 1 .. Len(s)
      PROVE  Cardinality(A(n - 1)) = Cardinality(A(n)) + (IF s[n] \in K THEN 1 ELSE 0)
    <2>1. CASE s[n] \in K
        <3>1. A(n - 1) = A(n) \cup {n} /\ n \notin A(n)
            BY <1>1, <2>1
        <3>2. Cardinality(A(n) \cup {n}) = Cardinality(A(n)) + 1
            <4> HIDE DEF A
            <4> QED
                BY <1>2, <3>1, FS_AddElement
        <3> HIDE DEF A
        <3> QED
            BY <2>1, <3>1, <3>2
    <2>2. CASE s[n] \notin K
        <3>1. A(n - 1) = A(n)
            BY <1>1, <2>2
        <3> HIDE DEF A
        <3> QED
            BY <1>2, <2>2, <3>1
    <2> QED
        BY <2>1, <2>2
<1>5. Cardinality({}) = 0
    BY FS_EmptySet
<1>6. \A n : HowManyAfter(s, n, K) = Cardinality(A(n))
    BY DEF HowManyAfter
<1>7. HowMany(s, K) = Cardinality(A(0))
    BY <1>3 DEF HowMany
<1>8. Cardinality(A(Len(s))) = 0
    BY <1>3, <1>5
<1> HIDE DEF A
<1> QED
    BY <1>2, <1>4, <1>6, <1>7, <1>8

\* Two runs that start alike and take the same steps end alike.
LEMMA RunsAgree ==
    ASSUME NEW n \in Nat, NEW g, NEW h, g[0] = h[0],
           \A i \in 1 .. n : g[i - 1] = h[i - 1] => g[i] = h[i]
    PROVE  g[n] = h[n]
<1> DEFINE good == {i \in 0 .. n : g[i] = h[i]}
<1>1. 0 \in good /\ \A i \in 1 .. n : i - 1 \in good => i \in good
    OBVIOUS
<1>2. n \in good
    <2> HIDE DEF good
    <2> QED
        BY <1>1, StepsUp
<1> QED
    BY <1>2

-----------------------------------------------------------------------------
(* Sums and sorted sets.                                                    *)

\* The sum of w over the subsets of D, one chosen element after the other.
SumsUp(f, D, w) ==
    /\ f \in [SUBSET D -> Int]
    /\ \A s \in SUBSET D :
          f[s] = IF s = {} THEN 0 ELSE w[CHOOSE x \in s : TRUE] + f[s \ {CHOOSE x \in s : TRUE}]

\* The sum of a function over a finite set follows the recursion of its definition.
LEMMA SumRecursion ==
    ASSUME NEW D, IsFiniteSet(D), NEW w \in [D -> Int]
    PROVE  \E f : SumsUp(f, D, w) /\ SumFunction(w) = f[D]
<1> DEFINE pick(s) == CHOOSE x \in s : TRUE
           Step(f, s) == IF s = {} THEN 0 ELSE w[pick(s)] + f[s \ {pick(s)}]
           Good == {n \in Nat : \E f \in [SUBSET D -> Int] :
                       \A s \in SUBSET D : Cardinality(s) <= n => f[s] = Step(f, s)}
           Solves(f) == f = [s \in SUBSET D |-> Step(f, s)]
           C == CHOOSE f : Solves(f)
<1>1. \A s \in SUBSET D : IsFiniteSet(s) /\ Cardinality(s) \in Nat
    BY FS_Subset, FS_CardinalityType
<1>2. \A s \in SUBSET D : s # {} =>
         /\ pick(s) \in s /\ pick(s) \in D /\ s \ {pick(s)} \in SUBSET D
         /\ Cardinality(s \ {pick(s)}) = Cardinality(s) - 1
    <2> TAKE s \in SUBSET D
    <2> HAVE s # {}
    <2>1. pick(s) \in s
        OBVIOUS
    <2> HIDE DEF pick
    <2> QED
        BY <1>1, <2>1, FS_RemoveElement
<1>3. \A s \in SUBSET D : Cardinality(s) = 0 <=> s = {}
    BY <1>1, FS_EmptySet
<1> HIDE DEF pick
<1>4. 0 \in Good
    <2> DEFINE g == [s \in SUBSET D |-> 0]
    <2>1. \A s \in SUBSET D : Cardinality(s) <= 0 => s = {}
        BY <1>1, <1>3
    <2>2. \A s \in SUBSET D : Cardinality(s) <= 0 => g[s] = Step(g, s)
        BY <2>1
    <2>3. g \in [SUBSET D -> Int]
        OBVIOUS
    <2> HIDE DEF g, Step
    <2> QED
        BY <2>2, <2>3
<1>5. \A n \in Good : n + 1 \in Good
    <2> SUFFICES ASSUME NEW n \in Good PROVE n + 1 \in Good
        OBVIOUS
    <2>0. n \in Nat /\ \E f \in [SUBSET D -> Int] :
                          \A s \in SUBSET D : Cardinality(s) <= n => f[s] = Step(f, s)
        <3> HIDE DEF Step
        <3> QED
            OBVIOUS
    <2> PICK f \in [SUBSET D -> Int] :
            \A s \in SUBSET D : Cardinality(s) <= n => f[s] = Step(f, s)
        BY <2>0
    <2> DEFINE g == [s \in SUBSET D |-> IF Cardinality(s) <= n THEN f[s] ELSE Step(f, s)]
    <2>1. \A s \in SUBSET D : Step(f, s) \in Int
        <3> TAKE s \in SUBSET D
        <3>1. CASE s = {}
            BY <3>1
        <3>2. CASE s # {}
            <4>1. w[pick(s)] \in Int /\ f[s \ {pick(s)}] \in Int
                BY <1>2, <3>2
            <4> QED
                BY <3>2, <4>1
        <3> QED
            BY <3>1, <3>2
    <2>2. g \in [SUBSET D -> Int]
        <3> HIDE DEF Step
        <3> QED
            BY <2>1
    <2>3. \A s \in SUBSET D : g[s] = Step(f, s) \/ Cardinality(s) > n + 1
        OBVIOUS
    <2>4. \A s \in SUBSET D : Cardinality(s) <= n => g[s] = f[s]
        OBVIOUS
    <2>5. \A s \in SUBSET D : Cardinality(s) <= n + 1 => g[s] = Step(g, s)
        <3> HIDE DEF g
        <3> TAKE s \in SUBSET D
        <3> HAVE Cardinality(s) <= n + 1
        <3>1. g[s] = Step(f, s)
            BY <1>1, <2>3
        <3>2. CASE s = {}
            BY <3>1, <3>2
        <3>3. CASE s # {}
            <4>1. s \ {pick(s)} \in SUBSET D /\ Cardinality(s \ {pick(s)}) <= n
                BY <1>1, <1>2, <3>3
            <4>2. g[s \ {pick(s)}] = f[s \ {pick(s)}]
                BY <2>4, <4>1
            <4> QED
                BY <3>1, <3>3, <4>2
        <3> QED
            BY <3>2, <3>3
    <2> HIDE DEF g, Step
    <2> QED
        BY <2>0, <2>2, <2>5
<1>6. Good = Nat
    <2> HIDE DEF Good
    <2>1. Good \in SUBSET Nat
        BY DEF Good
    <2> QED
        BY <1>4, <1>5, <2>1, NaturalsBySteps
<1>7. PICK f \in [SUBSET D -> Int] :
          \A s \in SUBSET D : Cardinality(s) <= Cardinality(D) => f[s] = Step(f, s)
    <2>1. Cardinality(D) \in Good
        BY <1>1, <1>6
    <2> HIDE DEF Step
    <2> QED
        BY <2>1
<1>8. \A s \in SUBSET D : f[s] = Step(f, s)
    <2>1. \A s \in SUBSET D : Cardinality(s) <= Cardinality(D)
        BY FS_Subset
    <2> HIDE DEF Step
    <2> QED
        BY <1>7, <2>1
<1>9. Solves(f)
    <2> HIDE DEF Step
    <2> QED
        BY <1>8
<1>10. Solves(C)
    <2> HIDE DEF Solves
    <2> QED
        BY <1>9
<1>11. SumFunction(w) = C[D]
    <2>1. DOMAIN w = D
        OBVIOUS
    <2> QED
        BY <2>1 DEF SumFunction, SumFunctionOnSet, FoldFunctionOnSet, MapThenFoldSet, pick
<1>12. \A s \in SUBSET D : C[s] = Step(C, s)
    <2> HIDE DEF C, Step
    <2> QED
        BY <1>10
<1> HIDE DEF C
<1> DEFINE Typed == {n \in Nat : \A s \in SUBSET D : Cardinality(s) = n => C[s] \in Int}
<1>13. 0 \in Typed
    <2>1. \A s \in SUBSET D : s = {} => C[s] = 0
        BY <1>12
    <2> HIDE DEF Step
    <2> QED
        BY <1>3, <2>1
<1>14. \A n \in Typed : n + 1 \in Typed
    <2> SUFFICES ASSUME NEW n \in Nat, \A s \in SUBSET D : Cardinality(s) = n => C[s] \in Int,
                        NEW s \in SUBSET D, Cardinality(s) = n + 1
                 PROVE  C[s] \in Int
        OBVIOUS
    <2>1. s # {}
        BY <1>3
    <2>2. Cardinality(s \ {pick(s)}) = n /\ s \ {pick(s)} \in SUBSET D /\ w[pick(s)] \in Int
        BY <1>1, <1>2, <2>1
    <2>3. C[s \ {pick(s)}] \in Int
        BY <2>2
    <2>4. C[s] = w[pick(s)] + C[s \ {pick(s)}]
        BY <1>12, <2>1
    <2> QED
        BY <2>2, <2>3, <2>4
<1>15. Typed = Nat
    <2> HIDE DEF Typed
    <2>1. Typed \in SUBSET Nat
        BY DEF Typed
    <2> QED
        BY <1>13, <1>14, <2>1, NaturalsBySteps
<1>16. C \in [SUBSET D -> Int]
    <2>1. \A s \in SUBSET D : C[s] \in Int
        BY <1>1, <1>15
    <2>2. C = [s \in SUBSET D |-> Step(C, s)]
        BY <1>10
    <2> HIDE DEF Step
    <2> QED
        BY <2>1, <2>2
<1> QED
    BY <1>11, <1>12, <1>16 DEF SumsUp, pick

\* A set of subsets of D with the empty one and, beside s without its chosen
\* element, s has all of them.
LEMMA SubsetsBySteps ==
    ASSUME NEW D, IsFiniteSet(D), NEW P, {} \in P,
           \A s \in SUBSET D : s # {} /\ s \ {CHOOSE x \in s : TRUE} \in P => s \in P
    PROVE  \A s \in SUBSET D : s \in P
<1> DEFINE pick(s) == CHOOSE x \in s : TRUE
           Good == {n \in Nat : \A s \in SUBSET D : Cardinality(s) = n => s \in P}
<1>1. \A s \in SUBSET D : IsFiniteSet(s) /\ Cardinality(s) \in Nat
    BY FS_Subset, FS_CardinalityType
<1>2. \A s \in SUBSET D : s # {} => pick(s) \in s
    OBVIOUS
<1>3. \A s \in SUBSET D : s # {} /\ s \ {pick(s)} \in P => s \in P
    OBVIOUS
<1> HIDE DEF pick
<1>4. 0 \in Good
    BY <1>1, FS_EmptySet
<1>5. \A n \in Good : n + 1 \in Good
    <2> SUFFICES ASSUME NEW n \in Nat, \A s \in SUBSET D : Cardinality(s) = n => s \in P,
                        NEW s \in SUBSET D, Cardinality(s) = n + 1
                 PROVE  s \in P
        OBVIOUS
    <2>1. s # {}
        BY FS_EmptySet
    <2>2. IsFiniteSet(s) /\ pick(s) \in s
        BY <1>1, <1>2, <2>1
    <2>3. Cardinality(s \ {pick(s)}) = Cardinality(s) - 1
        BY <2>2, FS_RemoveElement
    <2>4. s \ {pick(s)} \in SUBSET D /\ Cardinality(s \ {pick(s)}) = n
        BY <2>3
    <2> QED
        BY <1>3, <2>1, <2>4
<1>6. Good = Nat
    <2> HIDE DEF Good
    <2>1. Good \in SUBSET Nat
        BY DEF Good
    <2> QED
        BY <1>4, <1>5, <2>1, NaturalsBySteps
<1> QED
    BY <1>1, <1>6

\* A sum of integers is one.
LEMMA SumType ==
    ASSUME NEW D, IsFiniteSet(D), NEW w \in [D -> Int]
    PROVE  SumFunction(w) \in Int
<1>1. PICK f : SumsUp(f, D, w) /\ SumFunction(w) = f[D]
    BY SumRecursion
<1> QED
    BY <1>1 DEF SumsUp

\* A sum of weights that are at most c is at most c for each that is positive.
LEMMA SumBounded ==
    ASSUME NEW D, IsFiniteSet(D), NEW w \in [D -> Int], NEW c \in Nat, \A x \in D : w[x] <= c
    PROVE  SumFunction(w) <= c * Cardinality({x \in D : w[x] > 0})
<1> DEFINE votes(s) == {x \in s : w[x] > 0}
           pick(s) == CHOOSE x \in s : TRUE
<1>1. PICK f : SumsUp(f, D, w) /\ SumFunction(w) = f[D]
    BY SumRecursion
<1> DEFINE P == {s \in SUBSET D : f[s] <= c * Cardinality(votes(s))}
<1>2. {} \in P
    <2>1. f[{}] = 0
        BY <1>1 DEF SumsUp
    <2>2. votes({}) = {} /\ c * 0 = 0
        OBVIOUS
    <2> QED
        BY <2>1, <2>2, FS_EmptySet
<1>3. \A s \in SUBSET D : s # {} /\ s \ {pick(s)} \in P => s \in P
    <2> SUFFICES ASSUME NEW s \in SUBSET D, s # {}, s \ {pick(s)} \in P PROVE s \in P
        OBVIOUS
    <2>1. pick(s) \in s
        OBVIOUS
    <2>2. f[s] = w[pick(s)] + f[s \ {pick(s)}] /\ f[s \ {pick(s)}] \in Int
        BY <1>1 DEF SumsUp
    <2> DEFINE x == pick(s)
               r == s \ {x}
    <2>3. f[r] <= c * Cardinality(votes(r))
        OBVIOUS
    <2>4. x \in s /\ x \in D /\ w[x] \in Int /\ w[x] <= c
        BY <2>1
    <2>5. f[s] = w[x] + f[r] /\ f[r] \in Int
        BY <2>2
    <2> HIDE DEF x
    <2>6. IsFiniteSet(votes(r)) /\ Cardinality(votes(r)) \in Nat
        BY FS_Subset, FS_CardinalityType
    <2>7. CASE w[x] > 0
        <3>1. votes(s) = votes(r) \cup {x} /\ x \notin votes(r)
            BY <2>4, <2>7
        <3>2. Cardinality(votes(s)) = Cardinality(votes(r)) + 1
            BY <2>6, <3>1, FS_AddElement
        <3>3. c * (Cardinality(votes(r)) + 1) = c * Cardinality(votes(r)) + c
            BY <2>6
        <3>4. c * Cardinality(votes(r)) \in Int
            BY <2>6
        <3> HIDE DEF votes, r
        <3>5. f[s] <= c * Cardinality(votes(s))
            BY <2>3, <2>4, <2>5, <3>2, <3>3, <3>4
        <3> QED
            BY <3>5 DEF votes
    <2>8. CASE ~(w[x] > 0)
        <3>1. votes(s) = votes(r)
            BY <2>4, <2>8
        <3>4. c * Cardinality(votes(r)) \in Int
            BY <2>6
        <3> HIDE DEF votes, r
        <3>5. f[s] <= c * Cardinality(votes(s))
            BY <2>3, <2>4, <2>5, <2>8, <3>1, <3>4
        <3> QED
            BY <3>5 DEF votes
    <2> QED
        BY <2>7, <2>8
<1>4. D \in P
    <2> HIDE DEF P
    <2> QED
        BY <1>2, <1>3, SubsetsBySteps
<1> QED
    BY <1>1, <1>4

\* before is an order of the elements of S, in which any two of them are apart.
Orders(before, S) ==
    /\ \A x \in S : <<x, x>> \notin before
    /\ \A x, y, z \in S : <<x, y>> \in before /\ <<y, z>> \in before => <<x, z>> \in before
    /\ \A x, y \in S : x = y \/ <<x, y>> \in before \/ <<y, x>> \in before

\* A sorted set: each of its elements once, in their order.
LEMMA SortedByOrder ==
    ASSUME NEW S, IsFiniteSet(S), NEW before, Orders(before, S)
    PROVE  /\ SortedBy(S, before) \in Seq(S)
           /\ Len(SortedBy(S, before)) = Cardinality(S)
           /\ ToSet(SortedBy(S, before)) = S
           /\ \A i, j \in DOMAIN SortedBy(S, before) :
                 i < j => <<SortedBy(S, before)[i], SortedBy(S, before)[j]>> \in before
<1> DEFINE Before(x) == {y \in S : <<y, x>> \in before}
           rank == [x \in S |-> Cardinality(Before(x))]
           n == Cardinality(S)
           o == SortedBy(S, before)
<1>1. n \in Nat
    BY FS_CardinalityType
<1>2. \A x \in S : IsFiniteSet(Before(x)) /\ rank[x] \in Nat
    BY FS_Subset, FS_CardinalityType
<1>3. \A x \in S : rank[x] < n
    <2> TAKE x \in S
    <2>1. x \notin Before(x) /\ Before(x) \in SUBSET S
        BY DEF Orders
    <2>2. rank[x] <= n /\ (n = rank[x] => S = Before(x))
        <3> HIDE DEF Before
        <3> QED
            BY <2>1, FS_Subset
    <2> HIDE DEF Before
    <2> QED
        BY <1>1, <1>2, <2>1, <2>2
<1>4. \A x, y \in S : <<x, y>> \in before => rank[x] < rank[y]
    <2> SUFFICES ASSUME NEW x \in S, NEW y \in S, <<x, y>> \in before
                 PROVE  rank[x] < rank[y]
        OBVIOUS
    <2>1. Before(x) \in SUBSET Before(y)
        BY DEF Orders
    <2>2. x \in Before(y) /\ x \notin Before(x)
        BY DEF Orders
    <2> HIDE DEF Before
    <2>3. rank[x] <= rank[y] /\ (rank[y] = rank[x] => Before(y) = Before(x))
        BY <1>2, <2>1, FS_Subset
    <2> QED
        BY <1>2, <2>2, <2>3
<1>0. rank \in [S -> Nat]
    BY <1>2
<1> HIDE DEF rank, Before, n
<1>5. \A x, y \in S : rank[x] = rank[y] => x = y
    <2> SUFFICES ASSUME NEW x \in S, NEW y \in S, rank[x] = rank[y], x # y PROVE FALSE
        OBVIOUS
    <2>1. rank[x] \in Nat /\ rank[y] \in Nat
        BY <1>0
    <2>2. <<x, y>> \in before \/ <<y, x>> \in before
        BY DEF Orders
    <2> QED
        BY <1>4, <2>1, <2>2
<1>6. \A k \in 1 .. n : \E x \in S : rank[x] = k - 1
    <2> DEFINE g == [x \in S |-> rank[x] + 1]
    <2>1. \A x \in S : rank[x] + 1 \in 1 .. n
        BY <1>1, <1>0, <1>3
    <2>2. g \in [S -> 1 .. n]
        BY <2>1
    <2>3. \A x, y \in S : g[x] = g[y] => x = y
        BY <1>0, <1>5
    <2>4. g \in Injection(S, 1 .. n)
        <3> HIDE DEF g
        <3> QED
            BY <2>2, <2>3 DEF Injection, IsInjective
    <2>5. IsFiniteSet(1 .. n) /\ Cardinality(1 .. n) = n
        BY <1>1, FS_Interval
    <2>6. g \in Surjection(S, 1 .. n)
        <3> HIDE DEF g
        <3> QED
            BY <2>4, <2>5, FS_Injection DEF n
    <2>7. \A k \in 1 .. n : \E x \in S : g[x] = k
        <3> HIDE DEF g
        <3> QED
            BY <2>6 DEF Surjection
    <2> TAKE k \in 1 .. n
    <2>8. PICK x \in S : g[x] = k
        BY <2>7
    <2>9. g[x] = rank[x] + 1 /\ rank[x] \in Nat
        BY <1>0
    <2> HIDE DEF g
    <2> QED
        BY <1>1, <2>8, <2>9
<1>7. DOMAIN o = 1 .. n /\ \A k \in 1 .. n : o[k] = CHOOSE x \in S : rank[x] = k - 1
    BY DEF SortedBy, rank, Before, n
<1> HIDE DEF o
<1>8. \A k \in 1 .. n : o[k] \in S /\ rank[o[k]] = k - 1
    BY <1>6, <1>7
<1>9. o = [k \in 1 .. n |-> o[k]]
    <2> DEFINE e(k) == CHOOSE x \in S : Cardinality({y \in S : <<y, x>> \in before}) = k - 1
    <2>1. o = [k \in 1 .. n |-> e(k)]
        BY DEF o, SortedBy, n
    <2> HIDE DEF e
    <2> QED
        BY <2>1
<1>10. o \in Seq(S) /\ Len(o) = n
    BY <1>1, <1>8, <1>9
<1>11. ToSet(o) = S
    <2>1. \A x \in S : x \in ToSet(o)
        <3> TAKE x \in S
        <3>1. rank[x] + 1 \in 1 .. n /\ rank[x] = (rank[x] + 1) - 1
            BY <1>1, <1>0, <1>3
        <3>2. o[rank[x] + 1] = x
            BY <1>5, <1>8, <3>1
        <3> QED
            BY <1>7, <3>1, <3>2 DEF ToSet
    <2> QED
        BY <1>7, <1>8, <2>1 DEF ToSet
<1>12. \A i, j \in DOMAIN o : i < j => <<o[i], o[j]>> \in before
    <2> SUFFICES ASSUME NEW i \in 1 .. n, NEW j \in 1 .. n, i < j
                 PROVE  <<o[i], o[j]>> \in before
        BY <1>7
    <2>1. rank[o[i]] < rank[o[j]]
        BY <1>1, <1>8
    <2>2. o[i] # o[j] /\ ~(<<o[j], o[i]>> \in before)
        BY <1>0, <1>4, <1>8, <2>1
    <2> QED
        BY <1>8, <2>2 DEF Orders
<1> QED
    BY <1>10, <1>11, <1>12 DEF o, n

\* The sum over s is that of x and the rest.
SumApart(f, w, s, x) == f[s] = w[x] + f[s \ {x}]

\* A sum can be taken apart at any element.
LEMMA SumRemove ==
    ASSUME NEW D, IsFiniteSet(D), NEW w \in [D -> Int], NEW f, SumsUp(f, D, w)
    PROVE  \A s \in SUBSET D : \A x \in s : SumApart(f, w, s, x)
<1> DEFINE pick(s) == CHOOSE x \in s : TRUE
           Good == {n \in Nat : \A s \in SUBSET D : Cardinality(s) = n =>
                                   \A x \in s : f[s] = w[x] + f[s \ {x}]}
<1>1. \A s \in SUBSET D : IsFiniteSet(s) /\ Cardinality(s) \in Nat
    BY FS_Subset, FS_CardinalityType
<1>2. \A s \in SUBSET D : s # {} => pick(s) \in s
    OBVIOUS
<1>3. \A s \in SUBSET D : f[s] \in Int /\ (s # {} => f[s] = w[pick(s)] + f[s \ {pick(s)}])
    BY DEF SumsUp
<1> HIDE DEF pick
<1>4. 0 \in Good
    <2>1. \A s \in SUBSET D : Cardinality(s) = 0 => s = {}
        BY <1>1, FS_EmptySet
    <2> QED
        BY <2>1
<1>5. \A n \in Good : n + 1 \in Good
    <2> SUFFICES ASSUME NEW n \in Nat,
                        \A s \in SUBSET D : Cardinality(s) = n => \A x \in s : f[s] = w[x] + f[s \ {x}],
                        NEW s \in SUBSET D, Cardinality(s) = n + 1, NEW x \in s
                 PROVE  f[s] = w[x] + f[s \ {x}]
        OBVIOUS
    <2> DEFINE p == pick(s)
               A == s \ {p}
               B == s \ {x}
    <2>1. p \in s /\ IsFiniteSet(s) /\ f[s] = w[p] + f[A]
        BY <1>1, <1>2, <1>3
    <2> HIDE DEF p
    <2>2. CASE x = p
        BY <2>1, <2>2
    <2>3. CASE x # p
        <3>1. Cardinality(A) = Cardinality(s) - 1 /\ Cardinality(B) = Cardinality(s) - 1
            BY <2>1, FS_RemoveElement
        <3>2. Cardinality(A) = n /\ Cardinality(B) = n /\ A \in SUBSET D /\ B \in SUBSET D
            BY <3>1
        <3>3. x \in A /\ p \in B
            BY <2>1, <2>3
        <3>4. f[A] = w[x] + f[A \ {x}] /\ f[B] = w[p] + f[B \ {p}]
            BY <3>2, <3>3
        <3>5. A \ {x} = B \ {p} /\ A \ {x} \in SUBSET D
            OBVIOUS
        <3>6. w[x] \in Int /\ w[p] \in Int /\ f[A \ {x}] \in Int
            BY <1>3, <2>1, <3>5
        <3>8. f[B] = w[p] + f[A \ {x}]
            BY <3>4, <3>5
        <3> DEFINE rest == f[A \ {x}]
        <3>9. f[s] = w[p] + (w[x] + rest) /\ f[B] = w[p] + rest /\ rest \in Int
            BY <2>1, <3>4, <3>6, <3>8
        <3> HIDE DEF A, B, rest
        <3>7. f[s] = w[x] + f[B]
            BY <3>6, <3>9
        <3> QED
            BY <3>7 DEF B
    <2> QED
        BY <2>2, <2>3
<1>6. Good = Nat
    <2> HIDE DEF Good
    <2>1. Good \in SUBSET Nat
        BY DEF Good
    <2> QED
        BY <1>4, <1>5, <2>1, NaturalsBySteps
<1> QED
    BY <1>1, <1>6 DEF SumApart

\* The sum of lower weights, of some of the elements only, is lower.
LEMMA SumOfPart ==
    ASSUME NEW E, IsFiniteSet(E), NEW D \in SUBSET E,
           NEW w \in [D -> Int], NEW v \in [E -> Int],
           \A x \in D : w[x] <= v[x], \A x \in E : v[x] >= 0
    PROVE  SumFunction(w) <= SumFunction(v)
<1> DEFINE pick(s) == CHOOSE x \in s : TRUE
<1>1. IsFiniteSet(D)
    BY FS_Subset
<1>2. PICK f : SumsUp(f, D, w) /\ SumFunction(w) = f[D]
    BY <1>1, SumRecursion
<1>3. PICK g : SumsUp(g, E, v) /\ SumFunction(v) = g[E]
    BY SumRecursion
<1>4. \A s \in SUBSET D : f[s] \in Int /\ f[s] = IF s = {} THEN 0 ELSE w[pick(s)] + f[s \ {pick(s)}]
    BY <1>2 DEF SumsUp
<1>5. \A s \in SUBSET E : g[s] \in Int /\ g[s] = IF s = {} THEN 0 ELSE v[pick(s)] + g[s \ {pick(s)}]
    BY <1>3 DEF SumsUp
<1>6. \A s \in SUBSET E : \A x \in s : g[s] = v[x] + g[s \ {x}]
    <2>1. SumsUp(g, E, v)
        BY <1>3
    <2>2. \A s \in SUBSET E : \A x \in s : SumApart(g, v, s, x)
        BY <2>1, SumRemove
    <2> QED
        BY <2>2 DEF SumApart
<1>7. \A s \in SUBSET E : s # {} => pick(s) \in s
    OBVIOUS
<1> DEFINE P == {s \in SUBSET D : f[s] <= g[s]}
           Q == {s \in SUBSET E : g[s \cap D] <= g[s]}
<1>8. {} \in P
    <2>1. f[{}] = 0 /\ g[{}] = 0
        BY <1>4, <1>5
    <2> QED
        BY <2>1
<1>9. \A s \in SUBSET D : s # {} /\ s \ {pick(s)} \in P => s \in P
    <2> SUFFICES ASSUME NEW s \in SUBSET D, s # {}, s \ {pick(s)} \in P PROVE s \in P
        OBVIOUS
    <2> DEFINE p == pick(s)
               r == s \ {p}
    <2>1. p \in s /\ r \in SUBSET D /\ r \in SUBSET E /\ s \in SUBSET E /\ p \in D /\ p \in E
        BY <1>7
    <2>2. f[s] = w[p] + f[r] /\ g[s] = v[p] + g[r] /\ f[r] <= g[r]
        BY <1>4, <1>5, <2>1
    <2>3. w[p] \in Int /\ v[p] \in Int /\ w[p] <= v[p] /\ f[r] \in Int /\ g[r] \in Int
        BY <1>4, <1>5, <2>1
    <2> HIDE DEF p, r
    <2> QED
        BY <2>2, <2>3
<1>10. D \in P
    <2> HIDE DEF P
    <2> QED
        BY <1>1, <1>8, <1>9, SubsetsBySteps
<1>11. {} \in Q
    <2>1. g[{}] = 0 /\ {} \cap D = {}
        BY <1>5
    <2> QED
        BY <2>1
<1>12. \A s \in SUBSET E : s # {} /\ s \ {pick(s)} \in Q => s \in Q
    <2> SUFFICES ASSUME NEW s \in SUBSET E, s # {}, s \ {pick(s)} \in Q PROVE s \in Q
        OBVIOUS
    <2> DEFINE p == pick(s)
               r == s \ {p}
    <2>1. p \in s /\ r \in SUBSET E /\ p \in E /\ s \cap D \in SUBSET E /\ r \cap D \in SUBSET E
        BY <1>7
    <2>2. g[s] = v[p] + g[r] /\ g[r \cap D] <= g[r]
        BY <1>6, <2>1
    <2>3. v[p] \in Int /\ v[p] >= 0 /\ g[r] \in Int /\ g[r \cap D] \in Int
        BY <1>5, <2>1
    <2> HIDE DEF p
    <2>4. CASE p \in D
        <3>1. p \in s \cap D /\ (s \cap D) \ {p} = r \cap D
            BY <2>1, <2>4
        <3>2. g[s \cap D] = v[p] + g[r \cap D]
            BY <1>6, <2>1, <3>1
        <3> HIDE DEF r
        <3> QED
            BY <2>2, <2>3, <3>2
    <2>5. CASE p \notin D
        <3>1. s \cap D = r \cap D
            BY <2>5
        <3>2. g[s \cap D] <= g[r]
            BY <2>2, <3>1
        <3> HIDE DEF r
        <3>3. g[s \cap D] <= g[s]
            BY <2>2, <2>3, <3>1, <3>2
        <3> QED
            BY <3>3
    <2> QED
        BY <2>4, <2>5
<1>13. E \in Q
    <2> HIDE DEF Q
    <2> QED
        BY <1>11, <1>12, SubsetsBySteps
<1>14. E \cap D = D
    OBVIOUS
<1>15. f[D] <= g[D] /\ g[D] <= g[E] /\ f[D] \in Int /\ g[D] \in Int /\ g[E] \in Int
    BY <1>4, <1>5, <1>10, <1>13, <1>14
<1> QED
    BY <1>2, <1>3, <1>15

\* The elements of a sequence are finitely many.
LEMMA ToSetFinite ==
    ASSUME NEW X, NEW s \in Seq(X)
    PROVE  IsFiniteSet(ToSet(s))
<1> DEFINE f == [i \in 1 .. Len(s) |-> s[i]]
<1>1. Len(s) \in Nat /\ DOMAIN s = 1 .. Len(s)
    OBVIOUS
<1>2. IsFiniteSet(1 .. Len(s))
    BY <1>1, FS_Interval
<1>3. f \in Surjection(1 .. Len(s), ToSet(s))
    BY <1>1 DEF Surjection, ToSet
<1> QED
    BY <1>2, <1>3, FS_Surjection

\* So are the values a function has on a finite set.
LEMMA ImageFinite ==
    ASSUME NEW I, IsFiniteSet(I), NEW f
    PROVE  IsFiniteSet({f[i] : i \in I})
<1> DEFINE g == [i \in I |-> f[i]]
           T == {f[i] : i \in I}
<1>1. g \in Surjection(I, T)
    BY DEF Surjection
<1> HIDE DEF g, T
<1>2. IsFiniteSet(T)
    BY <1>1, FS_Surjection
<1> QED
    BY <1>2 DEF T

\* A selection starts with the first of the items selected.
LEMMA ItemsAtFirst ==
    ASSUME NEW X, NEW s \in Seq(X), NEW I, NEW m \in DOMAIN s \cap I,
           \A i \in DOMAIN s \cap I : m <= i
    PROVE  ItemsAt(s, I) # << >> /\ ItemsAt(s, I)[1] = s[m]
<1> DEFINE n == Len(s)
<1>1. n \in Nat /\ DOMAIN s = 1 .. n /\ m \in 1 .. n /\ \A i \in 1 .. n : s[i] \in X
    OBVIOUS
<1>2. PICK h : SelectingRun(h, s, I) /\ ItemsAt(s, I) = h[n]
    BY ItemsAtRun
<1>3. h[0] = <<>> /\ \A i \in 1 .. n : h[i] = IF i \in I THEN Append(h[i - 1], s[i]) ELSE h[i - 1]
    BY <1>2 DEF SelectingRun
<1> HIDE DEF n
<1> DEFINE good == {i \in 0 .. n : /\ i < m => h[i] = << >>
                                   /\ i >= m => h[i] \in Seq(X) /\ h[i] # << >> /\ h[i][1] = s[m]}
<1>4. 0 \in good
    BY <1>1, <1>3
<1>5. \A i \in 1 .. n : i - 1 \in good => i \in good
    <2> SUFFICES ASSUME NEW i \in 1 .. n, i - 1 \in good PROVE i \in good
        OBVIOUS
    <2>4. /\ i - 1 < m => h[i - 1] = << >>
          /\ i - 1 >= m => h[i - 1] \in Seq(X) /\ h[i - 1] # << >> /\ h[i - 1][1] = s[m]
        OBVIOUS
    <2>5. i \in 0 .. n /\ h[i] = IF i \in I THEN Append(h[i - 1], s[i]) ELSE h[i - 1]
        BY <1>1, <1>3
    <2>1. CASE i < m
        <3>1. i \notin I /\ i - 1 < m
            BY <1>1, <2>1
        <3> QED
            BY <1>1, <2>1, <2>4, <2>5, <3>1
    <2>2. CASE i = m
        <3>1. h[i - 1] = << >> /\ h[i] = Append(h[i - 1], s[m])
            BY <1>1, <2>2, <2>4, <2>5
        <3>2. h[i] = <<s[m]>> /\ s[m] \in X
            BY <1>1, <3>1
        <3>3. h[i] \in Seq(X) /\ h[i] # << >> /\ h[i][1] = s[m]
            BY <3>2
        <3> QED
            BY <1>1, <2>2, <2>5, <3>3
    <2>3. CASE i > m
        <3>1. i - 1 >= m /\ h[i - 1] \in Seq(X) /\ h[i - 1] # << >> /\ h[i - 1][1] = s[m]
            BY <1>1, <2>3, <2>4
        <3>2. Append(h[i - 1], s[i]) \in Seq(X) /\ Append(h[i - 1], s[i]) # << >>
              /\ Append(h[i - 1], s[i])[1] = s[m]
            BY <1>1, <3>1
        <3>3. h[i] \in Seq(X) /\ h[i] # << >> /\ h[i][1] = s[m]
            BY <2>5, <3>1, <3>2
        <3>4. ~(i < m)
            BY <1>1, <2>3
        <3> QED
            BY <2>5, <3>3, <3>4
    <2> QED
        BY <1>1, <2>1, <2>2, <2>3
<1>6. n \in good
    <2> HIDE DEF good
    <2> QED
        BY <1>1, <1>4, <1>5, StepsUp
<1> QED
    BY <1>1, <1>2, <1>6

\* A product with the same factor keeps the order.
LEMMA TimesKeeps ==
    ASSUME NEW a \in Nat, NEW x \in Int, NEW y \in Int, x <= y
    PROVE  a * x <= a * y /\ x * a <= y * a /\ a * x \in Int /\ a * y \in Int
OBVIOUS

\* Sums keep the order.
LEMMA SumsKeep ==
    ASSUME NEW a \in Int, NEW b \in Int, NEW c \in Int, NEW d \in Int, a <= b, c <= d
    PROVE  a + c \in Int /\ b + d \in Int /\ a + c <= b + d
OBVIOUS
=============================================================================
