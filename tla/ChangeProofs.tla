---------------------------- MODULE ChangeProofs ----------------------------
(***************************************************************************)
(* Facts about changes, for every resume and every sequence of changes:    *)
(* what applying them does to a resume (ResumeDiffs), what reviewing them  *)
(* does to the cursor and the keys (ReviewController), and what the alias  *)
(* file learns from them (AliasIndex).                                     *)
(***************************************************************************)
EXTENDS ReviewController, AliasIndex, LoopProofs

-----------------------------------------------------------------------------
(* Values, and the texts they are made of.                                  *)

\* A value is told by its shape.
LEMMA ValueForms ==
    ASSUME NEW v \in Value
    PROVE  /\ IsText(v) => v.words \in Seq(Word) /\ ~IsList(v)
           /\ IsList(v) => v.items \in Seq(Seq(Word)) /\ ~IsText(v)
           /\ v = Null => ~IsText(v) /\ ~IsList(v)
BY DEF Value, IsText, IsList, Null

LEMMA ValuesMade ==
    /\ \A w \in Seq(Word) : Text(w) \in Value /\ IsText(Text(w)) /\ Text(w).words = w
    /\ \A s \in Seq(Seq(Word)) : List(s) \in Value /\ IsList(List(s)) /\ List(s).items = s
    /\ Null \in Value
    /\ \A w, s : ~IsList(Text(w)) /\ ~IsText(List(s))
BY DEF Value, IsText, IsList, Text, List, Null

TextsOf(v) ==
    IF IsText(v) THEN {v.words} ELSE IF IsList(v) THEN ToSet(v.items) ELSE {}

\* The items that a comparison key selects.
Spelt(key) == {w \in Seq(Word) : Fold(w) = key}

-----------------------------------------------------------------------------
(* The loops of the list actions.                                           *)

\* A first match is a position of the sequence that satisfies the test.
LEMMA FirstMatch ==
    ASSUME NEW X, NEW s \in Seq(X), NEW key
    PROVE  LET i == SelectInSeq(s, LAMBDA w : Fold(w) = key)
           IN  /\ i # 0 => i \in 1 .. Len(s) /\ Fold(s[i]) = key
               /\ i = 0 => \A j \in 1 .. Len(s) : Fold(s[j]) # key
<1> DEFINE I == {j \in 1 .. Len(s) : Fold(s[j]) = key}
<1>1. I \in SUBSET Nat /\ 0 \notin I
    OBVIOUS
<1>2. I # {} => Min(I) \in I
    BY <1>1, MinOfNaturals
<1>3. SelectInSeq(s, LAMBDA w : Fold(w) = key) = IF I # {} THEN Min(I) ELSE 0
    BY DEF SelectInSeq
<1> QED
    BY <1>1, <1>2, <1>3

\* _apply_reorder loses no item of the list, however the request spells, repeats or
\* omits it, and brings in only verified skills, into a skills list.
LEMMA ReorderedKeepsItems ==
    ASSUME NEW actual \in Seq(Seq(Word)), NEW proposed \in Seq(Seq(Word)),
           NEW isSkills, NEW skills
    PROVE  LET out == Reordered(actual, proposed, isSkills, skills)
           IN  /\ out \in Seq(Seq(Word))
               /\ \A w \in ToSet(out) :
                      \/ w \in ToSet(actual)
                      \/ isSkills /\ Fold(w) \in skills /\ w \in ToSet(proposed)
               /\ \A key : HowMany(out, Spelt(key)) >= HowMany(actual, Spelt(key))
<1> DEFINE seq == proposed \o actual
           n == Len(seq)
           known == {Fold(actual[i]) : i \in DOMAIN actual}
           Allowed(w) == isSkills /\ Fold(w) \in skills /\ w \in ToSet(proposed)
           X == [rest : Seq(Seq(Word)), out : Seq(Seq(Word)), added : SUBSET {Fold(w) : w \in Seq(Word)}]
           At(st, item) == SelectInSeq(st.rest, LAMBDA w : Fold(w) = Fold(item))
           Place(st, item) ==
               IF At(st, item) # 0
               THEN [st EXCEPT !.out = Append(@, st.rest[At(st, item)]),
                               !.rest = RemoveAt(@, At(st, item))]
               ELSE IF /\ isSkills
                       /\ item # <<>>
                       /\ Fold(item) \notin known \cup st.added
                       /\ Fold(item) \in skills
               THEN [st EXCEPT !.out = Append(@, item), !.added = @ \cup {Fold(item)}]
               ELSE st
           base == [rest |-> actual, out |-> <<>>, added |-> {}]
           F == [p \in X \X (1 .. n) |-> Place(p[1], seq[p[2]])]
           Folds(f) == f = [S \in SUBSET DOMAIN seq |->
                            IF S = {} THEN base ELSE Place(f[S \ {Max(S)}], seq[Max(S)])]
           C == CHOOSE f : Folds(f)
           h == [i \in 0 .. n |-> C[1 .. i]]
<1>1. /\ seq \in Seq(Seq(Word))
      /\ n \in Nat /\ DOMAIN seq = 1 .. n
      /\ \A i \in 1 .. n : seq[i] \in Seq(Word)
    OBVIOUS
<1>2. \A i \in 1 .. n : seq[i] \in ToSet(proposed) \/ seq[i] \in ToSet(actual)
    BY DEF ToSet
<1> HIDE DEF seq, n
\* One step of the loop.
<1>3. ASSUME NEW st \in X, NEW item \in Seq(Word)
      PROVE  \/ /\ At(st, item) \in 1 .. Len(st.rest)
                /\ Fold(st.rest[At(st, item)]) = Fold(item)
                /\ Place(st, item) = [rest |-> RemoveAt(st.rest, At(st, item)),
                                      out |-> Append(st.out, st.rest[At(st, item)]),
                                      added |-> st.added]
             \/ /\ \A j \in 1 .. Len(st.rest) : Fold(st.rest[j]) # Fold(item)
                /\ isSkills /\ Fold(item) \in skills /\ Fold(item) \notin known
                /\ Place(st, item) = [rest |-> st.rest, out |-> Append(st.out, item),
                                      added |-> st.added \cup {Fold(item)}]
             \/ /\ \A j \in 1 .. Len(st.rest) : Fold(st.rest[j]) # Fold(item)
                /\ Place(st, item) = st
    <2>1. st.rest \in Seq(Seq(Word))
        OBVIOUS
    <2>2. /\ At(st, item) # 0 => At(st, item) \in 1 .. Len(st.rest)
                                 /\ Fold(st.rest[At(st, item)]) = Fold(item)
          /\ At(st, item) = 0 => \A j \in 1 .. Len(st.rest) : Fold(st.rest[j]) # Fold(item)
        BY <2>1, FirstMatch
    <2> HIDE DEF At, known
    <2> QED
        BY <2>2
<1> HIDE DEF Place
<1>4. ASSUME NEW st \in X, NEW item \in Seq(Word)
      PROVE  Place(st, item) \in X
    <2>1. st.rest \in Seq(Seq(Word)) /\ st.out \in Seq(Seq(Word))
        OBVIOUS
    <2>2. Append(st.out, item) \in Seq(Seq(Word))
        BY <2>1
    <2>3. \A i \in 1 .. Len(st.rest) :
            RemoveAt(st.rest, i) \in Seq(Seq(Word)) /\ Append(st.out, st.rest[i]) \in Seq(Seq(Word))
        <3> TAKE i \in 1 .. Len(st.rest)
        <3>1. st.rest[i] \in Seq(Word)
            BY <2>1
        <3>2. Append(st.out, st.rest[i]) \in Seq(Seq(Word))
            BY <2>1, <3>1
        <3>3. RemoveAt(st.rest, i) \in Seq(Seq(Word))
            BY <2>1, RemoveAtDrops
        <3> QED
            BY <3>2, <3>3
    <2>4. st.added \cup {Fold(item)} \in SUBSET {Fold(w) : w \in Seq(Word)}
        OBVIOUS
    <2>5. \A r, o \in Seq(Seq(Word)), a \in SUBSET {Fold(w) : w \in Seq(Word)} :
              [rest |-> r, out |-> o, added |-> a] \in X
        OBVIOUS
    <2>6. st.added \in SUBSET {Fold(w) : w \in Seq(Word)}
        OBVIOUS
    <2> DEFINE at == At(st, item)
    <2>7. at \in 1 .. Len(st.rest) =>
            [rest |-> RemoveAt(st.rest, at), out |-> Append(st.out, st.rest[at]),
             added |-> st.added] \in X
        <3> HIDE DEF at, X
        <3> QED
            BY <2>3, <2>5, <2>6
    <2>8. [rest |-> st.rest, out |-> Append(st.out, item),
           added |-> st.added \cup {Fold(item)}] \in X
        <3> HIDE DEF X
        <3> QED
            BY <2>1, <2>2, <2>4, <2>5
    <2> HIDE DEF At, known, X
    <2> QED
        BY <1>3, <2>7, <2>8
<1>5. base \in X
    OBVIOUS
<1>6. PICK f : RecursesOver(f, n, X, base, F)
    <2>1. F \in [X \X (1 .. n) -> X]
        BY <1>1, <1>4
    <2> HIDE DEF F, X, base
    <2> QED
        BY <1>1, <1>5, <2>1, FoldRecursion
<1>7. Folds(f)
    <2>1. \A S \in SUBSET (1 .. n) :
              f[S] = IF S = {} THEN base ELSE Place(f[S \ {Max(S)}], seq[Max(S)])
        <3> TAKE S \in SUBSET (1 .. n)
        <3>1. CASE S = {}
            BY <1>6, <3>1 DEF RecursesOver
        <3>2. CASE S # {}
            <4>1. Max(S) \in 1 .. n
                BY <1>1, <3>2, MaxOfIndexes
            <4>2. f[S \ {Max(S)}] \in X /\ f[S] = F[<<f[S \ {Max(S)}], Max(S)>>]
                <5> HIDE DEF F, X
                <5> QED
                    BY <1>6, <3>2 DEF RecursesOver
            <4> HIDE DEF X
            <4> QED
                BY <3>2, <4>1, <4>2
        <3> QED
            BY <3>1, <3>2
    <2>2. f = [S \in SUBSET (1 .. n) |-> f[S]]
        <3> HIDE DEF F, X
        <3> QED
            BY <1>6 DEF RecursesOver
    <2> QED
        BY <1>1, <2>1, <2>2
<1>8. Folds(C)
    <2> HIDE DEF Folds
    <2> QED
        BY <1>7
<1>9. h[0] = base /\ \A i \in 1 .. n : h[i] = Place(h[i - 1], seq[i])
    <2> HIDE DEF C, base
    <2>1. 1 .. 0 = {} /\ 0 \in 0 .. n
        BY <1>1
    <2>2. \A i \in 1 .. n : C[1 .. i] = Place(C[1 .. (i - 1)], seq[i])
        <3> TAKE i \in 1 .. n
        <3>1. /\ 1 .. i \in SUBSET DOMAIN seq
              /\ 1 .. i # {}
              /\ Max(1 .. i) = i
              /\ (1 .. i) \ {Max(1 .. i)} = 1 .. (i - 1)
            BY <1>1, UpTo
        <3> QED
            BY <1>8, <3>1
    <2>3. \A i \in 1 .. n : i \in 0 .. n /\ i - 1 \in 0 .. n
        BY <1>1
    <2> QED
        BY <1>1, <1>8, <2>1, <2>2, <2>3
<1>10. Reordered(actual, proposed, isSkills, skills) = h[n].out
    <2>1. Reordered(actual, proposed, isSkills, skills) = C[DOMAIN seq].out
        BY DEF Reordered, FoldLeft, MapThenFoldSet, seq, Place
    <2>2. n \in 0 .. n
        BY <1>1
    <2> HIDE DEF C
    <2> QED
        BY <1>1, <2>1, <2>2
<1> HIDE DEF h
\* What the loop keeps.
<1> DEFINE From(s) == \A w \in ToSet(s) : w \in ToSet(actual) \/ Allowed(w)
           Counts(st, i) ==
               \A key : /\ HowMany(st.rest, Spelt(key)) + HowMany(st.out, Spelt(key))
                               >= HowMany(actual, Spelt(key))
                        /\ HowMany(st.rest, Spelt(key)) <= HowManyAfter(seq, i, Spelt(key))
           good == {i \in 0 .. n : /\ h[i] \in X
                                   /\ ToSet(h[i].rest) \subseteq ToSet(actual)
                                   /\ From(h[i].out)
                                   /\ Counts(h[i], i)}
<1>11. \A s \in Seq(Seq(Word)) : \A key : HowMany(s, Spelt(key)) \in Nat
    BY HowManyType
<1>12. 0 \in good
    <2>1. h[0].rest = actual /\ h[0].out = <<>> /\ h[0] \in X
        BY <1>5, <1>9
    <2>2. ToSet(h[0].out) = {}
        BY <2>1 DEF ToSet
    <2>3. Counts(h[0], 0)
        <3> TAKE key
        <3>1. HowMany(actual, Spelt(key)) <= HowMany(seq, Spelt(key))
            <4>1. HowMany(seq, Spelt(key)) = HowMany(proposed, Spelt(key)) + HowMany(actual, Spelt(key))
                BY HowManyConcat DEF seq
            <4>2. HowMany(proposed, Spelt(key)) \in Nat /\ HowMany(actual, Spelt(key)) \in Nat
                BY HowManyType
            <4> HIDE DEF seq
            <4> QED
                BY <4>1, <4>2
        <3>2. HowManyAfter(seq, 0, Spelt(key)) = HowMany(seq, Spelt(key))
            BY <1>1, HowManyAfterSteps
        <3>3. HowMany(<<>>, Spelt(key)) \in Nat
            <4>1. <<>> \in Seq(Seq(Word))
                OBVIOUS
            <4> QED
                BY <1>11, <4>1
        <3>4. HowMany(actual, Spelt(key)) \in Nat
            BY <1>11
        <3> QED
            BY <2>1, <3>1, <3>2, <3>3, <3>4
    <2>4. 0 \in 0 .. n
        BY <1>1
    <2> HIDE DEF X, Counts
    <2> QED
        BY <2>1, <2>2, <2>3, <2>4
<1>13. ASSUME NEW i \in 1 .. n, i - 1 \in good
       PROVE  i \in good
    <2> DEFINE st == h[i - 1]
               item == seq[i]
               at == At(st, item)
               x == st.rest[at]
    <2>1. /\ st \in X
          /\ ToSet(st.rest) \subseteq ToSet(actual)
          /\ From(st.out)
          /\ Counts(st, i - 1)
        BY <1>13
    <2>2. item \in Seq(Word) /\ (item \in ToSet(proposed) \/ item \in ToSet(actual))
        BY <1>1, <1>2
    <2>3. h[i] = Place(st, item) /\ h[i] \in X
        <3> HIDE DEF X
        <3> QED
            BY <1>4, <1>9, <2>1, <2>2
    <2>4. st.rest \in Seq(Seq(Word)) /\ st.out \in Seq(Seq(Word))
        BY <2>1
    <2>5. \A key : item \in Spelt(key) <=> key = Fold(item)
        BY <2>2 DEF Spelt
    <2>6. \A key : /\ HowManyAfter(seq, i - 1, Spelt(key)) =
                          HowManyAfter(seq, i, Spelt(key)) + (IF item \in Spelt(key) THEN 1 ELSE 0)
                   /\ HowManyAfter(seq, i, Spelt(key)) \in Nat
        <3>1. i \in 0 .. Len(seq) /\ i \in 1 .. Len(seq)
            BY <1>1 DEF n
        <3>2. ASSUME NEW K
              PROVE  /\ HowManyAfter(seq, i - 1, K) =
                            HowManyAfter(seq, i, K) + (IF seq[i] \in K THEN 1 ELSE 0)
                     /\ HowManyAfter(seq, i, K) \in Nat
            <4>1. \A m \in 0 .. Len(seq) : HowManyAfter(seq, m, K) \in Nat
                BY <1>1, HowManyAfterSteps
            <4>2. \A m \in 1 .. Len(seq) :
                      HowManyAfter(seq, m - 1, K)
                          = HowManyAfter(seq, m, K) + (IF seq[m] \in K THEN 1 ELSE 0)
                BY <1>1, HowManyAfterSteps
            <4> QED
                BY <3>1, <4>1, <4>2
        <3> QED
            BY <3>2
    <2>7. i \in 0 .. n
        BY <1>1
    <2> HIDE DEF item, st, at, X
    <2>8. CASE /\ at \in 1 .. Len(st.rest)
               /\ Fold(x) = Fold(item)
               /\ h[i] = [rest |-> RemoveAt(st.rest, at), out |-> Append(st.out, x),
                          added |-> st.added]
        <3>1. x \in Seq(Word) /\ x \in ToSet(st.rest)
            BY <2>4, <2>8 DEF ToSet
        <3>2. \A key : x \in Spelt(key) <=> item \in Spelt(key)
            BY <2>2, <2>8, <3>1 DEF Spelt
        <3>3. h[i].rest = RemoveAt(st.rest, at) /\ h[i].out = Append(st.out, x)
            BY <2>8
        <3>4. ToSet(h[i].rest) \subseteq ToSet(actual)
            BY <2>1, <2>4, <2>8, <3>3, RemoveAtDrops
        <3>5. From(h[i].out)
            <4>1. ToSet(h[i].out) = ToSet(st.out) \cup {x}
                BY <2>4, <3>1, <3>3, AppendAdds
            <4> QED
                BY <2>1, <3>1, <4>1
        <3>6. Counts(h[i], i)
            <4> TAKE key
            <4>1. HowMany(h[i].rest, Spelt(key)) =
                    HowMany(st.rest, Spelt(key)) - (IF x \in Spelt(key) THEN 1 ELSE 0)
                BY <2>4, <2>8, <3>3, HowManyRemoveAt
            <4>2. HowMany(h[i].out, Spelt(key)) =
                    HowMany(st.out, Spelt(key)) + (IF x \in Spelt(key) THEN 1 ELSE 0)
                BY <2>4, <3>1, <3>3, HowManyAppend
            <4>3. /\ HowMany(st.rest, Spelt(key)) \in Nat
                  /\ HowMany(st.out, Spelt(key)) \in Nat
                  /\ HowMany(actual, Spelt(key)) \in Nat
                BY <1>11, <2>4
            <4>4. /\ HowMany(st.rest, Spelt(key)) + HowMany(st.out, Spelt(key))
                        >= HowMany(actual, Spelt(key))
                  /\ HowMany(st.rest, Spelt(key)) <= HowManyAfter(seq, i - 1, Spelt(key))
                BY <2>1
            <4> QED
                BY <2>6, <3>2, <4>1, <4>2, <4>3, <4>4
        <3> HIDE DEF Counts, From
        <3> QED
            BY <2>3, <2>7, <3>4, <3>5, <3>6
    <2>9. CASE /\ \A j \in 1 .. Len(st.rest) : Fold(st.rest[j]) # Fold(item)
               /\ isSkills /\ Fold(item) \in skills /\ Fold(item) \notin known
               /\ h[i] = [rest |-> st.rest, out |-> Append(st.out, item),
                          added |-> st.added \cup {Fold(item)}]
        <3>1. h[i].rest = st.rest /\ h[i].out = Append(st.out, item)
            BY <2>9
        <3>2. item \notin ToSet(actual)
            BY <2>9 DEF ToSet
        <3>3. From(h[i].out)
            <4>1. ToSet(h[i].out) = ToSet(st.out) \cup {item}
                BY <2>2, <2>4, <3>1, AppendAdds
            <4> QED
                BY <2>1, <2>2, <2>9, <3>2, <4>1
        <3>4. Counts(h[i], i)
            <4> TAKE key
            <4>1. HowMany(h[i].out, Spelt(key)) =
                    HowMany(st.out, Spelt(key)) + (IF item \in Spelt(key) THEN 1 ELSE 0)
                BY <2>2, <2>4, <3>1, HowManyAppend
            <4>2. /\ HowMany(st.rest, Spelt(key)) \in Nat
                  /\ HowMany(st.out, Spelt(key)) \in Nat
                  /\ HowMany(actual, Spelt(key)) \in Nat
                BY <1>11, <2>4
            <4>3. /\ HowMany(st.rest, Spelt(key)) + HowMany(st.out, Spelt(key))
                        >= HowMany(actual, Spelt(key))
                  /\ HowMany(st.rest, Spelt(key)) <= HowManyAfter(seq, i - 1, Spelt(key))
                BY <2>1
            <4>4. item \in Spelt(key) => HowMany(st.rest, Spelt(key)) = 0
                <5>1. item \in Spelt(key) => \A j \in DOMAIN st.rest : st.rest[j] \notin Spelt(key)
                    <6>1. DOMAIN st.rest = 1 .. Len(st.rest)
                        BY <2>4
                    <6>2. \A w \in Spelt(key) : Fold(w) = key
                        BY DEF Spelt
                    <6> QED
                        BY <2>9, <6>1, <6>2
                <5> QED
                    BY <2>4, <5>1, HowManyType
            <4> QED
                BY <2>6, <3>1, <4>1, <4>2, <4>3, <4>4
        <3> HIDE DEF Counts, From
        <3> QED
            BY <2>1, <2>3, <2>7, <3>1, <3>3, <3>4
    <2>10. CASE /\ \A j \in 1 .. Len(st.rest) : Fold(st.rest[j]) # Fold(item)
                /\ h[i] = st
        <3>1. Counts(h[i], i)
            <4> TAKE key
            <4>1. HowMany(st.rest, Spelt(key)) \in Nat
                BY <1>11, <2>4
            <4>2. /\ HowMany(st.rest, Spelt(key)) + HowMany(st.out, Spelt(key))
                        >= HowMany(actual, Spelt(key))
                  /\ HowMany(st.rest, Spelt(key)) <= HowManyAfter(seq, i - 1, Spelt(key))
                BY <2>1
            <4>3. item \in Spelt(key) => HowMany(st.rest, Spelt(key)) = 0
                <5>1. item \in Spelt(key) => \A j \in DOMAIN st.rest : st.rest[j] \notin Spelt(key)
                    <6>1. DOMAIN st.rest = 1 .. Len(st.rest)
                        BY <2>4
                    <6>2. \A w \in Spelt(key) : Fold(w) = key
                        BY DEF Spelt
                    <6> QED
                        BY <2>10, <6>1, <6>2
                <5> QED
                    BY <2>4, <5>1, HowManyType
            <4> QED
                BY <2>6, <2>10, <4>1, <4>2, <4>3
        <3> HIDE DEF Counts, From
        <3> QED
            BY <2>1, <2>3, <2>7, <2>10, <3>1
    <2> HIDE DEF good, From, Counts, known
    <2> QED
        BY <1>3, <2>1, <2>2, <2>3, <2>8, <2>9, <2>10 DEF at
<1>14. n \in good
    <2> HIDE DEF good
    <2> QED
        BY <1>1, <1>12, <1>13, StepsUp
<1>15. \A key : HowMany(h[n].out, Spelt(key)) >= HowMany(actual, Spelt(key))
    <2> TAKE key
    <2>1. HowManyAfter(seq, n, Spelt(key)) = 0
        BY <1>1, HowManyAfterSteps DEF n
    <2>2. h[n].rest \in Seq(Seq(Word)) /\ h[n].out \in Seq(Seq(Word)) /\ Counts(h[n], n)
        BY <1>14
    <2>3. HowMany(h[n].rest, Spelt(key)) \in Nat /\ HowMany(h[n].out, Spelt(key)) \in Nat
        BY <1>11, <2>2
    <2>4. HowMany(actual, Spelt(key)) \in Nat
        BY <1>11
    <2>5. /\ HowMany(h[n].rest, Spelt(key)) + HowMany(h[n].out, Spelt(key))
                >= HowMany(actual, Spelt(key))
          /\ HowMany(h[n].rest, Spelt(key)) <= HowManyAfter(seq, n, Spelt(key))
        BY <2>2
    <2> QED
        BY <2>1, <2>3, <2>4, <2>5
<1>16. h[n] \in X /\ From(h[n].out)
    BY <1>14
<1> HIDE DEF known
<1> QED
    BY <1>10, <1>15, <1>16

\* Removing named items takes out each once, and nothing that is not named.
LEMMA WithoutTakesNamed ==
    ASSUME NEW items \in Seq(Seq(Word)), NEW named \in Seq(Seq(Word))
    PROVE  LET kept == Without(items, named)
           IN  /\ kept.items \in Seq(Seq(Word))
               /\ ToSet(kept.items) \subseteq ToSet(items)
               /\ ~kept.missing =>
                    \A K : HowMany(kept.items, K) + HowMany(named, K) = HowMany(items, K)
<1> DEFINE n == Len(named)
           X == [items : Seq(Seq(Word)), missing : BOOLEAN]
           Drop(st, w) == IF st.missing \/ ~Contains(st.items, w)
                          THEN [st EXCEPT !.missing = TRUE]
                          ELSE [st EXCEPT !.items = RemoveFirst(@, w)]
           base == [items |-> items, missing |-> FALSE]
           F == [p \in X \X (1 .. n) |-> Drop(p[1], named[p[2]])]
           Folds(f) == f = [S \in SUBSET DOMAIN named |->
                            IF S = {} THEN base ELSE Drop(f[S \ {Max(S)}], named[Max(S)])]
           C == CHOOSE f : Folds(f)
           h == [i \in 0 .. n |-> C[1 .. i]]
<1>1. n \in Nat /\ DOMAIN named = 1 .. n /\ \A i \in 1 .. n : named[i] \in Seq(Word)
    OBVIOUS
<1> HIDE DEF n
<1>2. ASSUME NEW st \in X, NEW w \in Seq(Word)
      PROVE  \/ Drop(st, w) = [items |-> st.items, missing |-> TRUE]
             \/ /\ ~st.missing
                /\ \E i \in 1 .. Len(st.items) :
                      /\ st.items[i] = w
                      /\ Drop(st, w) = [items |-> RemoveAt(st.items, i), missing |-> FALSE]
    <2>1. CASE st.missing \/ ~Contains(st.items, w)
        BY <2>1
    <2>2. CASE ~st.missing /\ Contains(st.items, w)
        <3> DEFINE I == {i \in 1 .. Len(st.items) : st.items[i] = w}
        <3>1. I \in SUBSET Nat /\ I # {}
            <4>1. st.items \in Seq(Seq(Word))
                OBVIOUS
            <4>2. \E i \in 1 .. Len(st.items) : st.items[i] = w
                BY <2>2 DEF Contains
            <4>3. I \in SUBSET Nat
                BY <4>1
            <4>4. I # {}
                BY <4>2
            <4> QED
                BY <4>3, <4>4
        <3>2. Min(I) \in I
            BY <3>1, MinOfNaturals
        <3>3. RemoveFirst(st.items, w) = RemoveAt(st.items, Min(I))
            BY <2>2, <3>1 DEF RemoveFirst, SelectInSeq, Contains
        <3>4. Drop(st, w) = [items |-> RemoveAt(st.items, Min(I)), missing |-> FALSE]
            <4> HIDE DEF I
            <4> QED
                BY <2>2, <3>3
        <3> QED
            BY <2>2, <3>2, <3>4
    <2> QED
        BY <2>1, <2>2
<1> HIDE DEF Drop
<1>3. ASSUME NEW st \in X, NEW w \in Seq(Word)
      PROVE  Drop(st, w) \in X
    <2>1. st.items \in Seq(Seq(Word))
        OBVIOUS
    <2>2. \A i \in 1 .. Len(st.items) : RemoveAt(st.items, i) \in Seq(Seq(Word))
        BY <2>1, RemoveAtDrops
    <2>3. \A s \in Seq(Seq(Word)) : /\ [items |-> s, missing |-> TRUE] \in X
                                     /\ [items |-> s, missing |-> FALSE] \in X
        OBVIOUS
    <2>4. CASE Drop(st, w) = [items |-> st.items, missing |-> TRUE]
        <3> HIDE DEF X
        <3> QED
            BY <2>1, <2>3, <2>4
    <2>5. ASSUME NEW i \in 1 .. Len(st.items),
                 Drop(st, w) = [items |-> RemoveAt(st.items, i), missing |-> FALSE]
          PROVE  Drop(st, w) \in X
        <3> HIDE DEF X
        <3> QED
            BY <2>2, <2>3, <2>5
    <2> QED
        BY <1>2, <2>4, <2>5
<1>4. base \in X
    OBVIOUS
<1>5. PICK f : RecursesOver(f, n, X, base, F)
    <2>1. F \in [X \X (1 .. n) -> X]
        BY <1>1, <1>3
    <2> HIDE DEF F, X, base
    <2> QED
        BY <1>1, <1>4, <2>1, FoldRecursion
<1>6. Folds(f)
    <2>1. \A S \in SUBSET (1 .. n) :
              f[S] = IF S = {} THEN base ELSE Drop(f[S \ {Max(S)}], named[Max(S)])
        <3> TAKE S \in SUBSET (1 .. n)
        <3>1. CASE S = {}
            BY <1>5, <3>1 DEF RecursesOver
        <3>2. CASE S # {}
            <4>1. Max(S) \in 1 .. n
                BY <1>1, <3>2, MaxOfIndexes
            <4>2. f[S \ {Max(S)}] \in X /\ f[S] = F[<<f[S \ {Max(S)}], Max(S)>>]
                <5> HIDE DEF F, X
                <5> QED
                    BY <1>5, <3>2 DEF RecursesOver
            <4> HIDE DEF X
            <4> QED
                BY <3>2, <4>1, <4>2
        <3> QED
            BY <3>1, <3>2
    <2>2. f = [S \in SUBSET (1 .. n) |-> f[S]]
        <3> HIDE DEF F, X
        <3> QED
            BY <1>5 DEF RecursesOver
    <2> QED
        BY <1>1, <2>1, <2>2
<1>7. Folds(C)
    <2> HIDE DEF Folds
    <2> QED
        BY <1>6
<1>8. h[0] = base /\ \A i \in 1 .. n : h[i] = Drop(h[i - 1], named[i])
    <2> HIDE DEF C, base
    <2>1. 1 .. 0 = {} /\ 0 \in 0 .. n
        BY <1>1
    <2>2. \A i \in 1 .. n : C[1 .. i] = Drop(C[1 .. (i - 1)], named[i])
        <3> TAKE i \in 1 .. n
        <3>1. /\ 1 .. i \in SUBSET DOMAIN named
              /\ 1 .. i # {}
              /\ Max(1 .. i) = i
              /\ (1 .. i) \ {Max(1 .. i)} = 1 .. (i - 1)
            BY <1>1, UpTo
        <3> QED
            BY <1>7, <3>1
    <2>3. \A i \in 1 .. n : i \in 0 .. n /\ i - 1 \in 0 .. n
        BY <1>1
    <2> QED
        BY <1>1, <1>7, <2>1, <2>2, <2>3
<1>9. Without(items, named) = h[n]
    <2>1. Without(items, named) = C[DOMAIN named]
        BY DEF Without, FoldLeft, MapThenFoldSet, Drop
    <2>2. n \in 0 .. n
        BY <1>1
    <2> HIDE DEF C
    <2> QED
        BY <1>1, <2>1, <2>2
<1> HIDE DEF h
<1> DEFINE Counts(st, i) ==
               ~st.missing => \A K : HowMany(st.items, K) + HowMany(named, K)
                                         = HowMany(items, K) + HowManyAfter(named, i, K)
           good == {i \in 0 .. n : /\ h[i] \in X
                                   /\ ToSet(h[i].items) \subseteq ToSet(items)
                                   /\ Counts(h[i], i)}
<1>10. \A s \in Seq(Seq(Word)) : \A K : HowMany(s, K) \in Nat
    BY HowManyType
<1>11. 0 \in good
    <2>1. \A K : HowManyAfter(named, 0, K) = HowMany(named, K)
        BY HowManyAfterSteps
    <2>2. h[0].items = items /\ h[0].missing = FALSE /\ h[0] \in X
        BY <1>4, <1>8
    <2>3. 0 \in 0 .. n
        BY <1>1
    <2> HIDE DEF X
    <2> QED
        BY <2>1, <2>2, <2>3
<1>12. ASSUME NEW i \in 1 .. n, i - 1 \in good
       PROVE  i \in good
    <2> DEFINE st == h[i - 1]
               w  == named[i]
    <2>1. st \in X /\ ToSet(st.items) \subseteq ToSet(items) /\ Counts(st, i - 1)
        BY <1>12
    <2>2. st.items \in Seq(Seq(Word)) /\ w \in Seq(Word) /\ i \in 0 .. n
        BY <1>1, <2>1
    <2>3. h[i] = Drop(st, w) /\ h[i] \in X
        <3> HIDE DEF X
        <3> QED
            BY <1>1, <1>3, <1>8, <2>1
    <2>4. CASE h[i] = [items |-> st.items, missing |-> TRUE]
        <3>1. h[i].items = st.items /\ h[i].missing
            BY <2>4
        <3> HIDE DEF X
        <3> QED
            BY <2>1, <2>2, <2>3, <3>1
    <2>5. ASSUME ~st.missing, NEW at \in 1 .. Len(st.items), st.items[at] = w,
                 h[i] = [items |-> RemoveAt(st.items, at), missing |-> FALSE]
          PROVE  i \in good
        <3>1. h[i].items = RemoveAt(st.items, at)
            BY <2>5
        <3>2. ToSet(h[i].items) \subseteq ToSet(items)
            BY <2>1, <2>2, <3>1, RemoveAtDrops
        <3>3. Counts(h[i], i)
            <4> SUFFICES ASSUME NEW K
                         PROVE  HowMany(h[i].items, K) + HowMany(named, K)
                                    = HowMany(items, K) + HowManyAfter(named, i, K)
                OBVIOUS
            <4>1. HowMany(h[i].items, K) = HowMany(st.items, K) - (IF w \in K THEN 1 ELSE 0)
                BY SMTT(30), <2>2, <2>5, <3>1, HowManyRemoveAt
            <4>2. HowManyAfter(named, i - 1, K)
                      = HowManyAfter(named, i, K) + (IF w \in K THEN 1 ELSE 0)
                <5>1. i \in 1 .. Len(named)
                    BY DEF n
                <5>2. \A m \in 1 .. Len(named) :
                          HowManyAfter(named, m - 1, K)
                              = HowManyAfter(named, m, K) + (IF named[m] \in K THEN 1 ELSE 0)
                    BY HowManyAfterSteps
                <5> QED
                    BY <5>1, <5>2
            <4>3. /\ HowMany(st.items, K) \in Nat
                  /\ HowMany(named, K) \in Nat
                  /\ HowMany(items, K) \in Nat
                BY <1>10, <2>2
            <4>4. HowManyAfter(named, i, K) \in Nat
                <5>1. i \in 0 .. Len(named)
                    BY <2>2 DEF n
                <5> QED
                    BY <5>1, HowManyAfterSteps
            <4>5. HowMany(st.items, K) + HowMany(named, K)
                      = HowMany(items, K) + HowManyAfter(named, i - 1, K)
                BY <2>1, <2>5
            <4> HIDE DEF w, st
            <4> QED
                BY <4>1, <4>2, <4>3, <4>4, <4>5
        <3> HIDE DEF Counts
        <3> QED
            BY <2>2, <2>3, <3>2, <3>3
    <2> HIDE DEF good, st, w
    <2> QED
        BY <1>2, <2>1, <2>2, <2>3, <2>4, <2>5
<1>13. n \in good
    <2> HIDE DEF good
    <2> QED
        BY <1>1, <1>11, <1>12, StepsUp
<1>14. \A K : HowManyAfter(named, n, K) = 0
    BY HowManyAfterSteps DEF n
<1>15. \A K : HowMany(items, K) \in Nat
    BY <1>10
<1> QED
    BY <1>9, <1>13, <1>14, <1>15

-----------------------------------------------------------------------------
(* What one change does.                                                    *)

Reason == {"allowed", "blocked_field", "blocked_path", "freedom_too_low", "malformed_path",
           "original_mismatch", "unsupported_action", "unsupported_skill", "duplicate_skill"}

\* How many items with this key the change names for removal or rewrites.
Takes(c, key) ==
    IF c.action = "remove" THEN HowMany(c.value.items, Spelt(key))
    ELSE IF c.action = "replace" THEN 1 ELSE 0

\* What the change may make of the value of its field: no text that neither the
\* value nor the change has, no item less than the change takes, and no skill that
\* is neither verified nor appended.
Edits(c, skills, before, after) ==
    /\ after \in Value
    /\ TextsOf(after) \subseteq TextsOf(before) \cup TextsOf(c.value)
    /\ IsList(after) => IsList(before)
    /\ c.action = "remove" => IsList(c.value)
    /\ IsList(before) =>
         \/ c.action = "replace" /\ c.path.index = 0
         \/ /\ IsList(after)
            /\ \A key : HowMany(after.items, Spelt(key)) + Takes(c, key)
                            >= HowMany(before.items, Spelt(key))
    /\ ClassOf(c.path) = "skills" /\ c.path.index = 0 /\ IsList(after) =>
         \A w \in ToSet(after.items) :
             \/ w \in ToSet(before.items)
             \/ Fold(w) \in skills
             \/ c.action = "append" /\ c.value.words = w

LEMMA ReplaceEdits ==
    ASSUME NEW before \in Value, NEW c \in Change, NEW skills, c.action = "replace",
           IsText(c.value)
    PROVE  /\ c.path.index = 0 => Edits(c, skills, before, c.value)
           /\ IsList(before) /\ c.path.index \in DOMAIN before.items =>
                Edits(c, skills, before, [before EXCEPT !.items[c.path.index] = c.value.words])
<1>1. c.value \in Value /\ c.path.index \in Nat
    BY DEF Change
<1>2. c.value.words \in Seq(Word) /\ ~IsList(c.value)
    BY <1>1, ValueForms
<1>3. c.path.index = 0 => Edits(c, skills, before, c.value)
    BY <1>1, <1>2 DEF Edits
<1>4. ASSUME IsList(before), c.path.index \in DOMAIN before.items
      PROVE  Edits(c, skills, before, [before EXCEPT !.items[c.path.index] = c.value.words])
    <2> DEFINE i == c.path.index
               after == [before EXCEPT !.items[i] = c.value.words]
               items == [before.items EXCEPT ![i] = c.value.words]
    <2>1. before.items \in Seq(Seq(Word)) /\ before = List(before.items)
        BY <1>4, ValueForms DEF Value, IsList, List, Null
    <2>2. after = List(items)
        BY <2>1 DEF List
    <2>3. /\ items \in Seq(Seq(Word))
          /\ ToSet(items) \subseteq ToSet(before.items) \cup {c.value.words}
          /\ \A K : HowMany(items, K) + 1 >= HowMany(before.items, K)
        <3>1. \A s \in Seq(Seq(Word)) : \A j \in DOMAIN s : \A x \in Seq(Word) :
                 \A K : /\ [s EXCEPT ![j] = x] \in Seq(Seq(Word))
                        /\ ToSet([s EXCEPT ![j] = x]) \subseteq ToSet(s) \cup {x}
                        /\ HowMany([s EXCEPT ![j] = x], K) + 1 >= HowMany(s, K)
            BY HowManyExcept
        <3> DEFINE s == before.items
                   x == c.value.words
        <3>2. s \in Seq(Seq(Word)) /\ i \in DOMAIN s /\ x \in Seq(Word)
            BY <1>2, <1>4, <2>1
        <3>3. items = [s EXCEPT ![i] = x]
            OBVIOUS
        <3> HIDE DEF s, x, items, i
        <3>4. /\ items \in Seq(Seq(Word))
              /\ ToSet(items) \subseteq ToSet(s) \cup {x}
              /\ \A K : HowMany(items, K) + 1 >= HowMany(s, K)
            BY <3>1, <3>2, <3>3
        <3> QED
            BY <3>4 DEF s, x
    <2>4. after \in Value /\ IsList(after) /\ after.items = items
        BY <2>2, <2>3, ValuesMade
    <2>5. TextsOf(after) = ToSet(items) /\ TextsOf(before) = ToSet(before.items)
        BY <1>4, <2>4, ValueForms DEF TextsOf
    <2>6. TextsOf(c.value) = {c.value.words}
        BY DEF TextsOf
    <2>7. i # 0
        BY <1>4, <2>1
    <2> HIDE DEF after, items
    <2>8. Edits(c, skills, before, after)
        BY <1>4, <2>3, <2>4, <2>5, <2>6, <2>7 DEF Edits, Takes
    <2> QED
        BY <2>8 DEF after
<1> QED
    BY <1>3, <1>4

\* Adding the text of the change at the end of the list.
LEMMA AddingEdits ==
    ASSUME NEW before \in Value, NEW c \in Change, NEW skills, IsList(before), IsText(c.value),
           \/ c.action = "append"
           \/ c.action = "add_skill" /\ Fold(c.value.words) \in skills
    PROVE  Edits(c, skills, before, List(Append(before.items, c.value.words)))
<1> DEFINE items == Append(before.items, c.value.words)
<1>1. c.value \in Value
    BY DEF Change
<1>2. c.value.words \in Seq(Word) /\ before.items \in Seq(Seq(Word))
    BY <1>1, ValueForms
<1>3. /\ items \in Seq(Seq(Word))
      /\ ToSet(items) = ToSet(before.items) \cup {c.value.words}
    BY <1>2, AppendAdds
<1>4. \A K : HowMany(items, K) >= HowMany(before.items, K)
    <2> TAKE K
    <2>1. HowMany(items, K) = HowMany(before.items, K) + (IF c.value.words \in K THEN 1 ELSE 0)
        BY <1>2, HowManyAppend
    <2>2. HowMany(before.items, K) \in Nat
        BY <1>2, HowManyType
    <2> QED
        BY <2>1, <2>2
<1> HIDE DEF items
<1>5. List(items) \in Value /\ IsList(List(items)) /\ List(items).items = items
    BY <1>3, ValuesMade
<1>6. /\ TextsOf(List(items)) = ToSet(items)
      /\ TextsOf(before) = ToSet(before.items)
      /\ TextsOf(c.value) = {c.value.words}
    BY <1>5, ValueForms DEF TextsOf, List, IsText
<1>7. \A key : HowMany(items, Spelt(key)) + Takes(c, key) >= HowMany(before.items, Spelt(key))
    <2> TAKE key
    <2>1. HowMany(items, Spelt(key)) \in Nat /\ HowMany(before.items, Spelt(key)) \in Nat
        BY <1>2, <1>3, HowManyType
    <2>2. Takes(c, key) = 0
        BY DEF Takes
    <2> QED
        BY <1>4, <2>1, <2>2
<1> QED
    BY <1>3, <1>5, <1>6, <1>7 DEF Edits, items

LEMMA ReorderEdits ==
    ASSUME NEW before \in Value, NEW c \in Change, NEW skills, c.action = "reorder",
           IsList(before), IsList(c.value)
    PROVE  Edits(c, skills, before,
                 List(Reordered(before.items, c.value.items, ClassOf(c.path) = "skills", skills)))
<1> DEFINE isSkills == ClassOf(c.path) = "skills"
           out == Reordered(before.items, c.value.items, isSkills, skills)
<1>1. before.items \in Seq(Seq(Word)) /\ c.value.items \in Seq(Seq(Word))
    BY ValueForms DEF Change
<1>2. /\ out \in Seq(Seq(Word))
      /\ \A w \in ToSet(out) :
             \/ w \in ToSet(before.items)
             \/ isSkills /\ Fold(w) \in skills /\ w \in ToSet(c.value.items)
      /\ \A key : HowMany(out, Spelt(key)) >= HowMany(before.items, Spelt(key))
    BY <1>1, ReorderedKeepsItems
<1> HIDE DEF out
<1>3. List(out) \in Value /\ IsList(List(out)) /\ List(out).items = out
    BY <1>2, ValuesMade
<1>4. /\ TextsOf(List(out)) = ToSet(out)
      /\ TextsOf(before) = ToSet(before.items)
      /\ TextsOf(c.value) = ToSet(c.value.items)
    <2>1. ~IsText(before) /\ ~IsText(c.value) /\ ~IsText(List(out))
        BY <1>3, ValueForms DEF Change
    <2> QED
        BY <1>3, <2>1 DEF TextsOf
<1>5. \A key : HowMany(out, Spelt(key)) + Takes(c, key) >= HowMany(before.items, Spelt(key))
    <2> TAKE key
    <2>1. HowMany(out, Spelt(key)) \in Nat /\ HowMany(before.items, Spelt(key)) \in Nat
        BY <1>1, <1>2, HowManyType
    <2>2. Takes(c, key) = 0
        BY DEF Takes
    <2> QED
        BY <1>2, <2>1, <2>2
<1> QED
    BY <1>2, <1>3, <1>4, <1>5 DEF Edits, out

LEMMA RemoveEdits ==
    ASSUME NEW before \in Value, NEW c \in Change, NEW skills, c.action = "remove",
           IsList(before), IsList(c.value), ~Without(before.items, c.value.items).missing
    PROVE  Edits(c, skills, before, List(Without(before.items, c.value.items).items))
<1> DEFINE kept == Without(before.items, c.value.items).items
<1>1. before.items \in Seq(Seq(Word)) /\ c.value.items \in Seq(Seq(Word))
    BY ValueForms DEF Change
<1>2. /\ kept \in Seq(Seq(Word))
      /\ ToSet(kept) \subseteq ToSet(before.items)
      /\ \A K : HowMany(kept, K) + HowMany(c.value.items, K) = HowMany(before.items, K)
    BY <1>1, WithoutTakesNamed
<1> HIDE DEF kept
<1>3. List(kept) \in Value /\ IsList(List(kept)) /\ List(kept).items = kept
    BY <1>2, ValuesMade
<1>4. TextsOf(List(kept)) = ToSet(kept) /\ TextsOf(before) = ToSet(before.items)
    BY <1>3, ValueForms DEF TextsOf
<1>5. \A key : HowMany(kept, Spelt(key)) + Takes(c, key) >= HowMany(before.items, Spelt(key))
    <2> TAKE key
    <2>1. HowMany(before.items, Spelt(key)) \in Nat
        BY <1>1, HowManyType
    <2> QED
        BY <1>2, <2>1 DEF Takes
<1> QED
    BY <1>2, <1>3, <1>4, <1>5 DEF Edits, kept

\* A change is refused and leaves the resume alone, or edits the field it names.
ChangeOutcome(doc, c, level, skills, r) ==
    \/ r.reason \in Reason \ {"allowed"} /\ r.doc = doc
    \/ /\ r.reason = "allowed"
       /\ PolicyReason(c.path, level) = "allowed"
       /\ c.path.field \in DOMAIN doc
       /\ \E v : /\ r.doc = [doc EXCEPT ![c.path.field] = v]
                 /\ Edits(c, skills, doc[c.path.field], v)

LEMMA ApplyChangeEdits ==
    ASSUME NEW D, NEW doc \in [D -> Value], NEW c \in Change, NEW level, NEW skills
    PROVE  ChangeOutcome(doc, c, level, skills, ApplyChange(doc, c, level, skills))
<1> DEFINE f == c.path.field
           i == c.path.index
           r == ApplyChange(doc, c, level, skills)
           Refused(x) == x.reason \in Reason \ {"allowed"} /\ x.doc = doc
           Edited(x) == /\ x.reason = "allowed"
                        /\ \E v : /\ x.doc = [doc EXCEPT ![f] = v]
                                  /\ Edits(c, skills, doc[f], v)
<1>1. CASE PolicyReason(c.path, level) # "allowed"
    <2>1. PolicyReason(c.path, level) \in {"blocked_field", "blocked_path", "freedom_too_low"}
        BY <1>1 DEF PolicyReason
    <2> QED
        BY <1>1, <2>1 DEF ApplyChange, Rejected, ChangeOutcome, Reason
<1>2. CASE PolicyReason(c.path, level) = "allowed" /\ ~Resolves(doc, c.path)
    BY <1>2 DEF ApplyChange, Rejected, ChangeOutcome, Reason
<1>3. CASE PolicyReason(c.path, level) = "allowed" /\ Resolves(doc, c.path)
    <2>1. /\ f \in D /\ DOMAIN doc = D /\ doc[f] \in Value
          /\ i # 0 => IsList(doc[f]) /\ i \in DOMAIN doc[f].items
        BY <1>3 DEF Resolves
    <2>2. \A v : i = 0 => SetAt(doc, c.path, v) = [doc EXCEPT ![f] = v]
        BY DEF SetAt
    <2>3. /\ i = 0 => ValueAt(doc, c.path) = doc[f]
          /\ IsList(ValueAt(doc, c.path)) => i = 0
        BY ValuesMade DEF ValueAt
    <2>4. \A x : Refused([doc |-> doc, reason |-> x]) <=> x \in Reason \ {"allowed"}
        OBVIOUS
    <2>5. \A v : Edits(c, skills, doc[f], v) /\ i = 0 => Edited(Applied(SetAt(doc, c.path, v)))
        BY <2>2 DEF Applied
    <2>6. c.action = "replace" => LET x == Replace(doc, c) IN Refused(x) \/ Edited(x)
        <3> SUFFICES ASSUME c.action = "replace",
                            OriginalMatches(ValueAt(doc, c.path), c.original), IsText(c.value)
                     PROVE  Edited(Applied(SetAt(doc, c.path, c.value)))
            <4> HIDE DEF Edited
            <4> QED
                BY <2>4 DEF Replace, Rejected, Reason
        <3>1. CASE i = 0
            <4>1. Edits(c, skills, doc[f], c.value)
                BY <2>1, <3>1, ReplaceEdits
            <4> HIDE DEF Edited
            <4> QED
                BY <2>5, <3>1, <4>1
        <3>2. CASE i # 0
            <4> DEFINE v == [doc[f] EXCEPT !.items[i] = c.value.words]
            <4>1. Edits(c, skills, doc[f], v)
                BY <2>1, <3>2, ReplaceEdits
            <4>2. SetAt(doc, c.path, c.value) = [doc EXCEPT ![f] = v]
                BY <2>1, <3>2 DEF SetAt
            <4> HIDE DEF v
            <4> QED
                BY <4>1, <4>2 DEF Applied
        <3> QED
            BY <3>1, <3>2
    <2>7. c.action = "append" => LET x == AppendItem(doc, c) IN Refused(x) \/ Edited(x)
        <3> SUFFICES ASSUME c.action = "append", IsList(ValueAt(doc, c.path)), NonEmptyText(c.value)
                     PROVE  Edited(Applied(SetAt(doc, c.path,
                                List(Append(ValueAt(doc, c.path).items, c.value.words)))))
            <4> HIDE DEF Edited
            <4> QED
                BY <2>4 DEF AppendItem, Rejected, Reason
        <3>1. Edits(c, skills, doc[f], List(Append(doc[f].items, c.value.words)))
            BY <2>1, <2>3, AddingEdits DEF NonEmptyText
        <3> HIDE DEF Edited
        <3> QED
            BY <2>3, <2>5, <3>1
    <2>8. c.action = "reorder" => LET x == Reorder(doc, c, skills) IN Refused(x) \/ Edited(x)
        <3> DEFINE v == List(Reordered(doc[f].items, c.value.items, ClassOf(c.path) = "skills", skills))
        <3> SUFFICES ASSUME c.action = "reorder", IsList(ValueAt(doc, c.path)), IsList(c.value)
                     PROVE  Edited(Applied(SetAt(doc, c.path, v)))
            <4> HIDE DEF Edited
            <4> QED
                BY <2>3, <2>4 DEF Reorder, Rejected, Reason
        <3>1. Edits(c, skills, doc[f], v)
            BY <2>1, <2>3, ReorderEdits
        <3> HIDE DEF Edited, v
        <3> QED
            BY <2>3, <2>5, <3>1
    <2>9. c.action = "remove" => LET x == RemoveItems(doc, c) IN Refused(x) \/ Edited(x)
        <3> DEFINE kept == Without(doc[f].items, c.value.items)
        <3> SUFFICES ASSUME c.action = "remove", IsList(ValueAt(doc, c.path)), IsList(c.value),
                            ~kept.missing
                     PROVE  Edited(Applied(SetAt(doc, c.path, List(kept.items))))
            <4> HIDE DEF Edited
            <4> QED
                BY <2>3, <2>4 DEF RemoveItems, Rejected, Reason
        <3>1. Edits(c, skills, doc[f], List(kept.items))
            BY <2>1, <2>3, RemoveEdits
        <3> HIDE DEF Edited, kept
        <3> QED
            BY <2>3, <2>5, <3>1
    <2>10. c.action = "add_skill" => LET x == AddSkill(doc, c, skills) IN Refused(x) \/ Edited(x)
        <3> DEFINE v == List(Append(doc[f].items, c.value.words))
        <3> SUFFICES ASSUME c.action = "add_skill", IsList(ValueAt(doc, c.path)),
                            NonEmptyText(c.value), Fold(c.value.words) \in skills
                     PROVE  Edited(Applied(SetAt(doc, c.path, v)))
            <4> HIDE DEF Edited
            <4> QED
                BY <2>3, <2>4 DEF AddSkill, Rejected, Reason
        <3>1. Edits(c, skills, doc[f], v)
            BY <2>1, <2>3, AddingEdits DEF NonEmptyText
        <3> HIDE DEF Edited, v
        <3> QED
            BY <2>3, <2>5, <3>1
    <2>11. c.action \in Action
        BY DEF Change
    <2>12. Refused(r) \/ Edited(r)
        <3> HIDE DEF Refused, Edited
        <3> QED
            BY <1>3, <2>6, <2>7, <2>8, <2>9, <2>10, <2>11 DEF ApplyChange, Action
    <2> QED
        BY <1>3, <2>1, <2>12 DEF ChangeOutcome
<1> QED
    BY <1>1, <1>2, <1>3

-----------------------------------------------------------------------------
(* What a list of changes does.                                             *)

\* It keeps an item as often as it stands at one of them.
LEMMA ItemsAtCounts ==
    ASSUME NEW X, NEW s \in Seq(X), NEW I, NEW K
    PROVE  HowMany(ItemsAt(s, I), K) = Cardinality({i \in DOMAIN s \cap I : s[i] \in K})
<1> DEFINE n == Len(s)
           At(i) == {j \in (1 .. i) \cap I : s[j] \in K}
<1>1. n \in Nat /\ DOMAIN s = 1 .. n /\ \A i \in 1 .. n : s[i] \in X
    OBVIOUS
<1>2. PICK h : SelectingRun(h, s, I) /\ ItemsAt(s, I) = h[n]
    BY ItemsAtRun
<1>3. h[0] = <<>> /\ \A i \in 1 .. n : h[i] = IF i \in I THEN Append(h[i - 1], s[i]) ELSE h[i - 1]
    BY <1>2 DEF SelectingRun
<1>4. \A i \in 0 .. n : IsFiniteSet(At(i)) /\ Cardinality(At(i)) \in Nat
    <2> TAKE i \in 0 .. n
    <2>1. IsFiniteSet(1 .. i) /\ At(i) \in SUBSET (1 .. i)
        BY <1>1, FS_Interval
    <2> HIDE DEF At
    <2> QED
        BY <2>1, FS_Subset, FS_CardinalityType
<1> HIDE DEF n
<1> DEFINE good == {i \in 0 .. n : /\ h[i] \in Seq(X)
                                   /\ HowMany(h[i], K) = Cardinality(At(i))}
<1>5. 0 \in good
    <2>1. h[0] = <<>> /\ 0 \in 0 .. n /\ At(0) = {} /\ h[0] \in Seq(X)
        BY <1>1, <1>3
    <2>2. {i \in DOMAIN h[0] : h[0][i] \in K} = {}
        BY <2>1
    <2>3. HowMany(h[0], K) = Cardinality(At(0))
        BY <2>1, <2>2 DEF HowMany
    <2> QED
        BY <2>1, <2>3
<1>6. \A i \in 1 .. n : i - 1 \in good => i \in good
    <2> SUFFICES ASSUME NEW i \in 1 .. n, i - 1 \in good PROVE i \in good
        OBVIOUS
    <2>1. /\ h[i - 1] \in Seq(X)
          /\ HowMany(h[i - 1], K) = Cardinality(At(i - 1))
          /\ IsFiniteSet(At(i - 1)) /\ Cardinality(At(i - 1)) \in Nat
          /\ i \in 0 .. n /\ s[i] \in X
          /\ i \notin At(i - 1)
        BY <1>1, <1>4
    <2>2. CASE i \in I
        <3>1. h[i] = Append(h[i - 1], s[i])
            BY <1>3, <2>2
        <3>2. /\ h[i] \in Seq(X)
              /\ HowMany(h[i], K) = HowMany(h[i - 1], K) + (IF s[i] \in K THEN 1 ELSE 0)
            BY <2>1, <3>1, HowManyAppend
        <3>3. CASE s[i] \in K
            <4>1. At(i) = At(i - 1) \cup {i}
                BY <1>1, <2>2, <3>3
            <4> HIDE DEF At
            <4>2. Cardinality(At(i - 1) \cup {i}) = Cardinality(At(i - 1)) + 1
                BY <2>1, FS_AddElement
            <4> QED
                BY <2>1, <3>2, <3>3, <4>1, <4>2
        <3>4. CASE s[i] \notin K
            <4>1. At(i) = At(i - 1)
                BY <1>1, <3>4
            <4> HIDE DEF At
            <4> QED
                BY <2>1, <3>2, <3>4, <4>1
        <3> QED
            BY <3>3, <3>4
    <2>3. CASE i \notin I
        <3>1. At(i) = At(i - 1) /\ h[i] = h[i - 1]
            BY <1>1, <1>3, <2>3
        <3> QED
            BY <2>1, <3>1
    <2> QED
        BY <2>2, <2>3
<1>7. n \in good
    <2> HIDE DEF good
    <2> QED
        BY <1>1, <1>5, <1>6, StepsUp
<1>8. At(n) = {i \in DOMAIN s \cap I : s[i] \in K}
    BY <1>1
<1> HIDE DEF At
<1> QED
    BY <1>2, <1>7, <1>8

\* What is at some positions and what is at the others is all there is.
LEMMA ItemsAtSplits ==
    ASSUME NEW X, NEW s \in Seq(X), NEW I, NEW J, I \cap J = {}, DOMAIN s \subseteq I \cup J, NEW K
    PROVE  HowMany(ItemsAt(s, I), K) + HowMany(ItemsAt(s, J), K) = HowMany(s, K)
<1> DEFINE A == {i \in DOMAIN s \cap I : s[i] \in K}
           B == {i \in DOMAIN s \cap J : s[i] \in K}
           T == {i \in DOMAIN s : s[i] \in K}
<1>1. HowMany(ItemsAt(s, I), K) = Cardinality(A) /\ HowMany(ItemsAt(s, J), K) = Cardinality(B)
    BY ItemsAtCounts
<1>2. T = A \cup B /\ A \cap B = {} /\ A \in SUBSET T /\ B \in SUBSET T
    OBVIOUS
<1>3. IsFiniteSet(T) /\ HowMany(s, K) = Cardinality(T)
    BY HowManyType DEF HowMany
<1> HIDE DEF A, B, T
<1>4. IsFiniteSet(A) /\ IsFiniteSet(B)
    BY <1>2, <1>3, FS_Subset
<1>5. Cardinality(A \cap B) = 0 /\ Cardinality(A) \in Nat /\ Cardinality(B) \in Nat
    BY <1>2, <1>4, FS_EmptySet, FS_CardinalityType
<1>6. Cardinality(A \cup B) = Cardinality(A) + Cardinality(B) - Cardinality(A \cap B)
    BY <1>4, FS_Union
<1> QED
    BY <1>1, <1>2, <1>3, <1>5, <1>6

\* All positions give the sequence itself.
LEMMA ItemsAtAll ==
    ASSUME NEW X, NEW s \in Seq(X), NEW I, DOMAIN s \subseteq I
    PROVE  ItemsAt(s, I) = s
<1> DEFINE n == Len(s)
<1>1. n \in Nat /\ DOMAIN s = 1 .. n /\ \A i \in 1 .. n : s[i] \in X
    OBVIOUS
<1>2. PICK h : SelectingRun(h, s, I) /\ ItemsAt(s, I) = h[n]
    BY ItemsAtRun
<1>3. h[0] = <<>> /\ \A i \in 1 .. n : h[i] = Append(h[i - 1], s[i])
    BY <1>1, <1>2 DEF SelectingRun
<1> HIDE DEF n
<1> DEFINE good == {i \in 0 .. n : /\ h[i] \in Seq(X)
                                   /\ Len(h[i]) = i
                                   /\ \A j \in 1 .. i : h[i][j] = s[j]}
<1>4. 0 \in good
    <2>1. h[0] = <<>> /\ 0 \in 0 .. n /\ 1 .. 0 = {}
        BY <1>1, <1>3
    <2>2. h[0] \in Seq(X) /\ Len(h[0]) = 0 /\ \A j \in 1 .. 0 : h[0][j] = s[j]
        BY <2>1
    <2> QED
        BY <2>1, <2>2
<1>5. \A i \in 1 .. n : i - 1 \in good => i \in good
    <2> SUFFICES ASSUME NEW i \in 1 .. n, i - 1 \in good PROVE i \in good
        OBVIOUS
    <2>1. h[i] = Append(h[i - 1], s[i]) /\ s[i] \in X
        BY <1>1, <1>3
    <2>2. /\ h[i - 1] \in Seq(X)
          /\ Len(h[i - 1]) = i - 1
          /\ \A j \in 1 .. i - 1 : h[i - 1][j] = s[j]
        OBVIOUS
    <2>3. h[i] \in Seq(X) /\ Len(h[i]) = i /\ i \in 0 .. n
        BY <1>1, <2>1, <2>2
    <2>4. \A j \in 1 .. i : h[i][j] = s[j]
        BY <1>1, <2>1, <2>2
    <2> QED
        BY <2>3, <2>4
<1>6. n \in good
    <2> HIDE DEF good
    <2> QED
        BY <1>1, <1>4, <1>5, StepsUp
<1>7. h[n] \in Seq(X) /\ DOMAIN h[n] = 1 .. n /\ \A j \in 1 .. n : h[n][j] = s[j]
    BY <1>6
<1>8. h[n] = s
    BY <1>1, <1>7
<1> QED
    BY <1>2, <1>8

\* A list of skills becomes one proposal per skill, and nothing else is proposed.
LEMMA ExpandAllProposes ==
    ASSUME NEW changes \in Seq(Change)
    PROVE  /\ ExpandAll(changes) \in Seq(Change)
           /\ \A i \in DOMAIN ExpandAll(changes) : \E j \in DOMAIN changes :
                  /\ ExpandAll(changes)[i].path = changes[j].path
                  /\ ExpandAll(changes)[i].action = changes[j].action
                  /\ TextsOf(ExpandAll(changes)[i].value) \subseteq TextsOf(changes[j].value)
<1> DEFINE From(c) == {d \in Change : /\ d.path = c.path
                                      /\ d.action = c.action
                                      /\ TextsOf(d.value) \subseteq TextsOf(c.value)}
           seqs == [i \in DOMAIN changes |-> Expand(changes[i])]
<1>1. ASSUME NEW c \in Change
      PROVE  Expand(c) \in Seq(Change) /\ ToSet(Expand(c)) \subseteq From(c)
    <2>1. c.value \in Value
        BY DEF Change
    <2>2. CASE c.action = "add_skill" /\ IsList(c.value) /\ c.value.items # <<>>
        <3> DEFINE one(i) == [c EXCEPT !.value = Text(c.value.items[i])]
        <3>1. c.value.items \in Seq(Seq(Word)) /\ ~IsText(c.value)
            BY <2>1, <2>2, ValueForms
        <3>2. ASSUME NEW i \in DOMAIN c.value.items
              PROVE  one(i) \in From(c)
            <4>1. c.value.items[i] \in Seq(Word) /\ c.value.items[i] \in ToSet(c.value.items)
                BY <3>1 DEF ToSet
            <4>2. Text(c.value.items[i]) \in Value
                BY <4>1, ValuesMade
            <4>3. /\ one(i) \in Change
                  /\ one(i).path = c.path
                  /\ one(i).action = c.action
                  /\ one(i).value = Text(c.value.items[i])
                BY <4>2 DEF Change
            <4>4. TextsOf(one(i).value) = {c.value.items[i]} /\ TextsOf(c.value) = ToSet(c.value.items)
                BY <2>2, <3>1, <4>1, <4>3, ValuesMade DEF TextsOf
            <4> HIDE DEF one
            <4> QED
                BY <4>1, <4>3, <4>4
        <3>3. Expand(c) = [i \in DOMAIN c.value.items |-> one(i)]
            BY <2>2 DEF Expand
        <3>4. DOMAIN c.value.items = 1 .. Len(c.value.items) /\ Len(c.value.items) \in Nat
            BY <3>1
        <3> HIDE DEF one
        <3>5. \A i \in DOMAIN c.value.items : one(i) \in Change
            BY <3>2
        <3>6. Expand(c) \in Seq(Change)
            BY <3>3, <3>4, <3>5
        <3>7. ToSet(Expand(c)) \subseteq From(c)
            <4> HIDE DEF From
            <4> QED
                BY <3>2, <3>3 DEF ToSet
        <3> QED
            BY <3>6, <3>7
    <2>3. CASE ~(c.action = "add_skill" /\ IsList(c.value) /\ c.value.items # <<>>)
        <3>1. Expand(c) = <<c>>
            BY <2>3 DEF Expand
        <3>2. c \in From(c)
            OBVIOUS
        <3> HIDE DEF From
        <3> QED
            BY <3>1, <3>2 DEF ToSet
    <2> QED
        BY <2>2, <2>3
<1> HIDE DEF From
<1>2. seqs \in Seq(Seq(Change))
    <2>1. DOMAIN changes = 1 .. Len(changes) /\ Len(changes) \in Nat
        OBVIOUS
    <2>2. \A i \in DOMAIN changes : Expand(changes[i]) \in Seq(Change)
        BY <1>1
    <2> QED
        BY <2>1, <2>2
<1>3. ExpandAll(changes) = FlattenSeq(seqs) /\ DOMAIN seqs = DOMAIN changes
    BY DEF ExpandAll
<1>4. /\ FlattenSeq(seqs) \in Seq(Change)
      /\ \A i \in DOMAIN FlattenSeq(seqs) :
             \E j \in DOMAIN seqs : FlattenSeq(seqs)[i] \in ToSet(seqs[j])
    <2> HIDE DEF seqs
    <2> QED
        BY <1>2, FlattenSeqMembers
<1>5. \A j \in DOMAIN changes : ToSet(seqs[j]) \subseteq From(changes[j])
    BY <1>1
<1> HIDE DEF seqs
<1>6. \A i \in DOMAIN ExpandAll(changes) : \E j \in DOMAIN changes :
          ExpandAll(changes)[i] \in From(changes[j])
    BY <1>3, <1>4, <1>5
<1> QED
    BY <1>3, <1>4, <1>6 DEF From

\* One pass of the loop of apply_diffs.
DiffStep(st, c, level, skills) ==
    LET r == ApplyChange(st.doc, c, level, skills)
    IN  [doc |-> r.doc,
         rejected |-> IF r.reason = "allowed" THEN st.rejected ELSE Append(st.rejected, r.reason)]

Results(D) == [doc : [D -> Value], rejected : Seq(Reason)]

LEMMA DiffStepType ==
    ASSUME NEW D, NEW st \in Results(D), NEW c \in Change, NEW level, NEW skills
    PROVE  DiffStep(st, c, level, skills) \in Results(D)
<1> DEFINE r == ApplyChange(st.doc, c, level, skills)
<1>1. st.doc \in [D -> Value] /\ st.rejected \in Seq(Reason)
    BY DEF Results
<1>2. ChangeOutcome(st.doc, c, level, skills, r)
    BY <1>1, ApplyChangeEdits
<1> HIDE DEF r
<1>3. r.doc \in [D -> Value] /\ r.reason \in Reason
    BY <1>1, <1>2 DEF ChangeOutcome, Edits, Reason
<1>4. Append(st.rejected, r.reason) \in Seq(Reason)
    BY <1>1, <1>3
<1>5. DiffStep(st, c, level, skills) =
        [doc |-> r.doc,
         rejected |-> IF r.reason = "allowed" THEN st.rejected ELSE Append(st.rejected, r.reason)]
    BY DEF DiffStep, r
<1> QED
    BY <1>1, <1>3, <1>4, <1>5 DEF Results

\* h is the run of apply_diffs over the changes, one step per expanded change.
DiffRun(h, doc, cs, level, skills) ==
    /\ h[0] = [doc |-> doc, rejected |-> <<>>]
    /\ \A i \in 1 .. Len(cs) : h[i] = DiffStep(h[i - 1], cs[i], level, skills)

LEMMA ApplyDiffsRuns ==
    ASSUME NEW D, NEW doc \in [D -> Value], NEW changes \in Seq(Change), NEW level, NEW skills
    PROVE  \E h : /\ DiffRun(h, doc, ExpandAll(changes), level, skills)
                  /\ \A i \in 0 .. Len(ExpandAll(changes)) : h[i] \in Results(D)
                  /\ ApplyDiffs(doc, changes, level, skills) = h[Len(ExpandAll(changes))]
<1> DEFINE cs == ExpandAll(changes)
           n == Len(cs)
           X == Results(D)
           base == [doc |-> doc, rejected |-> <<>>]
           F == [p \in X \X (1 .. n) |-> DiffStep(p[1], cs[p[2]], level, skills)]
           Folds(f) == f = [S \in SUBSET DOMAIN cs |->
                            IF S = {} THEN base
                            ELSE DiffStep(f[S \ {Max(S)}], cs[Max(S)], level, skills)]
           C == CHOOSE f : Folds(f)
           h == [i \in 0 .. n |-> C[1 .. i]]
<1>1. n \in Nat /\ DOMAIN cs = 1 .. n /\ \A i \in 1 .. n : cs[i] \in Change
    <2>1. cs \in Seq(Change)
        BY ExpandAllProposes
    <2> HIDE DEF cs
    <2> QED
        BY <2>1
<1> HIDE DEF cs, n
<1>2. base \in X
    BY DEF Results
<1>3. PICK f : RecursesOver(f, n, X, base, F)
    <2>1. F \in [X \X (1 .. n) -> X]
        BY <1>1, DiffStepType
    <2> HIDE DEF F, X, base
    <2> QED
        BY <1>1, <1>2, <2>1, FoldRecursion
<1>4. Folds(f)
    <2> HIDE DEF X
    <2>1. \A S \in SUBSET (1 .. n) :
              f[S] = IF S = {} THEN base
                     ELSE DiffStep(f[S \ {Max(S)}], cs[Max(S)], level, skills)
        <3> TAKE S \in SUBSET (1 .. n)
        <3>1. CASE S = {}
            BY <1>3, <3>1 DEF RecursesOver
        <3>2. CASE S # {}
            <4>1. Max(S) \in 1 .. n
                BY <1>1, <3>2, MaxOfIndexes
            <4>2. f[S \ {Max(S)}] \in X /\ f[S] = F[<<f[S \ {Max(S)}], Max(S)>>]
                <5> HIDE DEF F
                <5> QED
                    BY <1>3, <3>2 DEF RecursesOver
            <4> QED
                BY <3>2, <4>1, <4>2
        <3> QED
            BY <3>1, <3>2
    <2>2. f = [S \in SUBSET (1 .. n) |-> f[S]]
        <3> HIDE DEF F
        <3> QED
            BY <1>3 DEF RecursesOver
    <2> QED
        BY <1>1, <2>1, <2>2
<1>5. Folds(C)
    <2> HIDE DEF Folds
    <2> QED
        BY <1>4
<1>6. h[0] = base /\ \A i \in 1 .. n : h[i] = DiffStep(h[i - 1], cs[i], level, skills)
    <2> HIDE DEF C, base
    <2>1. 1 .. 0 = {} /\ 0 \in 0 .. n
        BY <1>1
    <2>2. \A i \in 1 .. n : C[1 .. i] = DiffStep(C[1 .. (i - 1)], cs[i], level, skills)
        <3> TAKE i \in 1 .. n
        <3>1. /\ 1 .. i \in SUBSET DOMAIN cs
              /\ 1 .. i # {}
              /\ Max(1 .. i) = i
              /\ (1 .. i) \ {Max(1 .. i)} = 1 .. (i - 1)
            BY <1>1, UpTo
        <3> QED
            BY <1>5, <3>1
    <2>3. \A i \in 1 .. n : i \in 0 .. n /\ i - 1 \in 0 .. n
        BY <1>1
    <2> QED
        BY <1>1, <1>5, <2>1, <2>2, <2>3
<1>7. ApplyDiffs(doc, changes, level, skills) = h[n]
    <2>1. ApplyDiffs(doc, changes, level, skills) = C[DOMAIN cs]
        BY DEF ApplyDiffs, FoldLeft, MapThenFoldSet, DiffStep, cs
    <2>2. n \in 0 .. n
        BY <1>1
    <2> HIDE DEF C
    <2> QED
        BY <1>1, <2>1, <2>2
<1> HIDE DEF h
<1>8. DiffRun(h, doc, cs, level, skills)
    BY <1>6 DEF DiffRun, n
<1>9. \A i \in 0 .. n : h[i] \in X
    <2>1. h[0] \in X
        BY <1>2, <1>6
    <2>2. \A i \in 1 .. n : h[i - 1] \in X => h[i] \in X
        BY <1>1, <1>6, DiffStepType
    <2> HIDE DEF X
    <2> QED
        BY <1>1, <2>1, <2>2, RunStays
<1> QED
    BY <1>7, <1>8, <1>9 DEF cs, n

\* The texts a list of changes proposes.
ProposedTexts(changes) == UNION {TextsOf(changes[j].value) : j \in DOMAIN changes}

\* Applying changes to a resume brings in only texts of the changes, field by field.
LEMMA ApplyDiffsAddsProposed ==
    ASSUME NEW D, NEW doc \in [D -> Value], NEW changes \in Seq(Change), NEW level, NEW skills
    PROVE  LET after == ApplyDiffs(doc, changes, level, skills).doc
           IN  /\ after \in [D -> Value]
               /\ \A f \in D : TextsOf(after[f]) \subseteq TextsOf(doc[f]) \cup ProposedTexts(changes)
<1> DEFINE cs == ExpandAll(changes)
           n == Len(cs)
           Proposed == ProposedTexts(changes)
<1>1. PICK h : /\ DiffRun(h, doc, cs, level, skills)
               /\ \A i \in 0 .. n : h[i] \in Results(D)
               /\ ApplyDiffs(doc, changes, level, skills) = h[n]
    BY ApplyDiffsRuns
<1>2. /\ cs \in Seq(Change)
      /\ \A i \in DOMAIN cs : TextsOf(cs[i].value) \subseteq Proposed
    <2>1. cs \in Seq(Change)
        BY ExpandAllProposes
    <2>2. \A i \in DOMAIN cs : \E j \in DOMAIN changes :
              TextsOf(cs[i].value) \subseteq TextsOf(changes[j].value)
        BY ExpandAllProposes
    <2> HIDE DEF cs
    <2> QED
        BY <2>1, <2>2 DEF ProposedTexts
<1> HIDE DEF cs, Proposed
<1>3. n \in Nat /\ \A i \in 1 .. n : cs[i] \in Change /\ TextsOf(cs[i].value) \subseteq Proposed
    BY <1>2
<1> DEFINE good == {i \in 0 .. n : \A f \in D :
                      TextsOf(h[i].doc[f]) \subseteq TextsOf(doc[f]) \cup Proposed}
<1>4. 0 \in good
    BY <1>1, <1>3 DEF DiffRun
<1>5. ASSUME NEW i \in 1 .. n, i - 1 \in good
      PROVE  i \in good
    <2> DEFINE b == h[i - 1].doc
               r == ApplyChange(b, cs[i], level, skills)
    <2>1. i \in 0 .. n /\ i - 1 \in 0 .. n
        BY <1>3
    <2>2. b \in [D -> Value] /\ cs[i] \in Change
        BY <1>1, <1>3, <2>1 DEF Results
    <2>3. ChangeOutcome(b, cs[i], level, skills, r)
        <3> HIDE DEF b
        <3> QED
            BY <2>2, ApplyChangeEdits
    <2>4. h[i].doc = r.doc
        <3>1. h[i] = DiffStep(h[i - 1], cs[i], level, skills)
            BY <1>1 DEF DiffRun, n
        <3> QED
            BY <3>1 DEF DiffStep
    <2>5. \A f \in D : TextsOf(b[f]) \subseteq TextsOf(doc[f]) \cup Proposed
        BY <1>5
    <2> HIDE DEF b, r, n
    <2>6. \A f \in D : TextsOf(r.doc[f]) \subseteq TextsOf(b[f]) \cup Proposed
        BY <1>3, <2>2, <2>3 DEF ChangeOutcome, Edits
    <2> QED
        BY <2>1, <2>4, <2>5, <2>6
<1>6. n \in good
    <2> HIDE DEF good, n
    <2> QED
        BY <1>3, <1>4, <1>5, StepsUp
<1>7. h[n].doc \in [D -> Value]
    BY <1>1, <1>6 DEF Results
<1> QED
    BY <1>1, <1>6, <1>7 DEF Proposed

\* Validating a resume brings in no text.
LEMMA ValidateAddsNothing ==
    ASSUME NEW D, NEW doc \in [D -> Value]
    PROVE  /\ ValidateResume(doc) \in [D -> Value]
           /\ \A f \in D : TextsOf(ValidateResume(doc)[f]) \subseteq TextsOf(doc[f])
<1> SUFFICES ASSUME NEW f \in D
             PROVE  /\ Coerce(f, doc[f]) \in Value
                    /\ TextsOf(Coerce(f, doc[f])) \subseteq TextsOf(doc[f])
    BY DEF ValidateResume
<1> DEFINE v == doc[f]
<1>1. \A s \in Seq(Seq(Word)) :
        /\ NonEmptyItems(s) \in Seq(Seq(Word))
        /\ ToSet(NonEmptyItems(s)) \subseteq ToSet(s)
    <2> TAKE s \in Seq(Seq(Word))
    <2> DEFINE I == {i \in DOMAIN s : s[i] # <<>>}
    <2>1. NonEmptyItems(s) = ItemsAt(s, I)
        BY DEF NonEmptyItems
    <2> HIDE DEF I
    <2>2. ItemsAt(s, I) \in Seq(Seq(Word)) /\ ToSet(ItemsAt(s, I)) = {s[i] : i \in DOMAIN s \cap I}
        BY ItemsAtMembers
    <2> QED
        BY <2>1, <2>2 DEF ToSet
<1>2. \A s \in Seq(Seq(Word)) :
        /\ List(NonEmptyItems(s)) \in Value
        /\ TextsOf(List(NonEmptyItems(s))) \subseteq ToSet(s)
    <2> TAKE s \in Seq(Seq(Word))
    <2> DEFINE k == NonEmptyItems(s)
    <2>1. k \in Seq(Seq(Word)) /\ ToSet(k) \subseteq ToSet(s)
        BY <1>1
    <2> HIDE DEF k
    <2>2. List(k) \in Value /\ IsList(List(k)) /\ List(k).items = k /\ ~IsText(List(k))
        BY <2>1, ValuesMade
    <2> QED
        BY <2>1, <2>2 DEF TextsOf, k
<1>3. v \in Value
    OBVIOUS
<1> HIDE DEF v
<1>4. CASE IsListField(f) /\ IsText(v)
    <2>1. v.words \in Seq(Word) /\ <<v.words>> \in Seq(Seq(Word)) /\ ToSet(<<v.words>>) = {v.words}
        BY <1>3, <1>4, ValueForms DEF ToSet
    <2>2. Coerce(f, v) = List(NonEmptyItems(<<v.words>>)) /\ TextsOf(v) = {v.words}
        BY <1>3, <1>4, ValueForms DEF Coerce, TextsOf
    <2> QED
        BY <1>2, <2>1, <2>2 DEF v
<1>5. CASE IsListField(f) /\ IsList(v)
    <2>1. v.items \in Seq(Seq(Word)) /\ ~IsText(v) /\ v # Null
        BY <1>3, <1>5, ValueForms
    <2>2. Coerce(f, v) = List(NonEmptyItems(v.items)) /\ TextsOf(v) = ToSet(v.items)
        BY <1>5, <2>1 DEF Coerce, TextsOf
    <2> QED
        BY <1>2, <2>1, <2>2 DEF v
<1>6. CASE IsListField(f) /\ v = Null
    <2>1. Coerce(f, v) = List(<<>>)
        BY <1>3, <1>6, ValueForms DEF Coerce
    <2>2. <<>> \in Seq(Seq(Word)) /\ ToSet(<<>>) = {}
        BY DEF ToSet
    <2>3. List(<<>>) \in Value /\ TextsOf(List(<<>>)) = {}
        BY <2>2, ValuesMade DEF TextsOf
    <2> QED
        BY <2>1, <2>3 DEF v
<1>7. CASE ~IsListField(f)
    <2>1. Coerce(f, v) \in {v, Null}
        BY <1>7 DEF Coerce
    <2>2. Null \in Value /\ TextsOf(Null) = {}
        BY ValuesMade, ValueForms DEF TextsOf
    <2> QED
        BY <1>3, <2>1, <2>2 DEF v
<1>8. IsListField(f) => IsText(v) \/ IsList(v) \/ v = Null
    BY <1>3 DEF Value, IsText, IsList
<1> QED
    BY <1>4, <1>5, <1>6, <1>7, <1>8

\* A validated resume is valid: validating it again changes nothing.
LEMMA ValidateTwice ==
    ASSUME NEW D, NEW doc \in [D -> Value]
    PROVE  ValidateResume(ValidateResume(doc)) = ValidateResume(doc)
<1>1. \A s \in Seq(Seq(Word)) :
        /\ NonEmptyItems(s) \in Seq(Seq(Word))
        /\ NonEmptyItems(NonEmptyItems(s)) = NonEmptyItems(s)
    <2> TAKE s \in Seq(Seq(Word))
    <2> DEFINE I == {i \in DOMAIN s : s[i] # <<>>}
               k == NonEmptyItems(s)
               J == {i \in DOMAIN k : k[i] # <<>>}
    <2>1. k = ItemsAt(s, I) /\ NonEmptyItems(k) = ItemsAt(k, J)
        BY DEF NonEmptyItems
    <2>2. \A i \in I : s[i] # <<>>
        OBVIOUS
    <2> HIDE DEF I, k
    <2>3. k \in Seq(Seq(Word)) /\ ToSet(k) = {s[i] : i \in DOMAIN s \cap I}
        BY <2>1, ItemsAtMembers
    <2>4. DOMAIN k \subseteq J
        BY <2>2, <2>3 DEF ToSet
    <2> HIDE DEF J
    <2>5. ItemsAt(k, J) = k
        BY <2>3, <2>4, ItemsAtAll
    <2> QED
        BY <2>1, <2>3, <2>5 DEF k
<1>2. ASSUME NEW f \in D
      PROVE  Coerce(f, Coerce(f, doc[f])) = Coerce(f, doc[f])
    <2> DEFINE v == doc[f]
    <2>1. v \in Value
        OBVIOUS
    <2> HIDE DEF v
    <2>2. ASSUME NEW s \in Seq(Seq(Word)), IsListField(f), Coerce(f, v) = List(NonEmptyItems(s))
          PROVE  Coerce(f, Coerce(f, v)) = Coerce(f, v)
        <3> DEFINE k == NonEmptyItems(s)
        <3>1. k \in Seq(Seq(Word)) /\ NonEmptyItems(k) = k
            BY <1>1
        <3> HIDE DEF k
        <3>2. IsList(List(k)) /\ List(k).items = k /\ ~IsText(List(k))
            BY <3>1, ValuesMade
        <3>3. Coerce(f, List(k)) = List(NonEmptyItems(k))
            BY <2>2, <3>2, ValueForms, ValuesMade DEF Coerce, Null, IsList
        <3> QED
            BY <2>2, <3>1, <3>3 DEF k
    <2>3. CASE IsListField(f) /\ IsText(v)
        <3>1. v.words \in Seq(Word)
            BY <2>1, <2>3, ValueForms
        <3>2. <<v.words>> \in Seq(Seq(Word))
            BY <3>1
        <3>3. Coerce(f, v) = List(NonEmptyItems(<<v.words>>))
            BY <2>1, <2>3, ValueForms DEF Coerce
        <3> QED
            BY <2>2, <2>3, <3>2, <3>3 DEF v
    <2>4. CASE IsListField(f) /\ IsList(v)
        <3>1. v.items \in Seq(Seq(Word)) /\ ~IsText(v) /\ v # Null
            BY <2>1, <2>4, ValueForms
        <3>2. Coerce(f, v) = List(NonEmptyItems(v.items))
            BY <2>4, <3>1 DEF Coerce
        <3> QED
            BY <2>2, <2>4, <3>1, <3>2 DEF v
    <2>5. CASE IsListField(f) /\ v = Null
        <3>1. Coerce(f, v) = List(<<>>)
            BY <2>1, <2>5, ValueForms DEF Coerce
        <3>2. <<>> \in Seq(Seq(Word)) /\ NonEmptyItems(<<>>) = <<>>
            <4>1. <<>> \in Seq(Seq(Word)) /\ DOMAIN <<>> = {}
                OBVIOUS
            <4>2. \A I : ItemsAt(<<>>, I) = <<>>
                BY <4>1, ItemsAtAll
            <4> QED
                BY <4>1, <4>2 DEF NonEmptyItems
        <3> QED
            BY <2>2, <2>5, <3>1, <3>2 DEF v
    <2>6. CASE ~IsListField(f)
        <3>1. Null # Text(<<>>)
            <4>1. <<>> \in Seq(Word)
                OBVIOUS
            <4>2. IsText(Text(<<>>)) /\ Null \in Value
                BY <4>1, ValuesMade
            <4> QED
                BY <4>2, ValueForms
        <3>2. \A x : Coerce(f, x) = IF FieldClass[f] = "education" /\ x = Text(<<>>) THEN Null ELSE x
            BY <2>6 DEF Coerce
        <3> QED
            BY <3>1, <3>2
    <2>7. IsText(v) \/ IsList(v) \/ v = Null
        BY <2>1 DEF Value, IsText, IsList
    <2> QED
        BY <2>3, <2>4, <2>5, <2>6, <2>7 DEF v
<1> DEFINE once == ValidateResume(doc)
<1>3. DOMAIN once = D /\ \A f \in D : once[f] = Coerce(f, doc[f])
    BY DEF ValidateResume
<1>4. once = [f \in D |-> once[f]]
    BY <1>3 DEF ValidateResume
<1> HIDE DEF once
<1>5. ValidateResume(once) = [f \in D |-> once[f]]
    BY <1>2, <1>3 DEF ValidateResume
<1> QED
    BY <1>4, <1>5 DEF once

-----------------------------------------------------------------------------
(* Freedom.                                                                 *)

\* A path one level allows is allowed by every higher one.
LEMMA AllowedAtHigherLevels ==
    ASSUME NEW path, path.field \in Field, NEW low \in Int, NEW high \in Int, low <= high,
           PolicyReason(path, low) = "allowed"
    PROVE  PolicyReason(path, high) = "allowed"
<1>1. ~IsPathBlocked(path) /\ IsPathAllowed(path)
    BY DEF PolicyReason
<1>2. ~(UnlockLevel[ClassOf(path)] > ClampFreedom(low))
    BY <1>1 DEF PolicyReason
<1>3. UnlockLevel[ClassOf(path)] \in Int
    <2>1. ClassOf(path) \in {"skills", "lists", "experience", "summary", "education"}
        BY <1>1 DEF IsPathAllowed
    <2> QED
        BY <2>1 DEF UnlockLevel
<1>4. /\ ClampFreedom(low) \in Int /\ ClampFreedom(high) \in Int
      /\ ClampFreedom(low) <= ClampFreedom(high)
    BY DEF ClampFreedom, FreedomMin, FreedomMax
<1>5. ~(UnlockLevel[ClassOf(path)] > ClampFreedom(high))
    BY <1>2, <1>3, <1>4
<1> QED
    BY <1>1, <1>5 DEF PolicyReason

\* Once something is refused it stays so: if nothing is at the end, no step was.
LEMMA NothingRefused ==
    ASSUME NEW D, NEW cs \in Seq(Change), NEW level, NEW skills, NEW doc, NEW g,
           DiffRun(g, doc, cs, level, skills),
           \A i \in 0 .. Len(cs) : g[i] \in Results(D),
           g[Len(cs)].rejected = <<>>
    PROVE  \A i \in 1 .. Len(cs) :
               LET r == ApplyChange(g[i - 1].doc, cs[i], level, skills)
               IN  r.reason = "allowed" /\ g[i].doc = r.doc
<1> DEFINE n == Len(cs)
<1>1. DiffRun(g, doc, cs, level, skills) /\ \A i \in 0 .. n : g[i] \in Results(D)
    OBVIOUS
<1>4. n \in Nat /\ \A i \in 1 .. n : cs[i] \in Change
    OBVIOUS
<1>5. \A i \in 1 .. n : g[i].rejected = <<>> => g[i - 1].rejected = <<>> /\
          ApplyChange(g[i - 1].doc, cs[i], level, skills).reason = "allowed"
    <2> TAKE i \in 1 .. n
    <2> DEFINE r == ApplyChange(g[i - 1].doc, cs[i], level, skills)
    <2>1. g[i].rejected = IF r.reason = "allowed" THEN g[i - 1].rejected
                          ELSE Append(g[i - 1].rejected, r.reason)
        <3>1. g[i] = DiffStep(g[i - 1], cs[i], level, skills)
            BY <1>1 DEF DiffRun
        <3> QED
            BY <3>1 DEF DiffStep
    <2>2. i - 1 \in 0 .. n
        BY <1>4
    <2>3. g[i - 1].rejected \in Seq(Reason) /\ g[i - 1].doc \in [D -> Value] /\ cs[i] \in Change
        BY <1>1, <1>4, <2>2 DEF Results
    <2>4. r.reason \in Reason
        <3>1. ChangeOutcome(g[i - 1].doc, cs[i], level, skills, r)
            BY <2>3, ApplyChangeEdits
        <3> QED
            BY <3>1 DEF ChangeOutcome, Reason
    <2> HIDE DEF r
    <2>5. Append(g[i - 1].rejected, r.reason) # <<>>
        <3>1. \A s \in Seq(Reason), x \in Reason : Append(s, x) # <<>>
            OBVIOUS
        <3> QED
            BY <2>3, <2>4, <3>1
    <2> QED
        BY <2>1, <2>5 DEF r
<1>6. \A i \in 0 .. n : g[i].rejected = <<>>
    <2> DEFINE Back(j) == n - j
               good == {j \in 0 .. n : g[Back(j)].rejected = <<>>}
               k == [j \in 0 .. n |-> j]
    <2>1. k[0] \in good
        BY <1>1, <1>4
    <2>2. \A j \in 1 .. n : k[j - 1] \in good => k[j] \in good
        <3> TAKE j \in 1 .. n
        <3> HAVE k[j - 1] \in good
        <3>1. n - (j - 1) \in 1 .. n /\ (n - (j - 1)) - 1 = n - j /\ j \in 0 .. n
            BY <1>4
        <3>2. g[n - (j - 1)].rejected = <<>>
            BY <1>4
        <3>3. g[n - j].rejected = <<>>
            BY <1>5, <3>1, <3>2
        <3> QED
            BY <3>1, <3>3
    <2>3. \A j \in 0 .. n : k[j] \in good
        <3> HIDE DEF good, k, n
        <3> QED
            BY <1>4, <2>1, <2>2, RunStays
    <2> TAKE i \in 0 .. n
    <2>4. n - i \in 0 .. n /\ n - (n - i) = i
        BY <1>4
    <2> QED
        BY <2>3, <2>4
<1>7. ASSUME NEW i \in 1 .. n
      PROVE  g[i].doc = ApplyChange(g[i - 1].doc, cs[i], level, skills).doc
    <2>1. g[i] = DiffStep(g[i - 1], cs[i], level, skills)
        BY <1>1 DEF DiffRun
    <2> QED
        BY <2>1 DEF DiffStep
<1>8. \A i \in 1 .. n : ApplyChange(g[i - 1].doc, cs[i], level, skills).reason = "allowed"
    <2> TAKE i \in 1 .. n
    <2>1. i \in 0 .. n
        BY <1>4
    <2> QED
        BY <1>5, <1>6, <2>1
<1> QED
    BY <1>7, <1>8

\* A list of changes none of which is refused gives the same at every higher level.
LEMMA HigherLevelsAgree ==
    ASSUME NEW D, NEW doc \in [D -> Value], NEW changes \in Seq(Change), NEW skills,
           NEW low \in Int, NEW high \in Int, low <= high,
           ApplyDiffs(doc, changes, low, skills).rejected = <<>>
    PROVE  ApplyDiffs(doc, changes, high, skills) = ApplyDiffs(doc, changes, low, skills)
<1> DEFINE cs == ExpandAll(changes)
           n == Len(cs)
<1>1. PICK g : /\ DiffRun(g, doc, cs, low, skills)
               /\ \A i \in 0 .. n : g[i] \in Results(D)
               /\ ApplyDiffs(doc, changes, low, skills) = g[n]
    BY ApplyDiffsRuns
<1>2. PICK h : /\ DiffRun(h, doc, cs, high, skills)
               /\ ApplyDiffs(doc, changes, high, skills) = h[n]
    BY ApplyDiffsRuns
<1>3. cs \in Seq(Change)
    BY ExpandAllProposes
<1> HIDE DEF cs
<1>4. n \in Nat /\ \A i \in 1 .. n : cs[i] \in Change
    BY <1>3
<1>5. \A i \in 1 .. n : ApplyChange(g[i - 1].doc, cs[i], low, skills).reason = "allowed"
    <2>1. g[n].rejected = <<>>
        BY <1>1
    <2> QED
        BY <1>1, <1>3, <2>1, NothingRefused
<1>7. g[0] = h[0]
    BY <1>1, <1>2 DEF DiffRun
<1>8. \A i \in 1 .. n : g[i - 1] = h[i - 1] => g[i] = h[i]
    <2> TAKE i \in 1 .. n
    <2> HAVE g[i - 1] = h[i - 1]
    <2> DEFINE b == g[i - 1].doc
    <2>1. i \in 0 .. n
        BY <1>4
    <2>2. ApplyChange(b, cs[i], low, skills).reason = "allowed"
        BY <1>5, <2>1
    <2>3. b \in [D -> Value] /\ cs[i] \in Change
        <3>1. i - 1 \in 0 .. n
            BY <1>4
        <3> QED
            BY <1>1, <1>4, <3>1 DEF Results
    <2>4. ChangeOutcome(b, cs[i], low, skills, ApplyChange(b, cs[i], low, skills))
        <3> HIDE DEF b
        <3> QED
            BY <2>3, ApplyChangeEdits
    <2>5. PolicyReason(cs[i].path, low) = "allowed"
        BY <2>2, <2>4 DEF ChangeOutcome
    <2>6. PolicyReason(cs[i].path, high) = "allowed"
        <3>1. cs[i].path.field \in Field
            BY <2>3 DEF Change
        <3> QED
            BY <2>5, <3>1, AllowedAtHigherLevels
    <2>7. ApplyChange(b, cs[i], low, skills) = ApplyChange(b, cs[i], high, skills)
        <3> HIDE DEF b
        <3> QED
            BY <2>5, <2>6 DEF ApplyChange
    <2>8. DiffStep(g[i - 1], cs[i], low, skills) = DiffStep(g[i - 1], cs[i], high, skills)
        BY <2>7 DEF DiffStep
    <2> QED
        BY <1>1, <1>2, <2>8 DEF DiffRun
<1>9. g[n] = h[n]
    <2> HIDE DEF n
    <2> QED
        BY <1>4, <1>7, <1>8, RunsAgree
<1> QED
    BY <1>1, <1>2, <1>9

-----------------------------------------------------------------------------
(* The cursor of a review.                                                  *)

\* A non-empty set of naturals has the least element that Least chooses.
LEMMA LeastOfNaturals ==
    ASSUME NEW S \in SUBSET Nat, S # {}
    PROVE  /\ Least(S) \in S
           /\ \A n \in S : Least(S) <= n
<1> DEFINE Lt == {p \in Nat \X Nat : p[1] < p[2]}
<1>1. IsWellFoundedOn(Lt, Nat)
    BY NatLessThanWellFounded DEF OpToRel
<1>2. PICK x \in S : \A y \in S : ~(<<y, x>> \in Lt)
    BY <1>1, WFMin
<1>3. \A y \in S : y < x => <<y, x>> \in Lt
    OBVIOUS
<1>4. \A y \in S : ~(y < x)
    BY <1>2, <1>3
<1>5. \A y \in S : x <= y
    BY <1>4
<1> QED
    BY <1>5 DEF Least

\* A section with a change has a first one, which FirstKey returns.
LEMMA FirstKeyOfSection ==
    ASSUME NEW changes, NEW n \in Nat, Keys(changes) = 1 .. n, NEW k \in Keys(changes)
    PROVE  LET f == FirstKey(changes, KeySection(changes, k))
           IN  /\ f \in Keys(changes)
               /\ KeySection(changes, f) = KeySection(changes, k)
               /\ OpensSection(changes, f)
               /\ f <= k
<1> DEFINE S == {j \in Keys(changes) : KeySection(changes, j) = KeySection(changes, k)}
<1>1. /\ Least(S) \in S
      /\ \A j \in S : Least(S) <= j
    BY LeastOfNaturals
<1>2. /\ Least(S) \in Keys(changes)
      /\ KeySection(changes, Least(S)) = KeySection(changes, k)
      /\ OpensSection(changes, Least(S))
    BY <1>1 DEF OpensSection
<1>3. /\ FirstKey(changes, KeySection(changes, k)) \in Keys(changes)
      /\ KeySection(changes, FirstKey(changes, KeySection(changes, k))) = KeySection(changes, k)
      /\ OpensSection(changes, FirstKey(changes, KeySection(changes, k)))
    BY <1>2 DEF FirstKey
<1>4. FirstKey(changes, KeySection(changes, k)) <= k
    BY <1>3 DEF OpensSection
<1> QED
    BY <1>3, <1>4

\* The first change of a section is the first change of its section.
LEMMA FirstKeyOfOpener ==
    ASSUME NEW changes, NEW n \in Nat, Keys(changes) = 1 .. n,
           NEW k \in Keys(changes), OpensSection(changes, k)
    PROVE  FirstKey(changes, KeySection(changes, k)) = k
<1> DEFINE f == FirstKey(changes, KeySection(changes, k))
<1>1. /\ f \in Keys(changes)
      /\ KeySection(changes, f) = KeySection(changes, k)
      /\ f <= k
    BY FirstKeyOfSection
<1>2. k <= f
    BY <1>1 DEF OpensSection
<1> QED
    BY <1>1, <1>2

\* A decision is correlated with a change of its own section that has none.
LEMMA KeyForStaysInSection ==
    ASSUME NEW changes, NEW n \in Nat, Keys(changes) = 1 .. n, NEW target, NEW excluded
    PROVE  \A k \in KeyFor(changes, target, excluded) :
               /\ k \in Keys(changes) \ excluded
               /\ KeySection(changes, k) = SectionOf(target)
<1> DEFINE free  == Keys(changes) \ excluded
           equal == {k \in free : changes[k] = target}
           slot  == {k \in free : SameSlot(changes[k], target)}
<1>1. equal \in SUBSET Nat /\ slot \in SUBSET Nat
    OBVIOUS
<1>2. equal # {} => Least(equal) \in equal
    BY <1>1, LeastOfNaturals
<1>3. slot # {} => Least(slot) \in slot
    BY <1>1, LeastOfNaturals
<1>4. \A k \in KeyFor(changes, target, excluded) : k \in equal \/ k \in slot
    BY <1>2, <1>3 DEF KeyFor
<1>5. \A k \in equal \cup slot : KeySection(changes, k) = SectionOf(target)
    BY DEF SameSlot, KeySection, SectionOf
<1> QED
    BY <1>4, <1>5

\* Advancing from a section that is decided, after everything before it, leaves
\* no change behind and reaches a section that has none decided yet.
LEMMA NextSectionKeepsReview ==
    ASSUME NEW changes, NEW n \in Nat, Keys(changes) = 1 .. n,
           NEW logged \in SUBSET Keys(changes), NEW k \in Keys(changes),
           NEW cursor, cursor = KeySection(changes, k), cursor # NoSection,
           ~HasUndecided(changes, logged, cursor),
           NothingSkipped(changes, logged, cursor),
           DecidedBehind(changes, logged, cursor),
           \A j \in Keys(changes) : KeySection(changes, j) # NoSection
    PROVE  LET next == NextSection(changes, cursor)
           IN  /\ NothingSkipped(changes, logged, next)
               /\ DecidedBehind(changes, logged, next)
               /\ Answerable(changes, logged, next)
<1> DEFINE here  == FirstKey(changes, cursor)
           First(j) == FirstKey(changes, KeySection(changes, j))
           later == LaterOpeners(changes, cursor)
           next  == NextSection(changes, cursor)
<1>1. \A j \in Keys(changes) :
        /\ First(j) \in Keys(changes)
        /\ KeySection(changes, First(j)) = KeySection(changes, j)
        /\ OpensSection(changes, First(j))
    BY FirstKeyOfSection
<1>2. /\ here \in Keys(changes)
      /\ KeySection(changes, here) = cursor
    BY <1>1
<1>3. \A j \in Keys(changes) \ logged : First(j) \in later
    <2> SUFFICES ASSUME NEW j \in Keys(changes) \ logged
                 PROVE  First(j) \in later
        OBVIOUS
    <2>1. KeySection(changes, j) # cursor
        BY DEF HasUndecided
    <2>2. here <= First(j)
        BY DEF NothingSkipped
    <2>3. here # First(j)
        BY <1>1, <1>2, <2>1
    <2>4. First(j) > here
        BY <1>1, <1>2, <2>2, <2>3
    <2> QED
        BY <1>1, <2>4 DEF LaterOpeners
<1>4. CASE later = {}
    <2>1. next = NoSection
        BY <1>4 DEF NextSection
    <2>2. Keys(changes) \ logged = {}
        BY <1>3, <1>4
    <2> QED
        BY <2>1, <2>2 DEF NothingSkipped, DecidedBehind, Answerable
<1>5. CASE later # {}
    <2> DEFINE m == Least(later)
    <2>1. later \in SUBSET Nat
        BY DEF LaterOpeners
    <2>2. m \in later /\ \A j \in later : m <= j
        BY <1>5, <2>1, LeastOfNaturals
    <2>3. /\ m \in Keys(changes)
          /\ OpensSection(changes, m)
          /\ m > here
        BY <2>2 DEF LaterOpeners
    <2>4. next = KeySection(changes, m)
        BY <1>5 DEF NextSection
    <2>5. FirstKey(changes, next) = m
        BY <2>3, <2>4, FirstKeyOfOpener
    <2>6. next # NoSection
        BY <2>3, <2>4
    <2>7. NothingSkipped(changes, logged, next)
        BY <1>3, <2>2, <2>5, <2>6 DEF NothingSkipped
    <2>8. \A j \in logged : First(j) <= here
        BY DEF DecidedBehind
    <2>9. \A j \in logged : First(j) < m
        BY <1>1, <1>2, <2>3, <2>8
    <2>10. DecidedBehind(changes, logged, next)
        BY <1>1, <2>3, <2>5, <2>9 DEF DecidedBehind
    <2>11. m \notin logged
        BY <2>3, <2>9, FirstKeyOfOpener
    <2>12. Answerable(changes, logged, next)
        BY <2>3, <2>4, <2>11 DEF Answerable, HasUndecided
    <2> QED
        BY <2>7, <2>10, <2>12
<1> QED
    BY <1>4, <1>5

\* Recording an answer to a change of the current section, then holding the
\* cursor, keeps the review in order.
LEMMA HeldCursorKeepsReview ==
    ASSUME NEW changes, NEW n \in Nat, Keys(changes) = 1 .. n,
           NEW logged \in SUBSET Keys(changes), NEW k \in Keys(changes),
           NEW action \in ReviewAction,
           NEW cursor, cursor = KeySection(changes, k), cursor # NoSection,
           NothingSkipped(changes, logged, cursor),
           DecidedBehind(changes, logged, cursor),
           Answerable(changes, logged, cursor),
           \A j \in Keys(changes) : KeySection(changes, j) # NoSection,
           NEW after,
           after = IF action \in Terminal THEN logged \cup KeyFor(changes, changes[k], logged)
                   ELSE logged
    PROVE  LET held == HeldCursor(changes, after, cursor, action)
           IN  /\ after \in SUBSET Keys(changes)
               /\ NothingSkipped(changes, after, held)
               /\ DecidedBehind(changes, after, held)
               /\ Answerable(changes, after, held)
<1> DEFINE held == HeldCursor(changes, after, cursor, action)
<1>1. \A j \in KeyFor(changes, changes[k], logged) :
        j \in Keys(changes) /\ KeySection(changes, j) = cursor
    BY KeyForStaysInSection DEF KeySection
<1>2. after \in SUBSET Keys(changes) /\ logged \subseteq after
    BY <1>1
<1>3. NothingSkipped(changes, after, cursor)
    BY <1>2 DEF NothingSkipped
<1>4. DecidedBehind(changes, after, cursor)
    <2>1. \A j \in after : j \in logged \/ KeySection(changes, j) = cursor
        BY <1>1
    <2>2. FirstKey(changes, cursor) \in Nat
        BY FirstKeyOfSection
    <2> QED
        BY <2>1, <2>2 DEF DecidedBehind
<1>5. CASE action \in Terminal /\ HasUndecided(changes, after, cursor)
    <2>1. held = cursor
        BY <1>5 DEF HeldCursor
    <2> QED
        BY <1>2, <1>3, <1>4, <1>5, <2>1 DEF Answerable
<1>6. CASE action \in Terminal /\ ~HasUndecided(changes, after, cursor)
    <2>1. held = NextSection(changes, cursor)
        BY <1>6 DEF HeldCursor, AdvancedCursor
    <2> QED
        BY <1>2, <1>3, <1>4, <1>6, <2>1, NextSectionKeepsReview
<1>7. CASE action \notin Terminal
    <2>1. held = cursor /\ after = logged
        BY <1>7 DEF HeldCursor, AdvancedCursor
    <2> QED
        BY <2>1
<1> QED
    BY <1>5, <1>6, <1>7

\* A new review starts in order.
LEMMA InitialCursorStartsReview ==
    ASSUME NEW changes, NEW n \in Nat, Keys(changes) = 1 .. n, changes = <<>> <=> n = 0,
           \A j \in Keys(changes) : KeySection(changes, j) # NoSection
    PROVE  LET cursor == InitialCursor(changes)
           IN  /\ NothingSkipped(changes, {}, cursor)
               /\ DecidedBehind(changes, {}, cursor)
               /\ Answerable(changes, {}, cursor)
<1> DEFINE cursor == InitialCursor(changes)
<1>1. DecidedBehind(changes, {}, cursor)
    BY DEF DecidedBehind
<1>2. CASE n = 0
    <2>1. cursor = NoSection /\ Keys(changes) = {}
        BY <1>2 DEF InitialCursor, FirstSection
    <2> QED
        BY <1>1, <2>1 DEF NothingSkipped, Answerable
<1>3. CASE n # 0
    <2>1. 1 \in Keys(changes) /\ OpensSection(changes, 1)
        BY <1>3 DEF OpensSection
    <2>2. cursor = KeySection(changes, 1) /\ cursor # NoSection
        BY <1>3, <2>1 DEF InitialCursor, FirstSection
    <2>3. FirstKey(changes, cursor) = 1
        BY <2>1, <2>2, FirstKeyOfOpener
    <2>4. \A j \in Keys(changes) : 1 <= FirstKey(changes, KeySection(changes, j))
        BY FirstKeyOfSection
    <2>5. NothingSkipped(changes, {}, cursor)
        BY <2>2, <2>3, <2>4 DEF NothingSkipped
    <2>6. Answerable(changes, {}, cursor)
        BY <2>1, <2>2 DEF Answerable, HasUndecided
    <2> QED
        BY <1>1, <2>5, <2>6
<1> QED
    BY <1>2, <1>3

\* What one decision adds to the keys settled before it.
Settling(changes, keys, d) ==
    IF d.action \in Terminal THEN keys \cup KeyFor(changes, d.change, keys) ELSE keys

\* h is the run of _terminal_decision_keys over n decisions.
SettlingRun(h, changes, decisions, n) ==
    /\ h[0] = {}
    /\ \A i \in 1 .. n : h[i] = Settling(changes, h[i - 1], decisions[i])

LEMMA TerminalKeysRun ==
    ASSUME NEW n \in Nat, NEW m \in Nat, NEW changes, Keys(changes) = 1 .. m,
           NEW decisions, DOMAIN decisions = 1 .. n
    PROVE  \E h : /\ SettlingRun(h, changes, decisions, n)
                  /\ TerminalKeys(changes, decisions) = h[n]
<1> DEFINE X == SUBSET Keys(changes)
           Op(keys, d) == Settling(changes, keys, d)
           F == [p \in X \X (1 .. n) |-> Op(p[1], decisions[p[2]])]
           Folds(f) == f = [s \in SUBSET DOMAIN decisions |->
                            IF s = {} THEN {} ELSE Op(f[s \ {Max(s)}], decisions[Max(s)])]
           C == CHOOSE f : Folds(f)
<1>1. \A keys \in X, i \in 1 .. n : Op(keys, decisions[i]) \in X
    BY KeyForStaysInSection DEF Settling
<1>2. F \in [X \X (1 .. n) -> X] /\ {} \in X
    BY <1>1
<1>3. PICK f : RecursesOver(f, n, X, {}, F)
    <2> HIDE DEF F, X
    <2> QED
        BY <1>2, FoldRecursion
<1>4. /\ f \in [SUBSET (1 .. n) -> X]
      /\ \A s \in SUBSET (1 .. n) :
             f[s] = IF s = {} THEN {} ELSE F[<<f[s \ {Max(s)}], Max(s)>>]
    <2> HIDE DEF F, X
    <2> QED
        BY <1>3 DEF RecursesOver
<1>5. \A s \in SUBSET (1 .. n) : s # {} =>
          f[s] = Op(f[s \ {Max(s)}], decisions[Max(s)])
    <2> TAKE s \in SUBSET (1 .. n)
    <2> HAVE s # {}
    <2>1. Max(s) \in 1 .. n
        BY MaxOfIndexes
    <2>2. f[s \ {Max(s)}] \in X
        BY <1>4
    <2> HIDE DEF Op
    <2> QED
        BY <1>4, <2>1, <2>2
<1>6. Folds(f)
    <2> HIDE DEF Op
    <2>1. f = [s \in SUBSET (1 .. n) |-> f[s]]
        BY <1>4
    <2>2. \A s \in SUBSET (1 .. n) : f[s] = IF s = {} THEN {} ELSE Op(f[s \ {Max(s)}], decisions[Max(s)])
        BY <1>4, <1>5
    <2> QED
        BY <2>1, <2>2
<1>7. Folds(C)
    <2> HIDE DEF Folds
    <2> QED BY <1>6
<1> DEFINE h == [i \in 0 .. n |-> C[1 .. i]]
<1>8. h[0] = {}
    <2>1. 1 .. 0 = {} /\ 0 \in 0 .. n
        OBVIOUS
    <2> HIDE DEF Op, C
    <2> QED
        BY <1>7, <2>1
<1>9. \A i \in 1 .. n : h[i] = Op(h[i - 1], decisions[i])
    <2> TAKE i \in 1 .. n
    <2> HIDE DEF Op, C
    <2>1. C[1 .. i] = Op(C[1 .. (i - 1)], decisions[i])
        BY ZenonT(60), <1>7, UpTo
    <2>2. i \in 0 .. n /\ i - 1 \in 0 .. n
        OBVIOUS
    <2> QED
        BY <2>1, <2>2
<1>10. TerminalKeys(changes, decisions) = C[DOMAIN decisions]
   BY DEF TerminalKeys, FoldLeft, MapThenFoldSet, Settling
<1>11. TerminalKeys(changes, decisions) = h[n]
   BY <1>10
<1> QED
    BY <1>8, <1>9, <1>11 DEF SettlingRun

\* One more decision settles its key after the ones before it.
LEMMA TerminalKeysAppend ==
    ASSUME NEW changes, NEW m \in Nat, Keys(changes) = 1 .. m,
           NEW X, NEW decisions \in Seq(X), NEW d \in X
    PROVE  LET before == TerminalKeys(changes, decisions)
           IN  TerminalKeys(changes, Append(decisions, d)) = Settling(changes, before, d)
<1> DEFINE longer == Append(decisions, d)
           n == Len(decisions)
<1>1. /\ n \in Nat /\ DOMAIN decisions = 1 .. n
      /\ n + 1 \in Nat /\ DOMAIN longer = 1 .. (n + 1)
      /\ \A i \in 1 .. n : longer[i] = decisions[i]
      /\ longer[n + 1] = d
    OBVIOUS
<1> HIDE DEF longer, n
<1>2. PICK g : /\ SettlingRun(g, changes, decisions, n)
               /\ TerminalKeys(changes, decisions) = g[n]
    BY <1>1, TerminalKeysRun
<1>3. PICK h : /\ SettlingRun(h, changes, longer, n + 1)
               /\ TerminalKeys(changes, longer) = h[n + 1]
    BY <1>1, TerminalKeysRun
<1>4. g[0] = h[0] /\ \A i \in 1 .. n : g[i - 1] = h[i - 1] => g[i] = h[i]
    BY <1>1, <1>2, <1>3 DEF SettlingRun
<1>5. g[n] = h[n]
    BY <1>1, <1>4, RunsAgree
<1>6. h[n + 1] = Settling(changes, h[n], d)
    <2>1. n + 1 \in 1 .. (n + 1) /\ (n + 1) - 1 = n
        BY <1>1
    <2> QED
        BY <1>1, <1>3, <2>1 DEF SettlingRun
<1> QED
    BY <1>2, <1>3, <1>5, <1>6 DEF longer


-----------------------------------------------------------------------------
(* The alias file.                                                          *)

\* One mapping has every group of another, at least as large, and loads if it does.
Grows(before, after) ==
    /\ DOMAIN before \subseteq DOMAIN after
    /\ \A c \in DOMAIN before : before[c] \subseteq after[c]
    /\ Unambiguous(Effective(before)) => Unambiguous(Effective(after))

LEMMA GrowsIsReflexive == ASSUME NEW project PROVE Grows(project, project)
    BY DEF Grows

LEMMA GrowsIsTransitive ==
    ASSUME NEW a, NEW b, NEW c, Grows(a, b), Grows(b, c)
    PROVE  Grows(a, c)
<1>1. DOMAIN a \subseteq DOMAIN c /\ \A t \in DOMAIN a : a[t] \subseteq c[t]
    BY DEF Grows
<1>2. Unambiguous(Effective(a)) => Unambiguous(Effective(c))
    BY DEF Grows
<1> QED
    BY <1>1, <1>2 DEF Grows

\* One candidate either leaves the file alone or adds to one of its groups.
LEMMA GrowOneGrows ==
    ASSUME NEW project, NEW cand
    PROVE  Grows(project, GrowOne(project, cand))
<1> DEFINE ofCanon   == CanonicalFor(Effective(project), cand.canonical)
           canonical == IF ofCanon # NoCanonical THEN ofCanon ELSE cand.canonical
           group     == IF canonical \in DOMAIN project THEN project[canonical] ELSE {}
           trial     == [c \in DOMAIN project \cup {canonical} |->
                           IF c = canonical THEN group \cup {cand.alias} ELSE project[c]]
<1>1. \/ GrowOne(project, cand) = project
      \/ GrowOne(project, cand) = trial /\ Unambiguous(Effective(trial))
    BY DEF GrowOne
<1>2. DOMAIN project \subseteq DOMAIN trial /\ \A c \in DOMAIN project : project[c] \subseteq trial[c]
    OBVIOUS
<1>3. Unambiguous(Effective(trial)) => Grows(project, trial)
    BY <1>2 DEF Grows
<1> QED
    BY <1>1, <1>3, GrowsIsReflexive

\* In a loadable index the group a term is in is the only one.
LEMMA CanonicalIsUnique ==
    ASSUME NEW index, Unambiguous(index), NEW c \in DOMAIN index, NEW t \in Members(index, c)
    PROVE  CanonicalFor(index, t) = c
<1>1. \A d \in DOMAIN index : t \in Members(index, d) => d = c
    BY DEF Unambiguous
<1> QED
    BY <1>1 DEF CanonicalFor

LEMMA GrowsKeepsIndex ==
    ASSUME NEW before, NEW after, Grows(before, after)
    PROVE  KeepsIndex(Effective(before), Effective(after))
<1> DEFINE B == Effective(before)
           A == Effective(after)
<1> SUFFICES ASSUME Unambiguous(B)
             PROVE  /\ Unambiguous(A)
                    /\ \A c \in DOMAIN B : \A t \in Members(B, c) :
                          CanonicalFor(A, t) = CanonicalFor(B, t)
    BY DEF KeepsIndex
<1>1. Unambiguous(A)
    BY DEF Grows
<1>2. DOMAIN B \subseteq DOMAIN A /\ \A c \in DOMAIN B : Members(B, c) \subseteq Members(A, c)
    <2>1. /\ DOMAIN before \subseteq DOMAIN after
          /\ \A c \in DOMAIN before : before[c] \subseteq after[c]
        BY DEF Grows
    <2>2. /\ DOMAIN B = DOMAIN Seed \cup DOMAIN before
          /\ DOMAIN A = DOMAIN Seed \cup DOMAIN after
        BY DEF Effective, Merge
    <2>3. \A c \in DOMAIN B : B[c] \subseteq A[c]
        BY <2>1, <2>2 DEF Effective, Merge
    <2> QED
        BY <2>1, <2>2, <2>3 DEF Members
<1>3. ASSUME NEW c \in DOMAIN B, NEW t \in Members(B, c)
      PROVE  CanonicalFor(A, t) = CanonicalFor(B, t)
    <2>1. CanonicalFor(B, t) = c
        BY <1>3, CanonicalIsUnique
    <2>2. CanonicalFor(A, t) = c
        <3>1. c \in DOMAIN A /\ t \in Members(A, c)
            BY <1>2, <1>3
        <3> HIDE DEF A
        <3> QED
            BY <1>1, <3>1, CanonicalIsUnique
    <2> QED
        BY <2>1, <2>2
<1> QED
    BY <1>1, <1>3
=============================================================================
