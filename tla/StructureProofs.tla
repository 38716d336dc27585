-------------------------- MODULE StructureProofs ---------------------------
(***************************************************************************)
(* What the structure and the refine version keep of a resume, for every   *)
(* resume, policy, answer and lexicon of tokens.                           *)
(*                                                                         *)
(* First the transform, from one unit of a line to the whole resume: each  *)
(* step only adds to the ledger, puts every token of what it reads on it,  *)
(* and leaves the ledger true if it was.  Then the gates and the evidence. *)
(* Last the wording pass, bullet by bullet.                                *)
(***************************************************************************)
EXTENDS StructureStage, LoopProofs

-----------------------------------------------------------------------------
(* Ledgers and lists.                                                       *)

Token == UNION {Tokens[p] : p \in Phrase}
Fate  == AllowedFates \cup {"unresolved"}
Path  == ((Field \cup ListKind) \X Nat) \cup (STRING \X Nat \X Nat)
Place == {<<>>} \cup ((Field \cup ListKind) \X Nat)
Entry == [token : Token, fate : Fate, at : Path, target : Place]
Lists == [ListKind -> Seq(Line)]
Build == [out : Lists, ledger : SUBSET Entry]

PlacedFates == {"moved", "deduped"}

\* A word of a range of years that is not in its start date is in its end date, or
\* is one of the words around them.
OfRange(fields, e) ==
    /\ \E f \in DateFields : e.at = <<f, 1>> /\ e.target = <<f, 1>>
    /\ e.token \in LineTokens(fields[e.target[1]][2]) \cup RangeWords

\* The token stands where the entry says, or with the years it was written with.
Stands(fields, out, e) ==
    LET lines == IF e.target[1] \in Field THEN fields[e.target[1]] ELSE out[e.target[1]]
    IN  /\ e.target[2] \in DOMAIN lines
        /\ e.token \in LineTokens(lines[e.target[2]]) \/ OfRange(fields, e)

Truthful(fields, b) == \A e \in b.ledger : e.fate \in PlacedFates => Stands(fields, b.out, e)

\* Every token of the line is on the ledger with the path and one of the fates.
Accounted(ledger, at, line, fates) ==
    \A token \in LineTokens(line) :
        \E e \in ledger : e.at = at /\ e.token = token /\ e.fate \in fates

\* A step of the transform.
Grows(fields, b, c) ==
    /\ c \in Build
    /\ b.ledger \subseteq c.ledger
    /\ Truthful(fields, b) => Truthful(fields, c)

LEMMA GrowsOn ==
    ASSUME NEW fields, NEW a, NEW b, NEW c, Grows(fields, a, b), Grows(fields, b, c)
    PROVE  Grows(fields, a, c)
    BY DEF Grows

LEMMA AccountedOn ==
    ASSUME NEW ledger, NEW more, ledger \subseteq more, NEW at, NEW line, NEW fates, NEW others,
           fates \subseteq others, Accounted(ledger, at, line, fates)
    PROVE  Accounted(more, at, line, others)
    BY DEF Accounted

\* Lines with one key have the same tokens.
LEMMA OneKeyOneContent ==
    ASSUME NEW v \in Line, NEW w \in Line, Key(v) = Key(w)
    PROVE  LineTokens(v) = LineTokens(w)
<1>1. DOMAIN Key(v) = DOMAIN v /\ DOMAIN Key(w) = DOMAIN w
    BY DEF Key
<1>2. DOMAIN v = DOMAIN w
    BY <1>1
<1>3. \A i \in DOMAIN v : v[i] \in Phrase /\ w[i] \in Phrase /\ Casefold[v[i]] = Casefold[w[i]]
    <2> TAKE i \in DOMAIN v
    <2>1. Key(v)[i] = Casefold[v[i]] /\ Key(w)[i] = Casefold[w[i]]
        BY <1>2 DEF Key
    <2>2. v[i] \in Phrase /\ w[i] \in Phrase
        BY <1>2 DEF Line
    <2> QED
        BY <2>1, <2>2
<1>4. \A i \in DOMAIN v : Tokens[v[i]] = Tokens[w[i]]
    BY <1>3, ShapeAssumption
<1> QED
    BY <1>2, <1>4 DEF LineTokens

LEMMA TokensOfLine ==
    ASSUME NEW line \in Line
    PROVE  /\ LineTokens(line) \in SUBSET Token
           /\ LineTokens(line) = {} <=> line = <<>>
<1>1. \A i \in DOMAIN line : line[i] \in Phrase /\ Tokens[line[i]] # {}
    BY ShapeAssumption DEF Line
<1>2. LineTokens(line) \in SUBSET Token
    BY <1>1 DEF LineTokens, Token
<1>3. DOMAIN line = 1 .. Len(line) /\ Len(line) \in Nat
    BY DEF Line
<1>4. line = <<>> => LineTokens(line) = {}
    BY <1>3 DEF LineTokens
<1>5. ASSUME line # <<>> PROVE LineTokens(line) # {}
    <2>1. 1 \in DOMAIN line
        BY <1>3, <1>5 DEF Line
    <2> QED
        BY <1>1, <2>1 DEF LineTokens
<1> QED
    BY <1>2, <1>4, <1>5

\* Entries of one line.
LEMMA EntriesOfLine ==
    ASSUME NEW line \in Line, NEW fate \in Fate, NEW at \in Path, NEW target \in Place
    PROVE  /\ Entries(line, fate, at, target) \in SUBSET Entry
           /\ \A e \in Entries(line, fate, at, target) :
                  /\ e.fate = fate /\ e.at = at /\ e.target = target
                  /\ e.token \in LineTokens(line)
           /\ Accounted(Entries(line, fate, at, target), at, line, {fate})
<1> DEFINE E == Entries(line, fate, at, target)
<1>1. LineTokens(line) \in SUBSET Token
    BY TokensOfLine
<1>2. E = {[token |-> t, fate |-> fate, at |-> at, target |-> target] : t \in LineTokens(line)}
    BY DEF Entries
<1> HIDE DEF E
<1>3. \A e \in E : /\ e.fate = fate /\ e.at = at /\ e.target = target
                    /\ e.token \in LineTokens(line) /\ e \in Entry
    <2> TAKE e \in E
    <2>1. PICK t \in LineTokens(line) :
              e = [token |-> t, fate |-> fate, at |-> at, target |-> target]
        BY <1>2
    <2>2. t \in Token
        BY <1>1
    <2> QED
        BY <2>1, <2>2 DEF Entry
<1>4. Accounted(E, at, line, {fate})
    <2>1. \A t \in LineTokens(line) : \E e \in E : e.at = at /\ e.token = t /\ e.fate \in {fate}
        <3> TAKE t \in LineTokens(line)
        <3>1. [token |-> t, fate |-> fate, at |-> at, target |-> target] \in E
            BY <1>2
        <3> QED
            BY <3>1
    <2> QED
        BY <2>1 DEF Accounted
<1> QED
    BY <1>3, <1>4 DEF E

\* Adding entries that name no place.
LEMMA RecordingGrows ==
    ASSUME NEW fields, NEW b \in Build, NEW added \in SUBSET Entry,
           \A e \in added : e.fate \notin PlacedFates
    PROVE  LET c == [b EXCEPT !.ledger = @ \cup added]
           IN  Grows(fields, b, c) /\ c.ledger = b.ledger \cup added
<1> DEFINE c == [b EXCEPT !.ledger = @ \cup added]
<1>1. /\ b = [out |-> b.out, ledger |-> b.ledger]
      /\ b.out \in Lists /\ b.ledger \in SUBSET Entry
    BY DEF Build
<1>2. c = [out |-> b.out, ledger |-> b.ledger \cup added]
    BY DEF Build
<1> HIDE DEF c
<1>3. c \in Build /\ c.out = b.out /\ c.ledger = b.ledger \cup added
    BY <1>1, <1>2 DEF Build
<1>4. Truthful(fields, b) => Truthful(fields, c)
    BY <1>3 DEF Truthful
<1> QED
    BY <1>3, <1>4 DEF Grows, c

LEMMA RecordedForms ==
    ASSUME NEW fields, NEW b \in Build, NEW line \in Line, NEW at \in Path,
           NEW fate \in Fate \ PlacedFates
    PROVE  LET c == Recorded(b, line, fate, at)
           IN  Grows(fields, b, c) /\ Accounted(c.ledger, at, line, {fate})
<1> DEFINE added == Entries(line, fate, at, <<>>)
<1>1. /\ added \in SUBSET Entry
      /\ \A e \in added : e.fate = fate
      /\ Accounted(added, at, line, {fate})
    <2>1. <<>> \in Place /\ fate \in Fate
        BY DEF Place
    <2>2. /\ Entries(line, fate, at, <<>>) \in SUBSET Entry
          /\ \A e \in Entries(line, fate, at, <<>>) :
                 /\ e.fate = fate /\ e.at = at /\ e.target = <<>>
                 /\ e.token \in LineTokens(line)
          /\ Accounted(Entries(line, fate, at, <<>>), at, line, {fate})
        BY <2>1, EntriesOfLine
    <2> QED
        BY <2>2
<1> HIDE DEF added
<1>2. Recorded(b, line, fate, at) = [b EXCEPT !.ledger = @ \cup added]
    BY DEF Recorded, added
<1>3. \A e \in added : e.fate \notin PlacedFates
    BY <1>1
<1>4. LET c == [b EXCEPT !.ledger = @ \cup added]
      IN  Grows(fields, b, c) /\ c.ledger = b.ledger \cup added
    BY <1>1, <1>3, RecordingGrows
<1> QED
    BY <1>1, <1>2, <1>4, AccountedOn

\* A unit that is appended or found in its list.
LEMMA AddUnitForms ==
    ASSUME NEW fields, NEW b \in Build, NEW kind \in ListKind, NEW unit \in Line, NEW at \in Path
    PROVE  LET c == AddUnit(b, kind, unit, at)
           IN  Grows(fields, b, c) /\ Accounted(c.ledger, at, unit, PlacedFates)
<1> DEFINE c == AddUnit(b, kind, unit, at)
           lines == b.out[kind]
           twins == {i \in DOMAIN lines : Key(lines[i]) = Key(unit)}
<1>1. /\ b = [out |-> b.out, ledger |-> b.ledger]
      /\ b.out \in Lists /\ b.ledger \in SUBSET Entry
    BY DEF Build
<1>2. /\ lines \in Seq(Line) /\ DOMAIN lines = 1 .. Len(lines) /\ Len(lines) \in Nat
      /\ \A i \in DOMAIN lines : lines[i] \in Line
    BY <1>1 DEF Lists
<1>3. kind \notin Field
    BY FieldsAreNoLists
<1>4. c = IF twins # {}
          THEN [b EXCEPT !.ledger = @ \cup UNION {Entries(unit, "deduped", at, <<kind, i>>) : i \in twins}]
          ELSE [b EXCEPT !.out[kind] = Append(@, unit),
                         !.ledger = @ \cup Entries(unit, "moved", at, <<kind, Len(lines) + 1>>)]
    BY DEF AddUnit
<1> HIDE DEF c, lines
<1>5. CASE twins # {}
    <2> DEFINE added == UNION {Entries(unit, "deduped", at, <<kind, i>>) : i \in twins}
    <2>1. \A i \in twins : <<kind, i>> \in Place /\ "deduped" \in Fate
        BY <1>2 DEF Place, Fate, AllowedFates
    <2>2. \A i \in twins :
            /\ Entries(unit, "deduped", at, <<kind, i>>) \in SUBSET Entry
            /\ \A e \in Entries(unit, "deduped", at, <<kind, i>>) :
                  /\ e.fate = "deduped" /\ e.target = <<kind, i>>
                  /\ e.token \in LineTokens(unit)
            /\ Accounted(Entries(unit, "deduped", at, <<kind, i>>), at, unit, {"deduped"})
        BY <2>1, EntriesOfLine
    <2>3. \A i \in twins : LineTokens(lines[i]) = LineTokens(unit)
        BY <1>2, OneKeyOneContent
    <2>4. c = [b EXCEPT !.ledger = @ \cup added]
        BY <1>4, <1>5
    <2>5. added \in SUBSET Entry
        BY <2>2
    <2>6. \A e \in added : Stands(fields, b.out, e)
        <3> TAKE e \in added
        <3>1. PICK i \in twins : e \in Entries(unit, "deduped", at, <<kind, i>>)
            OBVIOUS
        <3>2. e.target = <<kind, i>> /\ e.token \in LineTokens(unit)
            BY <2>2, <3>1
        <3>3. e.target[1] = kind /\ e.target[2] = i /\ i \in DOMAIN lines
            BY <3>2
        <3> QED
            BY <1>3, <2>3, <3>2, <3>3 DEF Stands, lines
    <2>7. Accounted(added, at, unit, PlacedFates)
        <3>1. PICK i \in twins : TRUE
            BY <1>5
        <3>2. Entries(unit, "deduped", at, <<kind, i>>) \subseteq added
            BY <3>1
        <3>3. {"deduped"} \subseteq PlacedFates
            BY DEF PlacedFates
        <3> HIDE DEF added
        <3> QED
            BY <2>2, <3>1, <3>2, <3>3, AccountedOn
    <2> HIDE DEF added
    <2>8. c = [out |-> b.out, ledger |-> b.ledger \cup added]
        BY <1>1, <2>4
    <2>9. c \in Build /\ c.out = b.out /\ c.ledger = b.ledger \cup added
        BY <1>1, <2>5, <2>8 DEF Build
    <2>10. Grows(fields, b, c)
        BY <2>6, <2>9 DEF Grows, Truthful
    <2>11. Accounted(c.ledger, at, unit, PlacedFates)
        BY <2>7, <2>9, AccountedOn
    <2> QED
        BY <2>10, <2>11 DEF c
<1>6. CASE twins = {}
    <2> DEFINE added == Entries(unit, "moved", at, <<kind, Len(lines) + 1>>)
               out == [b.out EXCEPT ![kind] = Append(lines, unit)]
    <2>1. <<kind, Len(lines) + 1>> \in Place /\ "moved" \in Fate
        BY <1>2 DEF Place, Fate, AllowedFates
    <2>2. /\ added \in SUBSET Entry
          /\ \A e \in added : /\ e.fate = "moved" /\ e.target = <<kind, Len(lines) + 1>>
                              /\ e.token \in LineTokens(unit)
          /\ Accounted(added, at, unit, {"moved"})
        <3> DEFINE target == <<kind, Len(lines) + 1>>
        <3>1. target \in Place
            BY <2>1
        <3> HIDE DEF target
        <3>2. /\ Entries(unit, "moved", at, target) \in SUBSET Entry
              /\ \A e \in Entries(unit, "moved", at, target) :
                     /\ e.fate = "moved" /\ e.at = at /\ e.target = target
                     /\ e.token \in LineTokens(unit)
              /\ Accounted(Entries(unit, "moved", at, target), at, unit, {"moved"})
            BY <2>1, <3>1, EntriesOfLine
        <3> QED
            BY <3>2 DEF target
    <2>3. c = [b EXCEPT !.out[kind] = Append(@, unit), !.ledger = @ \cup added]
        BY <1>4, <1>6
    <2> HIDE DEF added
    <2>4. c = [out |-> out, ledger |-> b.ledger \cup added]
        BY <1>1, <2>3 DEF lines
    <2>5. /\ Append(lines, unit) \in Seq(Line)
          /\ Append(lines, unit)[Len(lines) + 1] = unit
          /\ DOMAIN Append(lines, unit) = 1 .. (Len(lines) + 1)
          /\ \A i \in DOMAIN lines : Append(lines, unit)[i] = lines[i] /\ i \in 1 .. (Len(lines) + 1)
        BY <1>2
    <2>6. /\ out \in Lists /\ out[kind] = Append(lines, unit)
          /\ \A k \in ListKind : k # kind => out[k] = b.out[k]
        BY <1>1, <2>5 DEF Lists
    <2> HIDE DEF out
    <2>7. c \in Build /\ c.out = out /\ c.ledger = b.ledger \cup added
        BY <1>1, <2>2, <2>4, <2>6 DEF Build
    <2>8. \A e \in added : Stands(fields, out, e)
        <3> TAKE e \in added
        <3>1. e.target[1] = kind /\ e.target[2] = Len(lines) + 1 /\ e.token \in LineTokens(unit)
            BY <2>2
        <3>2. Len(lines) + 1 \in DOMAIN out[kind] /\ out[kind][Len(lines) + 1] = unit
            BY <1>2, <2>5, <2>6
        <3> QED
            BY <1>3, <3>1, <3>2 DEF Stands
    <2>9. \A e \in b.ledger : e.fate \in PlacedFates /\ Stands(fields, b.out, e) => Stands(fields, out, e)
        <3> SUFFICES ASSUME NEW e \in b.ledger, Stands(fields, b.out, e) PROVE Stands(fields, out, e)
            OBVIOUS
        <3>1. CASE e.target[1] = kind
            <4>1. /\ e.target[2] \in DOMAIN lines
                  /\ e.token \in LineTokens(lines[e.target[2]]) \/ OfRange(fields, e)
                BY <1>3, <3>1 DEF Stands, lines
            <4>2. e.target[2] \in DOMAIN out[kind] /\ out[kind][e.target[2]] = lines[e.target[2]]
                BY <2>5, <2>6, <4>1
            <4> QED
                BY <1>3, <3>1, <4>1, <4>2 DEF Stands
        <3>2. CASE e.target[1] # kind
            <4>1. out[e.target[1]] = b.out[e.target[1]]
                BY <1>1, <3>2 DEF out, Lists
            <4> QED
                BY <4>1 DEF Stands
        <3> QED
            BY <3>1, <3>2
    <2>10. Grows(fields, b, c)
        BY <2>7, <2>8, <2>9 DEF Grows, Truthful
    <2>11. Accounted(c.ledger, at, unit, PlacedFates)
        <3>1. added \subseteq c.ledger /\ {"moved"} \subseteq PlacedFates
            BY <2>7 DEF PlacedFates
        <3> QED
            BY <2>2, <3>1, AccountedOn
    <2> QED
        BY <2>10, <2>11 DEF c
<1> QED
    BY <1>5, <1>6

-----------------------------------------------------------------------------
(* Runs of the transform.                                                   *)

\* The tail of a run of growing steps grows.
LEMMA RunGrows ==
    ASSUME NEW fields, NEW n \in Nat, NEW h, h[0] \in Build,
           \A i \in 1 .. n : h[i - 1] \in Build => Grows(fields, h[i - 1], h[i])
    PROVE  \A i \in 0 .. n : h[i] \in Build /\ Grows(fields, h[i], h[n])
<1>1. \A i \in 0 .. n : h[i] \in Build
    <2>1. \A i \in 1 .. n : h[i - 1] \in Build => h[i] \in Build
        BY DEF Grows
    <2> QED
        BY <2>1, RunStays
<1> DEFINE good == {m \in 0 .. n : \A i \in 0 .. m : Grows(fields, h[i], h[m])}
<1>2. \A b \in Build : Grows(fields, b, b)
    BY DEF Grows
<1>3. 0 \in good
    <2>1. 0 \in 0 .. n /\ \A i \in 0 .. 0 : i = 0
        OBVIOUS
    <2> QED
        BY <1>1, <1>2, <2>1
<1>4. \A m \in 1 .. n : m - 1 \in good => m \in good
    <2> SUFFICES ASSUME NEW m \in 1 .. n, m - 1 \in good PROVE m \in good
        OBVIOUS
    <2>1. m - 1 \in 0 .. n /\ m \in 0 .. n
        OBVIOUS
    <2>2. Grows(fields, h[m - 1], h[m])
        BY <1>1, <2>1
    <2>3. \A i \in 0 .. m : Grows(fields, h[i], h[m])
        <3> TAKE i \in 0 .. m
        <3>1. CASE i = m
            BY <1>1, <1>2, <2>1, <3>1
        <3>2. CASE i # m
            <4>1. Grows(fields, h[i], h[m - 1])
                BY <3>2
            <4> QED
                BY <2>2, <4>1, GrowsOn
        <3> QED
            BY <3>1, <3>2
    <2> QED
        BY <2>1, <2>3
<1>5. n \in good
    <2> HIDE DEF good
    <2> QED
        BY <1>3, <1>4, StepsUp
<1> QED
    BY <1>1, <1>5

\* The units of a line, added one by one.
UnitsAdded(b, kind, units, at) == FoldLeft(LAMBDA c, unit : AddUnit(c, kind, unit, at), b, units)

UnitsRun(h, b, kind, units, at) ==
    h[0] = b /\ \A i \in 1 .. Len(units) : h[i] = AddUnit(h[i - 1], kind, units[i], at)

\* The units are added in their order.
LEMMA UnitsAddedRun ==
    ASSUME NEW b0 \in Build, NEW kind \in ListKind, NEW units \in Seq(Line), NEW at \in Path
    PROVE  \E h : UnitsRun(h, b0, kind, units, at) /\ UnitsAdded(b0, kind, units, at) = h[Len(units)]
<1> DEFINE seq == units
           n == Len(seq)
           Op(b, x) == AddUnit(b, kind, x, at)
           F == [p \in Build \X (1 .. n) |-> Op(p[1], seq[p[2]])]
           Folds(f) == f = [S \in SUBSET DOMAIN seq |->
                            IF S = {} THEN b0 ELSE Op(f[S \ {Max(S)}], seq[Max(S)])]
           C == CHOOSE f : Folds(f)
           h == [i \in 0 .. n |-> C[1 .. i]]
<1>1. n \in Nat /\ DOMAIN seq = 1 .. n
    OBVIOUS
<1>2. \A b \in Build, i \in 1 .. n : Op(b, seq[i]) \in Build
    <2> SUFFICES ASSUME NEW b \in Build, NEW i \in 1 .. n PROVE Op(b, seq[i]) \in Build
        OBVIOUS
    <2>1. seq[i] \in Line
        BY <1>1
    <2>2. LET c == AddUnit(b, kind, seq[i], at)
          IN  Grows({}, b, c) /\ Accounted(c.ledger, at, seq[i], PlacedFates)
        BY <2>1, AddUnitForms
    <2> QED
        BY <2>2 DEF Grows
<1>3. UnitsAdded(b0, kind, units, at) = C[DOMAIN seq]
    BY DEF UnitsAdded, FoldLeft, MapThenFoldSet
<1>4. b0 \in Build
    OBVIOUS
<1> HIDE DEF Op, seq, n
<1>5. PICK f : RecursesOver(f, n, Build, b0, F)
    <2>1. F \in [Build \X (1 .. n) -> Build]
        BY <1>2
    <2> HIDE DEF F
    <2> QED
        BY <1>1, <1>4, <2>1, FoldRecursion
<1>6. Folds(f)
    <2>1. \A S \in SUBSET (1 .. n) :
              f[S] = IF S = {} THEN b0 ELSE Op(f[S \ {Max(S)}], seq[Max(S)])
        <3> TAKE S \in SUBSET (1 .. n)
        <3>1. CASE S = {}
            BY <1>5, <3>1 DEF RecursesOver
        <3>2. CASE S # {}
            <4>1. Max(S) \in 1 .. n
                BY <1>1, <3>2, MaxOfIndexes
            <4>2. f[S \ {Max(S)}] \in Build /\ f[S] = F[<<f[S \ {Max(S)}], Max(S)>>]
                <5> HIDE DEF F
                <5> QED
                    BY <1>5, <3>2 DEF RecursesOver
            <4> QED
                BY <3>2, <4>1, <4>2
        <3> QED
            BY <3>1, <3>2
    <2>2. f = [S \in SUBSET (1 .. n) |-> f[S]]
        <3> HIDE DEF F
        <3> QED
            BY <1>5 DEF RecursesOver
    <2> QED
        BY <1>1, <2>1, <2>2
<1>7. Folds(C)
    <2> HIDE DEF Folds
    <2> QED
        BY <1>6
<1>8. h[0] = b0 /\ \A i \in 1 .. n : h[i] = Op(h[i - 1], seq[i])
    <2> HIDE DEF C
    <2>1. 1 .. 0 = {} /\ 0 \in 0 .. n
        BY <1>1
    <2>2. \A i \in 1 .. n : C[1 .. i] = Op(C[1 .. (i - 1)], seq[i])
        <3> TAKE i \in 1 .. n
        <3>1. /\ 1 .. i \in SUBSET DOMAIN seq
              /\ 1 .. i # {}
              /\ Max(1 .. i) = i
              /\ (1 .. i) \ {Max(1 .. i)} = 1 .. (i - 1)
            BY <1>1, UpTo
        <3>2. C[1 .. i] = Op(C[(1 .. i) \ {Max(1 .. i)}], seq[Max(1 .. i)])
            BY <1>7, <3>1
        <3> QED
            BY <3>1, <3>2
    <2>3. \A i \in 1 .. n : i \in 0 .. n /\ i - 1 \in 0 .. n
        BY <1>1
    <2> QED
        BY <1>1, <1>7, <2>1, <2>2, <2>3
<1>9. UnitsAdded(b0, kind, units, at) = h[n]
    <2>1. n \in 0 .. n
        BY <1>1
    <2> HIDE DEF C
    <2> QED
        BY <1>1, <1>3, <2>1
<1>10. UnitsRun(h, b0, kind, units, at)
    BY <1>8 DEF UnitsRun, Op, n, seq
<1> QED
    BY <1>9, <1>10 DEF n, seq

\* Every unit that is added is placed.
LEMMA UnitsAddedForms ==
    ASSUME NEW fields, NEW b \in Build, NEW kind \in ListKind, NEW units \in Seq(Line), NEW at \in Path
    PROVE  LET c == UnitsAdded(b, kind, units, at)
           IN  /\ Grows(fields, b, c)
               /\ \A i \in 1 .. Len(units) : Accounted(c.ledger, at, units[i], PlacedFates)
<1>1. PICK h : UnitsRun(h, b, kind, units, at) /\ UnitsAdded(b, kind, units, at) = h[Len(units)]
    BY UnitsAddedRun
<1> DEFINE n == Len(units)
<1>2. n \in Nat /\ \A i \in 1 .. n : units[i] \in Line
    OBVIOUS
<1>3. h[0] = b /\ \A i \in 1 .. n : h[i] = AddUnit(h[i - 1], kind, units[i], at)
    BY <1>1 DEF UnitsRun
<1> HIDE DEF n
<1>4. \A i \in 1 .. n : h[i - 1] \in Build =>
          Grows(fields, h[i - 1], h[i]) /\ Accounted(h[i].ledger, at, units[i], PlacedFates)
    <2> SUFFICES ASSUME NEW i \in 1 .. n, h[i - 1] \in Build
                 PROVE  Grows(fields, h[i - 1], h[i]) /\ Accounted(h[i].ledger, at, units[i], PlacedFates)
        OBVIOUS
    <2>1. units[i] \in Line
        BY <1>2
    <2>2. LET c == AddUnit(h[i - 1], kind, units[i], at)
          IN  Grows(fields, h[i - 1], c) /\ Accounted(c.ledger, at, units[i], PlacedFates)
        BY <2>1, AddUnitForms
    <2> QED
        BY <1>3, <2>2
<1>5. \A i \in 0 .. n : h[i] \in Build /\ Grows(fields, h[i], h[n])
    <2>1. h[0] \in Build /\ \A i \in 1 .. n : h[i - 1] \in Build => Grows(fields, h[i - 1], h[i])
        BY <1>3, <1>4
    <2> QED
        BY <1>2, <2>1, RunGrows
<1>6. \A i \in 1 .. n : Accounted(h[n].ledger, at, units[i], PlacedFates)
    <2> TAKE i \in 1 .. n
    <2>1. i \in 0 .. n /\ i - 1 \in 0 .. n
        BY <1>2
    <2>2. Accounted(h[i].ledger, at, units[i], PlacedFates) /\ h[i].ledger \subseteq h[n].ledger
        BY <1>4, <1>5, <2>1 DEF Grows
    <2> QED
        BY <2>2, AccountedOn
<1>7. Grows(fields, b, h[n])
    <2>1. 0 \in 0 .. n
        BY <1>2
    <2> QED
        BY <1>3, <1>5, <2>1
<1> QED
    BY <1>1, <1>6, <1>7 DEF n

\* The units of a line are lines, and hold its tokens.
LEMMA UnitsOfLine ==
    ASSUME NEW kind \in ListKind, NEW line \in Line
    PROVE  /\ Units(kind, line) \in Seq(Line)
           /\ \A t \in LineTokens(line) :
                  \E i \in 1 .. Len(Units(kind, line)) : t \in LineTokens(Units(kind, line)[i])
<1>1. CASE kind = "skills"
    <2> DEFINE u == [i \in DOMAIN line |-> <<line[i]>>]
    <2>1. Units(kind, line) = u
        BY <1>1 DEF Units
    <2>2. DOMAIN line = 1 .. Len(line) /\ Len(line) \in Nat /\ \A i \in DOMAIN line : line[i] \in Phrase
        BY DEF Line
    <2>3. \A i \in DOMAIN line : <<line[i]>> \in Line /\ LineTokens(<<line[i]>>) = Tokens[line[i]]
        <3> TAKE i \in DOMAIN line
        <3>1. line[i] \in Phrase
            BY <2>2
        <3>2. <<line[i]>> \in Seq(Phrase) /\ DOMAIN <<line[i]>> = {1} /\ <<line[i]>>[1] = line[i]
            BY <3>1
        <3> HIDE DEF u
        <3> QED
            BY <3>2 DEF Line, LineTokens
    <2>4. u \in Seq(Line) /\ Len(u) = Len(line) /\ \A i \in DOMAIN line : u[i] = <<line[i]>>
        BY <2>2, <2>3
    <2> HIDE DEF u
    <2> QED
        BY <2>1, <2>2, <2>3, <2>4 DEF LineTokens
<1>2. CASE kind # "skills"
    <2>1. Units(kind, line) = <<line>>
        BY <1>2 DEF Units
    <2>2. <<line>> \in Seq(Line) /\ Len(<<line>>) = 1 /\ <<line>>[1] = line
        OBVIOUS
    <2> QED
        BY <2>1, <2>2
<1> QED
    BY <1>1, <1>2

\* A line of a list is placed, but for a heading or a parser's artifact.
LEMMA AddLineForms ==
    ASSUME NEW fields, NEW b \in Build, NEW kind \in ListKind, NEW heading, NEW line \in Line,
           NEW at \in Path
    PROVE  LET c == AddLine(b, kind, heading, line, at)
           IN  /\ Grows(fields, b, c)
               /\ Accounted(c.ledger, at, line, AllowedFates)
               /\ \/ IsHeading(line, heading) \/ IsArtifact(line)
                  \/ Accounted(c.ledger, at, line, PlacedFates)
<1> DEFINE c == AddLine(b, kind, heading, line, at)
<1>1. PlacedFates \subseteq AllowedFates
    BY DEF PlacedFates, AllowedFates
<1>2. CASE IsHeading(line, heading) \/ IsArtifact(line)
    <2>1. \E fate \in {"dropped_as_heading", "dropped_as_parser_artifact"} :
              c = Recorded(b, line, fate, at)
        BY <1>2 DEF AddLine
    <2>2. PICK fate \in {"dropped_as_heading", "dropped_as_parser_artifact"} :
              c = Recorded(b, line, fate, at)
        BY <2>1
    <2>3. fate \in Fate \ PlacedFates /\ {fate} \subseteq AllowedFates
        BY DEF Fate, PlacedFates, AllowedFates
    <2>4. LET d == Recorded(b, line, fate, at)
          IN  Grows(fields, b, d) /\ Accounted(d.ledger, at, line, {fate})
        BY <2>3, RecordedForms
    <2> HIDE DEF c
    <2>5. c.ledger \subseteq c.ledger
        OBVIOUS
    <2> QED
        BY <1>2, <2>2, <2>3, <2>4, <2>5, AccountedOn DEF c
<1>3. CASE ~IsHeading(line, heading) /\ ~IsArtifact(line) /\ line = <<>>
    <2>1. c = b
        BY <1>3 DEF AddLine
    <2>2. LineTokens(line) = {}
        BY <1>3, TokensOfLine
    <2>3. Grows(fields, b, b)
        BY DEF Grows
    <2>4. \A fates : Accounted(b.ledger, at, line, fates)
        BY <2>2 DEF Accounted
    <2> HIDE DEF c
    <2> QED
        BY <2>1, <2>3, <2>4 DEF c
<1>4. CASE ~IsHeading(line, heading) /\ ~IsArtifact(line) /\ line # <<>>
    <2> DEFINE units == Units(kind, line)
    <2>1. c = UnitsAdded(b, kind, units, at)
        BY <1>4 DEF AddLine, UnitsAdded
    <2>2. /\ units \in Seq(Line)
          /\ \A t \in LineTokens(line) : \E i \in 1 .. Len(units) : t \in LineTokens(units[i])
        BY UnitsOfLine
    <2> HIDE DEF units, c
    <2>3. LET d == UnitsAdded(b, kind, units, at)
          IN  /\ Grows(fields, b, d)
              /\ \A i \in 1 .. Len(units) : Accounted(d.ledger, at, units[i], PlacedFates)
        BY <2>2, UnitsAddedForms
    <2>4. Accounted(c.ledger, at, line, PlacedFates)
        <3>1. \A i \in 1 .. Len(units) : Accounted(c.ledger, at, units[i], PlacedFates)
            BY <2>1, <2>3
        <3> QED
            BY <2>2, <3>1 DEF Accounted
    <2>5. c.ledger \subseteq c.ledger
        OBVIOUS
    <2> QED
        BY <1>1, <2>1, <2>3, <2>4, <2>5, AccountedOn DEF c
<1> QED
    BY <1>2, <1>3, <1>4

\* What a list does with a line.
Handled(ledger, at, line, heading) ==
    /\ Accounted(ledger, at, line, AllowedFates)
    /\ \/ IsHeading(line, heading) \/ IsArtifact(line)
       \/ Accounted(ledger, at, line, PlacedFates)

LEMMA HandledOn ==
    ASSUME NEW ledger, NEW more, ledger \subseteq more, NEW at, NEW line, NEW heading,
           Handled(ledger, at, line, heading)
    PROVE  Handled(more, at, line, heading)
    BY DEF Handled, Accounted

LinesRun(h, b, kind, heading, lines, at) ==
    /\ h[0] = b
    /\ \A i \in 1 .. Len(lines) : h[i] = AddLine(h[i - 1], kind, heading, lines[i], at[i])

\* The lines are added in their order.
LEMMA AddLinesRun ==
    ASSUME NEW b0 \in Build, NEW kind \in ListKind, NEW heading, NEW lines \in Seq(Line), NEW at,
           \A i \in DOMAIN lines : at[i] \in Path
    PROVE  \E h : LinesRun(h, b0, kind, heading, lines, at) /\ AddLines(b0, kind, heading, lines, at) = h[Len(lines)]
<1> DEFINE seq == [i \in DOMAIN lines |-> i]
           n == Len(seq)
           Op(b, x) == AddLine(b, kind, heading, lines[x], at[x])
           F == [p \in Build \X (1 .. n) |-> Op(p[1], seq[p[2]])]
           Folds(f) == f = [S \in SUBSET DOMAIN seq |->
                            IF S = {} THEN b0 ELSE Op(f[S \ {Max(S)}], seq[Max(S)])]
           C == CHOOSE f : Folds(f)
           h == [i \in 0 .. n |-> C[1 .. i]]
<1>0. DOMAIN lines = 1 .. Len(lines) /\ Len(lines) \in Nat
    OBVIOUS
<1>1. n \in Nat /\ DOMAIN seq = 1 .. n /\ (\A i \in 1 .. n : i \in DOMAIN lines /\ seq[i] = i) /\ n = Len(lines)
    BY <1>0
<1>2. \A b \in Build, i \in 1 .. n : Op(b, seq[i]) \in Build
    <2> SUFFICES ASSUME NEW b \in Build, NEW i \in 1 .. n PROVE Op(b, seq[i]) \in Build
        OBVIOUS
    <2>1. seq[i] = i /\ lines[i] \in Line /\ at[i] \in Path
        BY <1>1
    <2>2. LET c == AddLine(b, kind, heading, lines[i], at[i])
          IN  /\ Grows({}, b, c)
              /\ Accounted(c.ledger, at[i], lines[i], AllowedFates)
              /\ \/ IsHeading(lines[i], heading) \/ IsArtifact(lines[i])
                 \/ Accounted(c.ledger, at[i], lines[i], PlacedFates)
        BY <2>1, AddLineForms
    <2> QED
        BY <2>1, <2>2 DEF Grows
<1>3. AddLines(b0, kind, heading, lines, at) = C[DOMAIN seq]
    BY DEF AddLines, FoldLeft, MapThenFoldSet
<1>4. b0 \in Build
    OBVIOUS
<1> HIDE DEF Op, seq, n
<1>5. PICK f : RecursesOver(f, n, Build, b0, F)
    <2>1. F \in [Build \X (1 .. n) -> Build]
        BY <1>2
    <2> HIDE DEF F
    <2> QED
        BY <1>1, <1>4, <2>1, FoldRecursion
<1>6. Folds(f)
    <2>1. \A S \in SUBSET (1 .. n) :
              f[S] = IF S = {} THEN b0 ELSE Op(f[S \ {Max(S)}], seq[Max(S)])
        <3> TAKE S \in SUBSET (1 .. n)
        <3>1. CASE S = {}
            BY <1>5, <3>1 DEF RecursesOver
        <3>2. CASE S # {}
            <4>1. Max(S) \in 1 .. n
                BY <1>1, <3>2, MaxOfIndexes
            <4>2. f[S \ {Max(S)}] \in Build /\ f[S] = F[<<f[S \ {Max(S)}], Max(S)>>]
                <5> HIDE DEF F
                <5> QED
                    BY <1>5, <3>2 DEF RecursesOver
            <4> QED
                BY <3>2, <4>1, <4>2
        <3> QED
            BY <3>1, <3>2
    <2>2. f = [S \in SUBSET (1 .. n) |-> f[S]]
        <3> HIDE DEF F
        <3> QED
            BY <1>5 DEF RecursesOver
    <2> QED
        BY <1>1, <2>1, <2>2
<1>7. Folds(C)
    <2> HIDE DEF Folds
    <2> QED
        BY <1>6
<1>8. h[0] = b0 /\ \A i \in 1 .. n : h[i] = Op(h[i - 1], seq[i])
    <2> HIDE DEF C
    <2>1. 1 .. 0 = {} /\ 0 \in 0 .. n
        BY <1>1
    <2>2. \A i \in 1 .. n : C[1 .. i] = Op(C[1 .. (i - 1)], seq[i])
        <3> TAKE i \in 1 .. n
        <3>1. /\ 1 .. i \in SUBSET DOMAIN seq
              /\ 1 .. i # {}
              /\ Max(1 .. i) = i
              /\ (1 .. i) \ {Max(1 .. i)} = 1 .. (i - 1)
            BY <1>1, UpTo
        <3>2. C[1 .. i] = Op(C[(1 .. i) \ {Max(1 .. i)}], seq[Max(1 .. i)])
            BY <1>7, <3>1
        <3> QED
            BY <3>1, <3>2
    <2>3. \A i \in 1 .. n : i \in 0 .. n /\ i - 1 \in 0 .. n
        BY <1>1
    <2> QED
        BY <1>1, <1>7, <2>1, <2>2, <2>3
<1>9. AddLines(b0, kind, heading, lines, at) = h[n]
    <2>1. n \in 0 .. n
        BY <1>1
    <2> HIDE DEF C
    <2> QED
        BY <1>1, <1>3, <2>1
<1>10. LinesRun(h, b0, kind, heading, lines, at)
    <2>1. \A i \in 1 .. n : seq[i] = i
        BY <1>1
    <2> QED
        BY <1>0, <1>1, <1>8, <2>1 DEF LinesRun, Op
<1> QED
    BY <1>1, <1>9, <1>10

LEMMA AddLinesForms ==
    ASSUME NEW fields, NEW b \in Build, NEW kind \in ListKind, NEW heading,
           NEW lines \in Seq(Line), NEW at, \A i \in DOMAIN lines : at[i] \in Path
    PROVE  LET c == AddLines(b, kind, heading, lines, at)
           IN  /\ Grows(fields, b, c)
               /\ \A i \in DOMAIN lines : Handled(c.ledger, at[i], lines[i], heading)
<1>1. PICK h : /\ LinesRun(h, b, kind, heading, lines, at)
               /\ AddLines(b, kind, heading, lines, at) = h[Len(lines)]
    BY AddLinesRun
<1> DEFINE n == Len(lines)
<1>2. n \in Nat /\ DOMAIN lines = 1 .. n /\ \A i \in 1 .. n : lines[i] \in Line /\ at[i] \in Path
    OBVIOUS
<1>3. h[0] = b /\ \A i \in 1 .. n : h[i] = AddLine(h[i - 1], kind, heading, lines[i], at[i])
    BY <1>1 DEF LinesRun
<1> HIDE DEF n
<1>4. \A i \in 1 .. n : h[i - 1] \in Build =>
          Grows(fields, h[i - 1], h[i]) /\ Handled(h[i].ledger, at[i], lines[i], heading)
    <2> SUFFICES ASSUME NEW i \in 1 .. n, h[i - 1] \in Build
                 PROVE  Grows(fields, h[i - 1], h[i]) /\ Handled(h[i].ledger, at[i], lines[i], heading)
        OBVIOUS
    <2>1. lines[i] \in Line /\ at[i] \in Path
        BY <1>2
    <2>2. LET c == AddLine(h[i - 1], kind, heading, lines[i], at[i])
          IN  /\ Grows(fields, h[i - 1], c)
              /\ Accounted(c.ledger, at[i], lines[i], AllowedFates)
              /\ \/ IsHeading(lines[i], heading) \/ IsArtifact(lines[i])
                 \/ Accounted(c.ledger, at[i], lines[i], PlacedFates)
        BY <2>1, AddLineForms
    <2> QED
        BY <1>3, <2>2 DEF Handled
<1>5. \A i \in 0 .. n : h[i] \in Build /\ Grows(fields, h[i], h[n])
    <2>1. h[0] \in Build /\ \A i \in 1 .. n : h[i - 1] \in Build => Grows(fields, h[i - 1], h[i])
        BY <1>3, <1>4
    <2> QED
        BY <1>2, <2>1, RunGrows
<1>6. \A i \in 1 .. n : Handled(h[n].ledger, at[i], lines[i], heading)
    <2> TAKE i \in 1 .. n
    <2>1. i \in 0 .. n /\ i - 1 \in 0 .. n
        BY <1>2
    <2>2. Handled(h[i].ledger, at[i], lines[i], heading) /\ h[i].ledger \subseteq h[n].ledger
        BY <1>4, <1>5, <2>1 DEF Grows
    <2> QED
        BY <2>2, HandledOn
<1>7. Grows(fields, b, h[n])
    <2>1. 0 \in 0 .. n
        BY <1>2
    <2> QED
        BY <1>3, <1>5, <2>1
<1> QED
    BY <1>1, <1>2, <1>6, <1>7 DEF n

-----------------------------------------------------------------------------
(* The default fields and the four lists.                                   *)

ListHeading(k) == IF k = "skills" THEN SkillsHeading ELSE NoHeading
ListPaths(doc, k) == [i \in DOMAIN doc.lists[k] |-> <<k, i>>]
AddList(b, doc, k) == AddLines(b, k, ListHeading(k), doc.lists[k], ListPaths(doc, k))
Kinds == <<"skills", "certifications", "awards", "languages">>

LEMMA AddListForms ==
    ASSUME NEW doc \in Source, NEW b \in Build, NEW k \in ListKind
    PROVE  LET c == AddList(b, doc, k)
           IN  /\ Grows(CanonicalFields(doc), b, c)
               /\ \A i \in DOMAIN doc.lists[k] :
                      Handled(c.ledger, <<k, i>>, doc.lists[k][i], ListHeading(k))
<1> DEFINE lines == doc.lists[k]
           at == ListPaths(doc, k)
<1>1. lines \in Seq(Line)
    BY DEF Source
<1>2. \A i \in DOMAIN lines : at[i] = <<k, i>> /\ at[i] \in Path
    BY <1>1 DEF ListPaths, Path
<1> HIDE DEF lines, at
<1>3. LET c == AddLines(b, k, ListHeading(k), lines, at)
      IN  /\ Grows(CanonicalFields(doc), b, c)
          /\ \A i \in DOMAIN lines : Handled(c.ledger, at[i], lines[i], ListHeading(k))
    <2>1. \A i \in DOMAIN lines : at[i] \in Path
        BY <1>2
    <2> QED
        BY <1>1, <2>1, AddLinesForms
<1>4. AddList(b, doc, k) = AddLines(b, k, ListHeading(k), lines, at)
    BY DEF AddList, lines, at
<1>5. \A i \in DOMAIN lines : at[i] = <<k, i>>
    BY <1>2
<1> QED
    BY <1>3, <1>4, <1>5 DEF lines

\* The years of one line: a start, an end and the words around them, or all of
\* them whole.
LEMMA RangeForms ==
    ASSUME NEW line \in Line, line # <<>>
    PROVE  /\ RangeStart(line) \in Line /\ RangeEnd(line) \in Line
           /\ Lossless(line) => \A i \in DOMAIN line :
                  \/ RangeStart(line) = <<line[i]>> \/ RangeEnd(line) = <<line[i]>>
                  \/ line[i] \in ToWords \cup OpenEnds
<1> DEFINE rest == Tail(line)
           after == AfterStart(line)
<1>1. /\ Len(line) \in Nat \ {0} /\ DOMAIN line = 1 .. Len(line)
      /\ \A i \in DOMAIN line : line[i] \in Phrase
    BY DEF Line
<1>2. rest \in Line /\ Len(rest) = Len(line) - 1 /\ \A i \in 1 .. Len(rest) : rest[i] = line[i + 1]
    BY <1>1 DEF Line
<1>3. RangeStart(line) \in Line
    BY <1>1 DEF RangeStart, Line
<1>4. after = IF rest # <<>> /\ rest[1] \in ToWords THEN Tail(rest) ELSE rest
    BY DEF AfterStart
<1>5. rest # <<>> => /\ Tail(rest) \in Line /\ Len(Tail(rest)) = Len(rest) - 1
                     /\ \A i \in 1 .. Len(Tail(rest)) : Tail(rest)[i] = rest[i + 1]
    <2> HIDE DEF rest
    <2> QED
        BY <1>2 DEF Line
<1> HIDE DEF rest
<1>6. after \in Line
    BY <1>2, <1>4, <1>5
<1>7. RangeEnd(line) = IF line[1] \in Divided \/ Len(after) # 1 THEN <<>>
                       ELSE IF after[1] \in Years THEN after
                       ELSE IF after[1] \in OpenEnds THEN <<Present>> ELSE <<>>
    BY DEF RangeEnd
<1> HIDE DEF after
<1>8. RangeEnd(line) \in Line
    BY <1>6, <1>7, ShapeAssumption DEF Line
<1>9. ASSUME Lossless(line), NEW i \in DOMAIN line
      PROVE  \/ RangeStart(line) = <<line[i]>> \/ RangeEnd(line) = <<line[i]>>
             \/ line[i] \in ToWords \cup OpenEnds
    <2>1. RangeStart(line) # <<>> /\ (after = <<>> \/ RangeEnd(line) # <<>>)
        BY <1>9 DEF Lossless, after
    <2>2. RangeStart(line) = <<line[1]>>
        BY <2>1 DEF RangeStart
    <2>3. after = <<>> \/ (Len(after) = 1 /\ (after[1] \in OpenEnds \/ RangeEnd(line) = after))
        BY <1>7, <2>1
    <2>4. Len(after) = 0 \/ Len(after) = 1
        <3>1. Len(<<>>) = 0
            OBVIOUS
        <3> QED
            BY <2>3, <3>1
    <2>5. after \in Seq(Phrase) /\ rest \in Seq(Phrase) /\ line \in Seq(Phrase)
        BY <1>2, <1>6 DEF Line
    <2>6. Len(after) = 1 => RangeEnd(line) = <<after[1]>> \/ after[1] \in OpenEnds
        <3>1. Len(after) = 1 => after = <<after[1]>>
            BY <2>5
        <3>2. Len(<<>>) # 1
            OBVIOUS
        <3> QED
            BY <2>3, <3>1, <3>2
    <2>7. CASE rest # <<>> /\ rest[1] \in ToWords
        <3>1. after = Tail(rest) /\ Len(rest) <= 2 /\ Len(line) <= 3
            BY <1>1, <1>2, <1>4, <1>5, <2>4, <2>5, <2>7
        <3>2. CASE i = 1
            BY <2>2, <3>2
        <3>3. CASE i = 2
            BY <1>1, <1>2, <2>7, <3>3, <2>5
        <3>4. CASE i = 3
            <4>1. Len(rest) = 2 /\ line[3] = rest[2]
                BY <1>1, <1>2, <1>9, <3>1, <3>4
            <4>2. Len(after) = 1
                BY <1>5, <2>7, <3>1, <4>1
            <4>3. after[1] = rest[2]
                <5>1. 1 \in 1 .. Len(Tail(rest)) /\ 1 + 1 = 2
                    BY <3>1, <4>2
                <5>2. Tail(rest)[1] = rest[1 + 1]
                    BY <1>5, <2>7, <5>1
                <5> QED
                    BY <3>1, <5>1, <5>2
            <4> QED
                BY <2>6, <3>4, <4>1, <4>2, <4>3
        <3> QED
            BY <1>1, <1>9, <3>1, <3>2, <3>3, <3>4
    <2>8. CASE ~(rest # <<>> /\ rest[1] \in ToWords)
        <3>1. after = rest /\ Len(line) <= 2
            BY <1>1, <1>2, <1>4, <2>4, <2>5, <2>8
        <3>2. CASE i = 1
            BY <2>2, <3>2
        <3>3. CASE i = 2
            <4>1. Len(after) = 1
                BY <1>1, <1>2, <1>9, <2>4, <3>1, <3>3
            <4>2. after[1] = line[2]
                <5>1. 1 \in 1 .. Len(rest) /\ 1 + 1 = 2
                    BY <3>1, <4>1
                <5>2. rest[1] = line[1 + 1]
                    BY <1>2, <5>1
                <5> QED
                    BY <3>1, <5>1, <5>2
            <4> QED
                BY <2>6, <3>3, <4>1, <4>2
        <3> QED
            BY <1>1, <1>9, <3>1, <3>2, <3>3
    <2> QED
        BY <2>7, <2>8
<1> QED
    BY <1>3, <1>8, <1>9

LEMMA YearsKept ==
    ASSUME NEW line \in Line
    PROVE  /\ CanonicalYears(line) \in Seq(Line) /\ Len(CanonicalYears(line)) = 3
           /\ ~Lossless(line) => CanonicalYears(line)[3] = line
           /\ Lossless(line) => LineTokens(line) \subseteq LineTokens(CanonicalYears(line)[1])
                                    \cup LineTokens(CanonicalYears(line)[2]) \cup RangeWords
<1>1. CASE line = <<>>
    <2>1. CanonicalYears(line) = <<line, line, line>> /\ Lossless(line)
        BY <1>1 DEF CanonicalYears, Lossless
    <2> QED
        BY <2>1
<1>2. CASE line # <<>>
    <2> DEFINE start == RangeStart(line)
               end == RangeEnd(line)
               whole == IF Lossless(line) THEN <<>> ELSE line
    <2>1. CanonicalYears(line) = <<start, end, whole>>
        BY <1>2 DEF CanonicalYears
    <2>2. start \in Line /\ end \in Line /\ whole \in Line
        BY <1>2, RangeForms DEF Line
    <2>3. ASSUME Lossless(line), NEW token \in LineTokens(line)
          PROVE  token \in LineTokens(start) \cup LineTokens(end) \cup RangeWords
        <3>1. PICK i \in DOMAIN line : token \in Tokens[line[i]]
            BY <2>3 DEF LineTokens
        <3>2. start = <<line[i]>> \/ end = <<line[i]>> \/ line[i] \in ToWords \cup OpenEnds
            BY <1>2, <2>3, RangeForms
        <3> HIDE DEF start, end
        <3>3. CASE start = <<line[i]>>
            BY <3>1, <3>3 DEF LineTokens
        <3>4. CASE end = <<line[i]>>
            BY <3>1, <3>4 DEF LineTokens
        <3>5. CASE line[i] \in ToWords \cup OpenEnds
            BY <3>1, <3>5 DEF RangeWords
        <3> QED
            BY <3>2, <3>3, <3>4, <3>5
    <2>4. ~Lossless(line) => whole = line
        OBVIOUS
    <2> HIDE DEF start, end, whole
    <2> QED
        BY <2>1, <2>2, <2>3, <2>4
<1> QED
    BY <1>1, <1>2

\* The fields of the canonical resume.
LEMMA CanonicalFieldsForms ==
    ASSUME NEW doc \in Source
    PROVE  /\ CanonicalFields(doc) \in [Field -> Seq(Line)]
           /\ \A f \in Field \ DateFields : CanonicalFields(doc)[f] = doc.fields[f]
           /\ \A f \in DateFields :
                 /\ doc.fields[f] = <<>> => CanonicalFields(doc)[f] = <<>>
                 /\ doc.fields[f] # <<>> =>
                       /\ DOMAIN doc.fields[f] = {1} /\ doc.fields[f][1] \in Line
                       /\ CanonicalFields(doc)[f] = CanonicalYears(doc.fields[f][1])
                 /\ CanonicalFields(doc)[f] # <<>> => Len(CanonicalFields(doc)[f]) = 3
<1>1. \A f \in Field : doc.fields[f] \in Seq(Line)
    BY DEF Source
<1>2. \A f \in DateFields : f \in Field /\ Len(doc.fields[f]) <= 1
    BY ShapeAssumption DEF Source
<1>3. \A f \in DateFields : doc.fields[f] # <<>> =>
          DOMAIN doc.fields[f] = {1} /\ doc.fields[f][1] \in Line
    BY <1>1, <1>2
<1>4. \A f \in DateFields : doc.fields[f] # <<>> =>
          /\ CanonicalYears(doc.fields[f][1]) \in Seq(Line)
          /\ Len(CanonicalYears(doc.fields[f][1])) = 3
    BY <1>3, YearsKept
<1>5. \A f \in Field : CanonicalFields(doc)[f] =
          IF f \notin DateFields THEN doc.fields[f]
          ELSE IF doc.fields[f] = <<>> THEN <<>> ELSE CanonicalYears(doc.fields[f][1])
    BY DEF CanonicalFields
<1>6. CanonicalFields(doc) = [f \in Field |-> CanonicalFields(doc)[f]]
    BY DEF CanonicalFields
<1>7. \A f \in Field : CanonicalFields(doc)[f] \in Seq(Line)
    <2> TAKE f \in Field
    <2>1. <<>> \in Seq(Line)
        OBVIOUS
    <2> QED
        BY <1>1, <1>4, <1>5, <2>1
<1> QED
    BY <1>2, <1>3, <1>4, <1>5, <1>6, <1>7

\* Every text of the default fields is on the ledger, and stands where it says.
LEMMA EmptyBuildForms ==
    ASSUME NEW doc \in Source
    PROVE  /\ EmptyBuild(doc) \in Build
           /\ Truthful(CanonicalFields(doc), EmptyBuild(doc))
           /\ \A f \in Field : \A i \in DOMAIN doc.fields[f] :
                  Accounted(EmptyBuild(doc).ledger, <<f, i>>, doc.fields[f][i], Fate)
<1> DEFINE To(f, i) == MovedTo(f, i, doc.fields[f][i])
           Of(f, i) == Entries(doc.fields[f][i], "moved", <<f, i>>, To(f, i))
           out == [k \in ListKind |-> <<>>]
           ledger == UNION {UNION {Of(f, i) : i \in DOMAIN doc.fields[f]} : f \in Field}
<1>1. EmptyBuild(doc) = [out |-> out, ledger |-> ledger]
    BY DEF EmptyBuild
<1>2. out \in Lists
    BY DEF Lists
<1> HIDE DEF out
<1>3. \A f \in Field : \A i \in DOMAIN doc.fields[f] :
          /\ Of(f, i) \in SUBSET Entry
          /\ \A e \in Of(f, i) : /\ e.fate = "moved" /\ e.at = <<f, i>> /\ e.target = To(f, i)
                                 /\ e.token \in LineTokens(doc.fields[f][i])
          /\ Accounted(Of(f, i), <<f, i>>, doc.fields[f][i], {"moved"})
    <2> TAKE f \in Field
    <2> TAKE i \in DOMAIN doc.fields[f]
    <2> DEFINE line == doc.fields[f][i]
               at == <<f, i>>
               to == To(f, i)
    <2>1. line \in Line /\ at \in Path /\ "moved" \in Fate
        BY DEF Source, Path, Fate, AllowedFates
    <2>2. to \in Place
        <3>1. i \in Nat
            BY DEF Source
        <3> QED
            BY <3>1 DEF MovedTo, Place
    <2> HIDE DEF line, at, to
    <2>3. /\ Entries(line, "moved", at, to) \in SUBSET Entry
          /\ \A e \in Entries(line, "moved", at, to) :
                 /\ e.fate = "moved" /\ e.at = at /\ e.target = to
                 /\ e.token \in LineTokens(line)
          /\ Accounted(Entries(line, "moved", at, to), at, line, {"moved"})
        BY <2>1, <2>2, EntriesOfLine
    <2>4. Of(f, i) = Entries(line, "moved", at, to)
        BY DEF line, at, to
    <2> HIDE DEF Of
    <2> QED
        BY <2>3, <2>4 DEF line, at, to
<1>4. EmptyBuild(doc) \in Build
    <2>1. ledger \in SUBSET Entry
        <3>1. \A f \in Field : \A i \in DOMAIN doc.fields[f] : Of(f, i) \subseteq Entry
            BY <1>3
        <3> HIDE DEF Of
        <3> QED
            BY <3>1
    <2> HIDE DEF ledger
    <2> QED
        BY <1>1, <1>2, <2>1 DEF Build
<1>5. Truthful(CanonicalFields(doc), EmptyBuild(doc))
    <2> SUFFICES ASSUME NEW e \in ledger PROVE Stands(CanonicalFields(doc), out, e)
        BY <1>1 DEF Truthful
    <2>1. PICK f \in Field : \E i \in DOMAIN doc.fields[f] : e \in Of(f, i)
        OBVIOUS
    <2>2. PICK i \in DOMAIN doc.fields[f] : e \in Of(f, i)
        BY <2>1
    <2>3. e.at = <<f, i>> /\ e.target = To(f, i) /\ e.token \in LineTokens(doc.fields[f][i])
        BY <1>3, <2>2
    <2> HIDE DEF Of, ledger
    <2>4. CASE f \notin DateFields
        <3>1. e.target = <<f, i>> /\ CanonicalFields(doc)[f] = doc.fields[f]
            BY <2>3, <2>4, CanonicalFieldsForms DEF MovedTo
        <3> QED
            BY <2>2, <2>3, <3>1 DEF Stands
    <2>5. CASE f \in DateFields
        <3> DEFINE line == doc.fields[f][1]
                   lines == CanonicalFields(doc)[f]
        <3>1. doc.fields[f] # <<>>
            BY <2>2
        <3>2. i = 1 /\ line \in Line /\ lines = CanonicalYears(line)
            BY <2>2, <2>5, <3>1, CanonicalFieldsForms
        <3>3. /\ e.at = <<f, 1>> /\ e.target = (IF Lossless(line) THEN <<f, 1>> ELSE <<f, 3>>)
              /\ e.token \in LineTokens(line)
            BY <2>3, <2>5, <3>2 DEF MovedTo
        <3> HIDE DEF line, lines
        <3>4. /\ lines \in Seq(Line) /\ Len(lines) = 3
              /\ ~Lossless(line) => lines[3] = line
              /\ Lossless(line) => LineTokens(line) \subseteq LineTokens(lines[1])
                                       \cup LineTokens(lines[2]) \cup RangeWords
            BY <3>2, YearsKept
        <3>5. 1 \in DOMAIN lines /\ 3 \in DOMAIN lines
            BY <3>4
        <3>6. CASE Lossless(line)
            <4>1. e.at = <<f, 1>> /\ e.target = <<f, 1>> /\ e.target[1] = f /\ e.target[2] = 1
                BY <3>3, <3>6
            <4>2. e.token \in LineTokens(lines[1]) \/ e.token \in LineTokens(lines[2]) \cup RangeWords
                BY <3>3, <3>4, <3>6
            <4>3. lines = CanonicalFields(doc)[e.target[1]]
                BY <4>1 DEF lines
            <4>4. e.token \in LineTokens(lines[2]) \cup RangeWords => OfRange(CanonicalFields(doc), e)
                BY <2>5, <4>1, <4>3 DEF OfRange
            <4> QED
                BY <3>5, <4>1, <4>2, <4>3, <4>4 DEF Stands
        <3>7. CASE ~Lossless(line)
            <4>1. e.target[1] = f /\ e.target[2] = 3 /\ e.token \in LineTokens(lines[3])
                BY <3>3, <3>4, <3>7
            <4>2. lines = CanonicalFields(doc)[e.target[1]]
                BY <4>1 DEF lines
            <4> QED
                BY <3>5, <4>1, <4>2 DEF Stands
        <3> QED
            BY <3>6, <3>7
    <2> QED
        BY <2>4, <2>5
<1>6. \A f \in Field : \A i \in DOMAIN doc.fields[f] :
          Accounted(EmptyBuild(doc).ledger, <<f, i>>, doc.fields[f][i], Fate)
    <2> TAKE f \in Field
    <2> TAKE i \in DOMAIN doc.fields[f]
    <2>1. Of(f, i) \subseteq ledger
        OBVIOUS
    <2>2. {"moved"} \subseteq Fate
        BY DEF Fate, AllowedFates
    <2>3. Accounted(Of(f, i), <<f, i>>, doc.fields[f][i], {"moved"})
        BY <1>3
    <2>4. EmptyBuild(doc).ledger = ledger
        BY <1>1
    <2> HIDE DEF Of, ledger
    <2> QED
        BY <2>1, <2>2, <2>3, <2>4, AccountedOn
<1> QED
    BY <1>4, <1>5, <1>6

KindsRun(h, doc) == h[0] = EmptyBuild(doc) /\ \A i \in 1 .. 4 : h[i] = AddList(h[i - 1], doc, Kinds[i])

\* The four lists are added one by one.
LEMMA DefaultListsRun ==
    ASSUME NEW doc \in Source
    PROVE  \E h : KindsRun(h, doc) /\ DefaultLists(doc) = h[4]
<1> DEFINE seq == Kinds
           n == Len(seq)
           Op(b, x) == AddList(b, doc, x)
           F == [p \in Build \X (1 .. n) |-> Op(p[1], seq[p[2]])]
           Folds(f) == f = [S \in SUBSET DOMAIN seq |->
                            IF S = {} THEN EmptyBuild(doc) ELSE Op(f[S \ {Max(S)}], seq[Max(S)])]
           C == CHOOSE f : Folds(f)
           h == [i \in 0 .. n |-> C[1 .. i]]
<1>1. n \in Nat /\ DOMAIN seq = 1 .. n /\ n = 4
    BY DEF Kinds
<1>2. \A b \in Build, i \in 1 .. n : Op(b, seq[i]) \in Build
    <2> SUFFICES ASSUME NEW b \in Build, NEW i \in 1 .. n PROVE Op(b, seq[i]) \in Build
        OBVIOUS
    <2>1. seq[i] \in ListKind
        BY <1>1 DEF Kinds, ListKind, NamedKind
    <2>2. LET c == AddList(b, doc, seq[i])
          IN  /\ Grows(CanonicalFields(doc), b, c)
              /\ \A j \in DOMAIN doc.lists[seq[i]] :
                     Handled(c.ledger, <<seq[i], j>>, doc.lists[seq[i]][j], ListHeading(seq[i]))
        BY <2>1, AddListForms
    <2> QED
        BY <2>2 DEF Grows
<1>3. DefaultLists(doc) = C[DOMAIN seq]
    BY DEF DefaultLists, AddList, ListHeading, ListPaths, Kinds, FoldLeft, MapThenFoldSet
<1>4. EmptyBuild(doc) \in Build
    BY EmptyBuildForms
<1> HIDE DEF Op, seq, n
<1>5. PICK f : RecursesOver(f, n, Build, EmptyBuild(doc), F)
    <2>1. F \in [Build \X (1 .. n) -> Build]
        BY <1>2
    <2> HIDE DEF F
    <2> QED
        BY <1>1, <1>4, <2>1, FoldRecursion
<1>6. Folds(f)
    <2>1. \A S \in SUBSET (1 .. n) :
              f[S] = IF S = {} THEN EmptyBuild(doc) ELSE Op(f[S \ {Max(S)}], seq[Max(S)])
        <3> TAKE S \in SUBSET (1 .. n)
        <3>1. CASE S = {}
            BY <1>5, <3>1 DEF RecursesOver
        <3>2. CASE S # {}
            <4>1. Max(S) \in 1 .. n
                BY <1>1, <3>2, MaxOfIndexes
            <4>2. f[S \ {Max(S)}] \in Build /\ f[S] = F[<<f[S \ {Max(S)}], Max(S)>>]
                <5> HIDE DEF F
                <5> QED
                    BY <1>5, <3>2 DEF RecursesOver
            <4> QED
                BY <3>2, <4>1, <4>2
        <3> QED
            BY <3>1, <3>2
    <2>2. f = [S \in SUBSET (1 .. n) |-> f[S]]
        <3> HIDE DEF F
        <3> QED
            BY <1>5 DEF RecursesOver
    <2> QED
        BY <1>1, <2>1, <2>2
<1>7. Folds(C)
    <2> HIDE DEF Folds
    <2> QED
        BY <1>6
<1>8. h[0] = EmptyBuild(doc) /\ \A i \in 1 .. n : h[i] = Op(h[i - 1], seq[i])
    <2> HIDE DEF C
    <2>1. 1 .. 0 = {} /\ 0 \in 0 .. n
        BY <1>1
    <2>2. \A i \in 1 .. n : C[1 .. i] = Op(C[1 .. (i - 1)], seq[i])
        <3> TAKE i \in 1 .. n
        <3>1. /\ 1 .. i \in SUBSET DOMAIN seq
              /\ 1 .. i # {}
              /\ Max(1 .. i) = i
              /\ (1 .. i) \ {Max(1 .. i)} = 1 .. (i - 1)
            BY <1>1, UpTo
        <3>2. C[1 .. i] = Op(C[(1 .. i) \ {Max(1 .. i)}], seq[Max(1 .. i)])
            BY <1>7, <3>1
        <3> QED
            BY <3>1, <3>2
    <2>3. \A i \in 1 .. n : i \in 0 .. n /\ i - 1 \in 0 .. n
        BY <1>1
    <2> QED
        BY <1>1, <1>7, <2>1, <2>2, <2>3
<1>9. DefaultLists(doc) = h[n]
    <2>1. n \in 0 .. n
        BY <1>1
    <2> HIDE DEF C
    <2> QED
        BY <1>1, <1>3, <2>1
<1>10. KindsRun(h, doc)
    BY <1>1, <1>8 DEF KindsRun, Op, seq
<1> QED
    BY <1>1, <1>9, <1>10

LEMMA DefaultListsForms ==
    ASSUME NEW doc \in Source
    PROVE  LET b == DefaultLists(doc)
           IN  /\ b \in Build /\ Truthful(CanonicalFields(doc), b)
               /\ \A f \in Field : \A i \in DOMAIN doc.fields[f] :
                      Accounted(b.ledger, <<f, i>>, doc.fields[f][i], Fate)
               /\ \A k \in ListKind : \A i \in DOMAIN doc.lists[k] :
                      Accounted(b.ledger, <<k, i>>, doc.lists[k][i], Fate)
<1>1. PICK h : KindsRun(h, doc) /\ DefaultLists(doc) = h[4]
    BY DefaultListsRun
<1> DEFINE n == 4
<1>2. n \in Nat
    OBVIOUS
<1>3. h[0] = EmptyBuild(doc) /\ \A i \in 1 .. n : h[i] = AddList(h[i - 1], doc, Kinds[i])
    BY <1>1 DEF KindsRun
<1>4. \A k \in ListKind : \E i \in 1 .. n : Kinds[i] = k
    BY DEF ListKind, NamedKind, Kinds
<1>5. \A i \in 1 .. n : Kinds[i] \in ListKind
    BY DEF ListKind, NamedKind, Kinds
<1> HIDE DEF n
<1>6. \A i \in 1 .. n : h[i - 1] \in Build =>
          /\ Grows(CanonicalFields(doc), h[i - 1], h[i])
          /\ \A j \in DOMAIN doc.lists[Kinds[i]] :
                 Handled(h[i].ledger, <<Kinds[i], j>>, doc.lists[Kinds[i]][j], ListHeading(Kinds[i]))
    BY <1>3, <1>5, AddListForms
<1>7. \A i \in 0 .. n : h[i] \in Build /\ Grows(CanonicalFields(doc), h[i], h[n])
    <2>1. h[0] \in Build
        BY <1>3, EmptyBuildForms
    <2>2. \A i \in 1 .. n : h[i - 1] \in Build => Grows(CanonicalFields(doc), h[i - 1], h[i])
        BY <1>6
    <2> QED
        BY <1>2, <2>1, <2>2, RunGrows
<1>8. Grows(CanonicalFields(doc), EmptyBuild(doc), h[n]) /\ h[n] \in Build
    <2>1. 0 \in 0 .. n /\ n \in 0 .. n
        BY <1>2
    <2> QED
        BY <1>3, <1>7, <2>1
<1>9. Truthful(CanonicalFields(doc), h[n])
    BY <1>8, EmptyBuildForms DEF Grows
<1>10. Fate \subseteq Fate /\ AllowedFates \subseteq Fate
    BY DEF Fate
<1>11. ASSUME NEW f \in Field, NEW i \in DOMAIN doc.fields[f]
       PROVE  Accounted(h[n].ledger, <<f, i>>, doc.fields[f][i], Fate)
    <2>1. EmptyBuild(doc).ledger \subseteq h[n].ledger
        BY <1>8 DEF Grows
    <2>2. Accounted(EmptyBuild(doc).ledger, <<f, i>>, doc.fields[f][i], Fate)
        BY EmptyBuildForms
    <2> QED
        BY <1>10, <2>1, <2>2, AccountedOn
<1>12. ASSUME NEW k \in ListKind, NEW i \in DOMAIN doc.lists[k]
       PROVE  Accounted(h[n].ledger, <<k, i>>, doc.lists[k][i], Fate)
    <2>1. PICK m \in 1 .. n : Kinds[m] = k
        BY <1>4
    <2>2. m - 1 \in 0 .. n /\ m \in 0 .. n
        BY <1>2
    <2>3. Accounted(h[m].ledger, <<k, i>>, doc.lists[k][i], AllowedFates)
        BY <1>6, <1>7, <2>1, <2>2 DEF Handled
    <2>4. h[m].ledger \subseteq h[n].ledger
        BY <1>7, <2>2 DEF Grows
    <2> QED
        BY <1>10, <2>3, <2>4, AccountedOn
<1> QED
    BY <1>1, <1>8, <1>9, <1>11, <1>12 DEF n

-----------------------------------------------------------------------------
(* Custom sections.                                                         *)

\* The texts of a section: the title of each item, then its details.
LEMMA CustomTextsForms ==
    ASSUME NEW s \in Section, NEW t \in CustomTexts(s)
    PROVE  /\ t.at \in Path /\ t.line \in Line
           /\ \E i \in DOMAIN s.items :
                  \/ t.at = <<s.key, i, 1>> /\ t.line = s.items[i].title
                  \/ \E j \in DOMAIN s.items[i].details : t.line = s.items[i].details[j]
<1>1. PICK i \in DOMAIN s.items : t \in ToSet(ItemTexts(s, i))
    BY DEF CustomTexts
<1> DEFINE item == s.items[i]
           lines == ItemLines(item)
<1>2. /\ item.title \in Line /\ item.details \in Seq(Line)
      /\ s.key \in STRING /\ i \in Nat
    <2>1. s.items \in Seq(Item) /\ s.key \in STRING
        BY DEF Section
    <2>2. item \in Item /\ i \in Nat
        BY <2>1
    <2> HIDE DEF item
    <2> QED
        BY <2>1, <2>2 DEF Item
<1> HIDE DEF item
<1>3. /\ DOMAIN lines = 1 .. (Len(item.details) + 1)
      /\ Len(item.details) \in Nat /\ DOMAIN item.details = 1 .. Len(item.details)
      /\ lines[1] = item.title
      /\ \A j \in DOMAIN lines : j # 1 => lines[j] = item.details[j - 1]
    <2>1. lines = <<item.title>> \o item.details
        BY DEF ItemLines
    <2>2. <<item.title>> \in Seq(Line) /\ Len(<<item.title>>) = 1 /\ <<item.title>>[1] = item.title
        BY <1>2
    <2> QED
        BY <1>2, <2>1, <2>2
<1> HIDE DEF lines
<1>4. ItemTexts(s, i) = [j \in DOMAIN lines |-> [at |-> <<s.key, i, j>>, line |-> lines[j]]]
    BY DEF ItemTexts, lines, item
<1>5. PICK j \in DOMAIN lines : t = [at |-> <<s.key, i, j>>, line |-> lines[j]]
    BY <1>1, <1>4 DEF ToSet
<1>6. t.at = <<s.key, i, j>> /\ t.line = lines[j] /\ j \in Nat
    BY <1>3, <1>5
<1>7. t.at \in Path
    BY <1>2, <1>6 DEF Path
<1>8. CASE j = 1
    BY <1>2, <1>3, <1>6, <1>7, <1>8 DEF item
<1>9. CASE j # 1
    <2>1. j - 1 \in DOMAIN item.details /\ lines[j] = item.details[j - 1]
        BY <1>3, <1>5, <1>9
    <2>2. item.details[j - 1] \in Line
        BY <1>2, <2>1
    <2> QED
        BY <1>6, <1>7, <2>1, <2>2 DEF item
<1> QED
    BY <1>8, <1>9

\* Neither a heading nor a parser's artifact is content.
Skipped(s, t) == IsHeading(t.line, Heading[s.name]) \/ IsArtifact(t.line)

\* A section that stays out has every text on the ledger.
LEMMA DisposedForms ==
    ASSUME NEW fields, NEW b \in Build, NEW s \in Section, NEW fate \in Fate \ PlacedFates
    PROVE  LET c == Disposed(b, s, fate)
           IN  /\ Grows(fields, b, c)
               /\ \A t \in CustomTexts(s) :
                      /\ Accounted(c.ledger, t.at, t.line, Fate)
                      /\ Skipped(s, t) \/ Accounted(c.ledger, t.at, t.line, {fate})
<1> DEFINE FateOf(t) == IF IsHeading(t.line, Heading[s.name]) THEN "dropped_as_heading"
                        ELSE IF IsArtifact(t.line) THEN "dropped_as_parser_artifact" ELSE fate
           Of(t) == Entries(t.line, FateOf(t), t.at, <<>>)
           added == UNION {Of(t) : t \in CustomTexts(s)}
<1>1. \A t \in CustomTexts(s) :
          /\ Of(t) \in SUBSET Entry
          /\ \A e \in Of(t) : e.fate \notin PlacedFates
          /\ FateOf(t) \in Fate
          /\ Accounted(Of(t), t.at, t.line, {FateOf(t)})
    <2> TAKE t \in CustomTexts(s)
    <2>1. t.at \in Path /\ t.line \in Line
        BY CustomTextsForms
    <2>2. FateOf(t) \in Fate \ PlacedFates
        BY DEF Fate, AllowedFates, PlacedFates
    <2>3. <<>> \in Place
        BY DEF Place
    <2> HIDE DEF FateOf
    <2>4. /\ Entries(t.line, FateOf(t), t.at, <<>>) \in SUBSET Entry
          /\ \A e \in Entries(t.line, FateOf(t), t.at, <<>>) :
                 /\ e.fate = FateOf(t) /\ e.at = t.at /\ e.target = <<>>
                 /\ e.token \in LineTokens(t.line)
          /\ Accounted(Entries(t.line, FateOf(t), t.at, <<>>), t.at, t.line, {FateOf(t)})
        BY <2>1, <2>2, <2>3, EntriesOfLine
    <2> QED
        BY <2>2, <2>4
<1>2. Disposed(b, s, fate) = [b EXCEPT !.ledger = @ \cup added]
    BY DEF Disposed
<1>3. \A t \in CustomTexts(s) : ~Skipped(s, t) => FateOf(t) = fate
    BY DEF Skipped
<1> HIDE DEF Of, FateOf
<1>4. added \in SUBSET Entry /\ \A e \in added : e.fate \notin PlacedFates
    BY <1>1
<1>5. \A t \in CustomTexts(s) : Of(t) \subseteq added
    OBVIOUS
<1> HIDE DEF added
<1>6. LET c == [b EXCEPT !.ledger = @ \cup added]
      IN  Grows(fields, b, c) /\ c.ledger = b.ledger \cup added
    BY <1>4, RecordingGrows
<1> DEFINE c == Disposed(b, s, fate)
<1>7. Grows(fields, b, c) /\ added \subseteq c.ledger
    BY <1>2, <1>6
<1> HIDE DEF c
<1>8. \A t \in CustomTexts(s) :
          /\ Accounted(c.ledger, t.at, t.line, Fate)
          /\ Skipped(s, t) \/ Accounted(c.ledger, t.at, t.line, {fate})
    <2> TAKE t \in CustomTexts(s)
    <2>1. Of(t) \subseteq c.ledger /\ {FateOf(t)} \subseteq Fate
        BY <1>1, <1>5, <1>7
    <2>2. Accounted(Of(t), t.at, t.line, {FateOf(t)})
        BY <1>1
    <2>3. Accounted(c.ledger, t.at, t.line, Fate)
        BY <2>1, <2>2, AccountedOn
    <2>4. ~Skipped(s, t) => Accounted(c.ledger, t.at, t.line, {fate})
        BY <1>3, <2>1, <2>2, AccountedOn
    <2> QED
        BY <2>3, <2>4
<1> QED
    BY <1>7, <1>8 DEF c

\* What becomes of a text of a section, by what is decided of the section.
Settled(ledger, s, t, chosen, report) ==
    /\ Accounted(ledger, t.at, t.line, Fate)
    /\ Deferred(s, chosen, report) =>
           Skipped(s, t) \/ Accounted(ledger, t.at, t.line, {"unresolved"})
    /\ ~Deferred(s, chosen, report) /\ Target(s, chosen, report) # "other" =>
           t.line = <<>> \/ Skipped(s, t) \/ Accounted(ledger, t.at, t.line, PlacedFates)

LEMMA SettledOn ==
    ASSUME NEW ledger, NEW more, ledger \subseteq more, NEW s, NEW t, NEW chosen, NEW report,
           Settled(ledger, s, t, chosen, report)
    PROVE  Settled(more, s, t, chosen, report)
<1>1. \A fates : Accounted(ledger, t.at, t.line, fates) => Accounted(more, t.at, t.line, fates)
    BY DEF Accounted
<1> QED
    BY <1>1 DEF Settled

LEMMA PlaceCustomForms ==
    ASSUME NEW fields, NEW b \in Build, NEW s \in Section, NEW chosen, NEW report
    PROVE  LET c == PlaceCustom(b, s, chosen, report)
           IN  /\ Grows(fields, b, c)
               /\ \A t \in CustomTexts(s) : Settled(c.ledger, s, t, chosen, report)
<1> DEFINE target == Target(s, chosen, report)
           c == PlaceCustom(b, s, chosen, report)
<1>1. CASE target = "other"
    <2>1. c = Disposed(b, s, "preserved_in_evidence")
        BY <1>1 DEF PlaceCustom
    <2>2. "preserved_in_evidence" \in Fate \ PlacedFates
        BY DEF Fate, AllowedFates, PlacedFates
    <2>3. ~Deferred(s, chosen, report)
        BY <1>1 DEF Deferred
    <2> DEFINE fate == "preserved_in_evidence"
    <2> HIDE DEF c, fate
    <2>4. LET d == Disposed(b, s, fate)
          IN  /\ Grows(fields, b, d)
              /\ \A t \in CustomTexts(s) :
                     /\ Accounted(d.ledger, t.at, t.line, Fate)
                     /\ Skipped(s, t) \/ Accounted(d.ledger, t.at, t.line, {fate})
        BY <2>2, DisposedForms DEF fate
    <2> QED
        BY <1>1, <2>1, <2>3, <2>4 DEF Settled, fate, c
<1>2. CASE target # "other" /\ Deferred(s, chosen, report)
    <2>1. c = Disposed(b, s, "unresolved")
        BY <1>2 DEF PlaceCustom
    <2>2. "unresolved" \in Fate \ PlacedFates
        BY DEF Fate, AllowedFates, PlacedFates
    <2> DEFINE fate == "unresolved"
    <2> HIDE DEF c, fate
    <2>4. LET d == Disposed(b, s, fate)
          IN  /\ Grows(fields, b, d)
              /\ \A t \in CustomTexts(s) :
                     /\ Accounted(d.ledger, t.at, t.line, Fate)
                     /\ Skipped(s, t) \/ Accounted(d.ledger, t.at, t.line, {fate})
        BY <2>2, DisposedForms DEF fate
    <2> QED
        BY <1>2, <2>1, <2>4 DEF Settled, fate, c
<1>3. CASE target # "other" /\ ~Deferred(s, chosen, report)
    <2> DEFINE heading == Heading[s.name]
               titles == [i \in DOMAIN s.items |-> s.items[i].title]
               at == [i \in DOMAIN titles |-> <<s.key, i, 1>>]
    <2>1. c = AddLines(b, target, heading, titles, at)
        BY <1>3 DEF PlaceCustom
    <2>2. target \in ListKind /\ Placeable(s, target)
        BY <1>3 DEF Deferred
    <2>3. s.items \in Seq(Item) /\ s.key \in STRING
        BY DEF Section
    <2>4. /\ titles \in Seq(Line) /\ DOMAIN titles = DOMAIN s.items
          /\ \A i \in DOMAIN s.items : titles[i] = s.items[i].title /\ i \in Nat
        <3>1. /\ DOMAIN s.items = 1 .. Len(s.items) /\ Len(s.items) \in Nat
              /\ \A i \in DOMAIN s.items : s.items[i] \in Item
            BY <2>3
        <3>2. \A i \in DOMAIN s.items : s.items[i].title \in Line
            BY <3>1 DEF Item
        <3> QED
            BY <3>1, <3>2
    <2>5. \A i \in DOMAIN titles : at[i] = <<s.key, i, 1>> /\ at[i] \in Path
        BY <2>3, <2>4 DEF Path
    <2> HIDE DEF c, target, titles, at, heading
    <2>6. LET d == AddLines(b, target, heading, titles, at)
          IN  /\ Grows(fields, b, d)
              /\ \A i \in DOMAIN titles : Handled(d.ledger, at[i], titles[i], heading)
        <3>1. \A i \in DOMAIN titles : at[i] \in Path
            BY <2>5
        <3> QED
            BY <2>2, <2>4, <3>1, AddLinesForms
    <2>7. \A i \in DOMAIN s.items : \A j \in DOMAIN s.items[i].details : s.items[i].details[j] = <<>>
        <3> TAKE i \in DOMAIN s.items
        <3> TAKE j \in DOMAIN s.items[i].details
        <3>1. CASE s.type = "strings"
            <4>1. s.items[i].details = <<>>
                BY <3>1 DEF Section
            <4> QED
                BY <4>1
        <3>2. CASE s.type # "strings"
            <4>1. ToSet(s.items[i].details) \subseteq {<<>>}
                BY <2>2, <3>2 DEF Placeable
            <4> QED
                BY <4>1 DEF ToSet
        <3> QED
            BY <3>1, <3>2
    <2>8. \A t \in CustomTexts(s) : Settled(c.ledger, s, t, chosen, report)
        <3> TAKE t \in CustomTexts(s)
        <3>1. PICK i \in DOMAIN s.items :
                  \/ t.at = <<s.key, i, 1>> /\ t.line = s.items[i].title
                  \/ \E j \in DOMAIN s.items[i].details : t.line = s.items[i].details[j]
            BY CustomTextsForms
        <3>2. CASE t.at = <<s.key, i, 1>> /\ t.line = s.items[i].title
            <4>1. Handled(c.ledger, t.at, t.line, heading)
                BY <2>1, <2>4, <2>5, <2>6, <3>2
            <4>2. AllowedFates \subseteq Fate /\ c.ledger \subseteq c.ledger
                BY DEF Fate
            <4>3. Accounted(c.ledger, t.at, t.line, Fate)
                BY <4>1, <4>2, AccountedOn DEF Handled
            <4> QED
                BY <1>3, <4>1, <4>3 DEF Settled, Handled, Skipped, heading, target
        <3>3. CASE \E j \in DOMAIN s.items[i].details : t.line = s.items[i].details[j]
            <4>1. t.line = <<>>
                BY <2>7, <3>3
            <4>2. LineTokens(t.line) = {}
                BY <4>1, TokensOfLine, CustomTextsForms
            <4>3. Accounted(c.ledger, t.at, t.line, Fate)
                BY <4>2 DEF Accounted
            <4> QED
                BY <1>3, <4>1, <4>3 DEF Settled, target
        <3> QED
            BY <3>1, <3>2, <3>3
    <2> QED
        BY <2>1, <2>6, <2>8 DEF c
<1> QED
    BY <1>1, <1>2, <1>3

CustomRun(h, doc, chosen, report) ==
    /\ h[0] = DefaultLists(doc)
    /\ \A i \in 1 .. Len(doc.custom) : h[i] = PlaceCustom(h[i - 1], doc.custom[i], chosen, report)

\* The build apply_shape_transforms ends with.
Transformed(doc, report, chosen) ==
    FoldLeft(LAMBDA b, s : PlaceCustom(b, s, chosen, report), DefaultLists(doc), doc.custom)

\* The custom sections are placed in their order.
LEMMA TransformedRun ==
    ASSUME NEW doc \in Source, NEW chosen, NEW report
    PROVE  \E h : CustomRun(h, doc, chosen, report) /\ Transformed(doc, report, chosen) = h[Len(doc.custom)]
<1> DEFINE seq == doc.custom
           n == Len(seq)
           Op(b, x) == PlaceCustom(b, x, chosen, report)
           F == [p \in Build \X (1 .. n) |-> Op(p[1], seq[p[2]])]
           Folds(f) == f = [S \in SUBSET DOMAIN seq |->
                            IF S = {} THEN DefaultLists(doc) ELSE Op(f[S \ {Max(S)}], seq[Max(S)])]
           C == CHOOSE f : Folds(f)
           h == [i \in 0 .. n |-> C[1 .. i]]
<1>1. n \in Nat /\ DOMAIN seq = 1 .. n /\ \A i \in 1 .. n : seq[i] \in Section
    <2>1. seq \in Seq(Section)
        BY DEF Source
    <2> QED
        BY <2>1
<1>2. \A b \in Build, i \in 1 .. n : Op(b, seq[i]) \in Build
    <2> SUFFICES ASSUME NEW b \in Build, NEW i \in 1 .. n PROVE Op(b, seq[i]) \in Build
        OBVIOUS
    <2>1. seq[i] \in Section
        BY <1>1
    <2>2. LET c == PlaceCustom(b, seq[i], chosen, report)
          IN  /\ Grows({}, b, c)
              /\ \A t \in CustomTexts(seq[i]) : Settled(c.ledger, seq[i], t, chosen, report)
        BY <2>1, PlaceCustomForms
    <2> QED
        BY <2>2 DEF Grows
<1>3. Transformed(doc, report, chosen) = C[DOMAIN seq]
    BY DEF Transformed, FoldLeft, MapThenFoldSet
<1>4. DefaultLists(doc) \in Build
    BY DefaultListsForms
<1> HIDE DEF Op, seq, n
<1>5. PICK f : RecursesOver(f, n, Build, DefaultLists(doc), F)
    <2>1. F \in [Build \X (1 .. n) -> Build]
        BY <1>2
    <2> HIDE DEF F
    <2> QED
        BY <1>1, <1>4, <2>1, FoldRecursion
<1>6. Folds(f)
    <2>1. \A S \in SUBSET (1 .. n) :
              f[S] = IF S = {} THEN DefaultLists(doc) ELSE Op(f[S \ {Max(S)}], seq[Max(S)])
        <3> TAKE S \in SUBSET (1 .. n)
        <3>1. CASE S = {}
            BY <1>5, <3>1 DEF RecursesOver
        <3>2. CASE S # {}
            <4>1. Max(S) \in 1 .. n
                BY <1>1, <3>2, MaxOfIndexes
            <4>2. f[S \ {Max(S)}] \in Build /\ f[S] = F[<<f[S \ {Max(S)}], Max(S)>>]
                <5> HIDE DEF F
                <5> QED
                    BY <1>5, <3>2 DEF RecursesOver
            <4> QED
                BY <3>2, <4>1, <4>2
        <3> QED
            BY <3>1, <3>2
    <2>2. f = [S \in SUBSET (1 .. n) |-> f[S]]
        <3> HIDE DEF F
        <3> QED
            BY <1>5 DEF RecursesOver
    <2> QED
        BY <1>1, <2>1, <2>2
<1>7. Folds(C)
    <2> HIDE DEF Folds
    <2> QED
        BY <1>6
<1>8. h[0] = DefaultLists(doc) /\ \A i \in 1 .. n : h[i] = Op(h[i - 1], seq[i])
    <2> HIDE DEF C
    <2>1. 1 .. 0 = {} /\ 0 \in 0 .. n
        BY <1>1
    <2>2. \A i \in 1 .. n : C[1 .. i] = Op(C[1 .. (i - 1)], seq[i])
        <3> TAKE i \in 1 .. n
        <3>1. /\ 1 .. i \in SUBSET DOMAIN seq
              /\ 1 .. i # {}
              /\ Max(1 .. i) = i
              /\ (1 .. i) \ {Max(1 .. i)} = 1 .. (i - 1)
            BY <1>1, UpTo
        <3>2. C[1 .. i] = Op(C[(1 .. i) \ {Max(1 .. i)}], seq[Max(1 .. i)])
            BY <1>7, <3>1
        <3> QED
            BY <3>1, <3>2
    <2>3. \A i \in 1 .. n : i \in 0 .. n /\ i - 1 \in 0 .. n
        BY <1>1
    <2> QED
        BY <1>1, <1>7, <2>1, <2>2, <2>3
<1>9. Transformed(doc, report, chosen) = h[n]
    <2>1. n \in 0 .. n
        BY <1>1
    <2> HIDE DEF C
    <2> QED
        BY <1>1, <1>3, <2>1
<1>10. CustomRun(h, doc, chosen, report)
    BY <1>8 DEF CustomRun, Op, n, seq
<1> QED
    BY <1>9, <1>10 DEF n, seq

LEMMA TransformedForms ==
    ASSUME NEW doc \in Source, NEW chosen, NEW report
    PROVE  LET b == Transformed(doc, report, chosen)
           IN  /\ b \in Build /\ Truthful(CanonicalFields(doc), b)
               /\ \A f \in Field : \A i \in DOMAIN doc.fields[f] :
                      Accounted(b.ledger, <<f, i>>, doc.fields[f][i], Fate)
               /\ \A k \in ListKind : \A i \in DOMAIN doc.lists[k] :
                      Accounted(b.ledger, <<k, i>>, doc.lists[k][i], Fate)
               /\ \A s \in ToSet(doc.custom) : \A t \in CustomTexts(s) :
                      Settled(b.ledger, s, t, chosen, report)
<1>1. PICK h : /\ CustomRun(h, doc, chosen, report)
               /\ Transformed(doc, report, chosen) = h[Len(doc.custom)]
    BY TransformedRun
<1> DEFINE n == Len(doc.custom)
           custom == doc.custom
<1>2. custom \in Seq(Section)
    BY DEF Source
<1>3. n \in Nat /\ DOMAIN custom = 1 .. n /\ \A i \in 1 .. n : custom[i] \in Section
    BY <1>2
<1>4. h[0] = DefaultLists(doc) /\ \A i \in 1 .. n : h[i] = PlaceCustom(h[i - 1], custom[i], chosen, report)
    BY <1>1 DEF CustomRun
<1> HIDE DEF n, custom
<1>5. \A i \in 1 .. n : h[i - 1] \in Build =>
          /\ Grows(CanonicalFields(doc), h[i - 1], h[i])
          /\ \A t \in CustomTexts(custom[i]) : Settled(h[i].ledger, custom[i], t, chosen, report)
    BY <1>3, <1>4, PlaceCustomForms
<1>6. \A i \in 0 .. n : h[i] \in Build /\ Grows(CanonicalFields(doc), h[i], h[n])
    <2>1. h[0] \in Build
        BY <1>4, DefaultListsForms
    <2>2. \A i \in 1 .. n : h[i - 1] \in Build => Grows(CanonicalFields(doc), h[i - 1], h[i])
        BY <1>5
    <2> QED
        BY <1>3, <2>1, <2>2, RunGrows
<1>7. Grows(CanonicalFields(doc), DefaultLists(doc), h[n]) /\ h[n] \in Build
    <2>1. 0 \in 0 .. n /\ n \in 0 .. n
        BY <1>3
    <2> QED
        BY <1>4, <1>6, <2>1
<1>8. Truthful(CanonicalFields(doc), h[n])
    BY <1>7, DefaultListsForms DEF Grows
<1>9. DefaultLists(doc).ledger \subseteq h[n].ledger /\ Fate \subseteq Fate
    BY <1>7 DEF Grows
<1>10. ASSUME NEW f \in Field, NEW i \in DOMAIN doc.fields[f]
       PROVE  Accounted(h[n].ledger, <<f, i>>, doc.fields[f][i], Fate)
    <2>1. Accounted(DefaultLists(doc).ledger, <<f, i>>, doc.fields[f][i], Fate)
        BY DefaultListsForms
    <2> QED
        BY <1>9, <2>1, AccountedOn
<1>11. ASSUME NEW k \in ListKind, NEW i \in DOMAIN doc.lists[k]
       PROVE  Accounted(h[n].ledger, <<k, i>>, doc.lists[k][i], Fate)
    <2>1. Accounted(DefaultLists(doc).ledger, <<k, i>>, doc.lists[k][i], Fate)
        BY DefaultListsForms
    <2> QED
        BY <1>9, <2>1, AccountedOn
<1>12. ASSUME NEW s \in ToSet(custom), NEW t \in CustomTexts(s)
       PROVE  Settled(h[n].ledger, s, t, chosen, report)
    <2>1. PICK m \in 1 .. n : custom[m] = s
        BY <1>3 DEF ToSet
    <2>2. m - 1 \in 0 .. n /\ m \in 0 .. n
        BY <1>3
    <2>3. Settled(h[m].ledger, s, t, chosen, report)
        BY <1>5, <1>6, <2>1, <2>2
    <2>4. h[m].ledger \subseteq h[n].ledger
        BY <1>6, <2>2 DEF Grows
    <2> QED
        BY <2>3, <2>4, SettledOn
<1> QED
    BY <1>1, <1>7, <1>8, <1>10, <1>11, <1>12 DEF n, custom

\* The years of a line: whole, or each word of them in the start or the end but
\* for the words a range is written with.
YearsStand(line, lines) ==
    /\ lines \in Seq(Line) /\ Len(lines) = 3
    /\ \/ lines[3] = line
       \/ LineTokens(line) \subseteq LineTokens(lines[1]) \cup LineTokens(lines[2]) \cup RangeWords

FieldsStand(before, after) ==
    /\ after \in [Field -> Seq(Line)]
    /\ \A f \in Field \ DateFields : after[f] = before[f]
    /\ \A f \in DateFields : IF before[f] = <<>> THEN after[f] = <<>>
                             ELSE YearsStand(before[f][1], after[f])

\* The canonical resume and its ledger.
FixForms(fix, doc, report, chosen) ==
    /\ FieldsStand(doc.fields, fix.resume.fields) /\ fix.resume.lists \in Lists
    /\ fix.resume = [fields |-> fix.resume.fields, lists |-> fix.resume.lists]
    /\ fix.ledger \in SUBSET Entry
    /\ \A e \in fix.ledger : e.fate \in PlacedFates => Stands(fix.resume.fields, fix.resume.lists, e)
    /\ \A f \in Field : \A i \in DOMAIN doc.fields[f] :
           Accounted(fix.ledger, <<f, i>>, doc.fields[f][i], Fate)
    /\ \A k \in ListKind : \A i \in DOMAIN doc.lists[k] :
           Accounted(fix.ledger, <<k, i>>, doc.lists[k][i], Fate)
    /\ \A s \in ToSet(doc.custom) : \A t \in CustomTexts(s) :
           Settled(fix.ledger, s, t, chosen, report)
    /\ \A f \in fix.deferred : f.family = "custom_mapped" =>
           \E s \in ToSet(doc.custom) : Deferred(s, chosen, report) /\ f.section = <<s.name>>

\* Fixing the shape of any resume of the schema, whatever was asked and answered
\* (shape_fix.py, apply_shape_transforms): the standard fields are kept as they
\* were but for the years of roles and projects, which stay whole or become a start
\* and an end and lose at most the words around them; the ledger has an entry for every token of every field and list it read
\* and settles every custom section, an entry that claims a token was placed
\* names a place where it now stands, or the start date of the years it was
\* written with; and a section is deferred only when the report and the answers
\* leave it so.
THEOREM TransformForms ==
    ASSUME NEW doc \in Source, NEW chosen, NEW report
    PROVE  FixForms(ApplyShapeTransforms(doc, report, chosen), doc, report, chosen)
<1> DEFINE b == Transformed(doc, report, chosen)
           fix == ApplyShapeTransforms(doc, report, chosen)
<1>1. /\ fix.resume = [fields |-> CanonicalFields(doc), lists |-> b.out]
      /\ fix.ledger = b.ledger
      /\ \A f \in fix.deferred : f.family = "custom_mapped" =>
             \E s \in ToSet(doc.custom) : Deferred(s, chosen, report) /\ f.section = <<s.name>>
    <2>1. fix.resume = [fields |-> CanonicalFields(doc), lists |-> b.out] /\ fix.ledger = b.ledger
        BY DEF ApplyShapeTransforms, Transformed
    <2>2. \A f \in fix.deferred : f.family = "custom_mapped" =>
             \E s \in ToSet(doc.custom) : Deferred(s, chosen, report) /\ f.section = <<s.name>>
        <3>1. fix.deferred =
                {f \in report : \/ f.family = "budget"
                                \/ f.section \in {<<s.name>> : s \in {t \in ToSet(doc.custom) :
                                                     TRUE = Deferred(t, chosen, report)}}}
            BY DEF ApplyShapeTransforms
        <3> QED
            BY <3>1
    <2> QED
        BY <2>1, <2>2
<1>2. /\ b \in Build /\ Truthful(CanonicalFields(doc), b)
      /\ \A f \in Field : \A i \in DOMAIN doc.fields[f] :
             Accounted(b.ledger, <<f, i>>, doc.fields[f][i], Fate)
      /\ \A k \in ListKind : \A i \in DOMAIN doc.lists[k] :
             Accounted(b.ledger, <<k, i>>, doc.lists[k][i], Fate)
      /\ \A s \in ToSet(doc.custom) : \A t \in CustomTexts(s) :
             Settled(b.ledger, s, t, chosen, report)
    BY TransformedForms
<1> HIDE DEF b, fix
<1>3. b.out \in Lists /\ b.ledger \in SUBSET Entry
    BY <1>2 DEF Build
<1>4. FieldsStand(doc.fields, CanonicalFields(doc))
    <2>1. \A f \in DateFields : doc.fields[f] # <<>> =>
              YearsStand(doc.fields[f][1], CanonicalFields(doc)[f])
        <3> SUFFICES ASSUME NEW f \in DateFields, doc.fields[f] # <<>>
                     PROVE  YearsStand(doc.fields[f][1], CanonicalFields(doc)[f])
            OBVIOUS
        <3> DEFINE line == doc.fields[f][1]
                   lines == CanonicalFields(doc)[f]
        <3>1. line \in Line /\ lines = CanonicalYears(line)
            BY CanonicalFieldsForms
        <3> HIDE DEF line, lines
        <3>2. YearsStand(line, lines)
            BY <3>1, YearsKept DEF YearsStand
        <3> QED
            BY <3>2 DEF line, lines
    <2> QED
        BY <2>1, CanonicalFieldsForms DEF FieldsStand
<1> QED
    BY <1>1, <1>2, <1>3, <1>4 DEF FixForms, Truthful, fix

-----------------------------------------------------------------------------
(* The evidence.                                                            *)

\* The texts of the custom sections, as the evidence is seeded with them.
SectionTexts(section) == FlattenSeq([i \in DOMAIN section.items |-> ItemTexts(section, i)])
SeedTexts(doc) == FlattenSeq([i \in DOMAIN doc.custom |-> SectionTexts(doc.custom[i])])

LEMMA SeedTextsForms ==
    ASSUME NEW doc \in Source
    PROVE  \E X : SeedTexts(doc) \in Seq(X)
<1> DEFINE X == UNION {CustomTexts(s) : s \in ToSet(doc.custom)}
<1>1. /\ doc.custom \in Seq(Section)
      /\ DOMAIN doc.custom = 1 .. Len(doc.custom) /\ Len(doc.custom) \in Nat
      /\ \A c \in DOMAIN doc.custom : doc.custom[c] \in Section /\ doc.custom[c] \in ToSet(doc.custom)
    <2>1. doc.custom \in Seq(Section)
        BY DEF Source
    <2> QED
        BY <2>1 DEF ToSet
<1>2. ASSUME NEW s \in Section, s \in ToSet(doc.custom)
      PROVE  SectionTexts(s) \in Seq(X)
    <2> DEFINE texts == [i \in DOMAIN s.items |-> ItemTexts(s, i)]
    <2>1. s.items \in Seq(Item) /\ DOMAIN s.items = 1 .. Len(s.items) /\ Len(s.items) \in Nat
        BY DEF Section
    <2>2. ASSUME NEW i \in DOMAIN s.items
          PROVE  ItemTexts(s, i) \in Seq(X)
        <3> DEFINE lines == ItemLines(s.items[i])
        <3>1. s.items[i] \in Item
            BY <2>1
        <3>2. s.items[i].title \in Line /\ s.items[i].details \in Seq(Line)
            BY <3>1 DEF Item
        <3>3. lines \in Seq(Line)
            BY <3>2 DEF ItemLines
        <3> HIDE DEF lines
        <3>4. /\ ItemTexts(s, i) = [j \in DOMAIN lines |-> [at |-> <<s.key, i, j>>, line |-> lines[j]]]
              /\ DOMAIN lines = 1 .. Len(lines) /\ Len(lines) \in Nat
            BY <3>3 DEF ItemTexts, lines
        <3>5. \A j \in DOMAIN ItemTexts(s, i) : ItemTexts(s, i)[j] \in X
            <4> TAKE j \in DOMAIN ItemTexts(s, i)
            <4>1. ItemTexts(s, i)[j] \in ToSet(ItemTexts(s, i))
                BY DEF ToSet
            <4>2. ItemTexts(s, i)[j] \in CustomTexts(s)
                BY <4>1 DEF CustomTexts
            <4> QED
                BY <1>2, <4>2
        <3> HIDE DEF X
        <3> QED
            BY <3>4, <3>5
    <2> HIDE DEF X
    <2>3. texts \in Seq(Seq(X))
        BY <2>1, <2>2
    <2> HIDE DEF texts
    <2>4. FlattenSeq(texts) \in Seq(X)
        BY <2>3, FlattenSeqMembers
    <2> QED
        BY <2>4 DEF SectionTexts, texts
<1> DEFINE texts == [i \in DOMAIN doc.custom |-> SectionTexts(doc.custom[i])]
<1> HIDE DEF X
<1>3. texts \in Seq(Seq(X))
    BY <1>1, <1>2
<1> HIDE DEF texts
<1>4. FlattenSeq(texts) \in Seq(X)
    BY <1>3, FlattenSeqMembers
<1> QED
    BY <1>4 DEF SeedTexts, texts

MergingRun(h, records, texts) ==
    h[0] = records /\ \A i \in 1 .. Len(texts) : h[i] = Merged(h[i - 1], texts[i])

\* The evidence with the texts merged in.
AllMerged(records, texts) == FoldLeft(Merged, records, texts)

\* The texts are merged in their order.
LEMMA AllMergedRun ==
    ASSUME NEW X, NEW texts \in Seq(X), NEW records
    PROVE  \E h : MergingRun(h, records, texts) /\ AllMerged(records, texts) = h[Len(texts)]
<1> DEFINE seq == texts
           All == SUBSET (records \cup ToSet(texts))
           n == Len(seq)
           Op(b, x) == Merged(b, x)
           F == [p \in All \X (1 .. n) |-> Op(p[1], seq[p[2]])]
           Folds(f) == f = [S \in SUBSET DOMAIN seq |->
                            IF S = {} THEN records ELSE Op(f[S \ {Max(S)}], seq[Max(S)])]
           C == CHOOSE f : Folds(f)
           h == [i \in 0 .. n |-> C[1 .. i]]
<1>1. n \in Nat /\ DOMAIN seq = 1 .. n
    OBVIOUS
<1>2. \A b \in All, i \in 1 .. n : Op(b, seq[i]) \in All
    <2> TAKE b \in All, i \in 1 .. n
    <2>1. seq[i] \in ToSet(texts)
        BY <1>1 DEF ToSet
    <2> QED
        BY <2>1 DEF Merged
<1>3. AllMerged(records, texts) = C[DOMAIN seq]
    BY DEF AllMerged, FoldLeft, MapThenFoldSet
<1>4. records \in All
    OBVIOUS
<1> HIDE DEF Op, seq, n, All
<1>5. PICK f : RecursesOver(f, n, All, records, F)
    <2>1. F \in [All \X (1 .. n) -> All]
        BY <1>2
    <2> HIDE DEF F
    <2> QED
        BY <1>1, <1>4, <2>1, FoldRecursion
<1>6. Folds(f)
    <2>1. \A S \in SUBSET (1 .. n) :
              f[S] = IF S = {} THEN records ELSE Op(f[S \ {Max(S)}], seq[Max(S)])
        <3> TAKE S \in SUBSET (1 .. n)
        <3>1. CASE S = {}
            BY <1>5, <3>1 DEF RecursesOver
        <3>2. CASE S # {}
            <4>1. Max(S) \in 1 .. n
                BY <1>1, <3>2, MaxOfIndexes
            <4>2. f[S \ {Max(S)}] \in All /\ f[S] = F[<<f[S \ {Max(S)}], Max(S)>>]
                <5> HIDE DEF F
                <5> QED
                    BY <1>5, <3>2 DEF RecursesOver
            <4> QED
                BY <3>2, <4>1, <4>2
        <3> QED
            BY <3>1, <3>2
    <2>2. f = [S \in SUBSET (1 .. n) |-> f[S]]
        <3> HIDE DEF F
        <3> QED
            BY <1>5 DEF RecursesOver
    <2> QED
        BY <1>1, <2>1, <2>2
<1>7. Folds(C)
    <2> HIDE DEF Folds
    <2> QED
        BY <1>6
<1>8. h[0] = records /\ \A i \in 1 .. n : h[i] = Op(h[i - 1], seq[i])
    <2> HIDE DEF C
    <2>1. 1 .. 0 = {} /\ 0 \in 0 .. n
        BY <1>1
    <2>2. \A i \in 1 .. n : C[1 .. i] = Op(C[1 .. (i - 1)], seq[i])
        <3> TAKE i \in 1 .. n
        <3>1. /\ 1 .. i \in SUBSET DOMAIN seq
              /\ 1 .. i # {}
              /\ Max(1 .. i) = i
              /\ (1 .. i) \ {Max(1 .. i)} = 1 .. (i - 1)
            BY <1>1, UpTo
        <3>2. C[1 .. i] = Op(C[(1 .. i) \ {Max(1 .. i)}], seq[Max(1 .. i)])
            BY <1>7, <3>1
        <3> QED
            BY <3>1, <3>2
    <2>3. \A i \in 1 .. n : i \in 0 .. n /\ i - 1 \in 0 .. n
        BY <1>1
    <2> QED
        BY <1>1, <1>7, <2>1, <2>2, <2>3
<1>9. AllMerged(records, texts) = h[n]
    <2>1. n \in 0 .. n
        BY <1>1
    <2> HIDE DEF C
    <2> QED
        BY <1>1, <1>3, <2>1
<1>10. MergingRun(h, records, texts)
    BY <1>8 DEF MergingRun, Op, n, seq
<1> QED
    BY <1>9, <1>10 DEF n, seq

\* No record leaves the evidence, nor does what it can be quoted for.
LEMMA EvidenceGrows ==
    ASSUME NEW doc \in Source, NEW records
    PROVE  Receipts(records) \subseteq Receipts(SeedEvidence(records, doc))
<1> DEFINE texts == SeedTexts(doc)
<1>1. SeedEvidence(records, doc) = AllMerged(records, texts)
    BY DEF SeedEvidence, AllMerged, SeedTexts, SectionTexts
<1>2. PICK X : texts \in Seq(X)
    BY SeedTextsForms
<1> DEFINE n == Len(texts)
<1>3. n \in Nat
    BY <1>2
<1> HIDE DEF texts
<1>4. PICK h : MergingRun(h, records, texts) /\ AllMerged(records, texts) = h[n]
    BY <1>2, AllMergedRun
<1>5. h[0] = records /\ \A i \in 1 .. n : h[i] = Merged(h[i - 1], texts[i])
    BY <1>4 DEF MergingRun
<1> HIDE DEF n
<1> DEFINE good == {i \in 0 .. n : records \subseteq h[i]}
<1>6. n \in good
    <2>1. 0 \in good
        BY <1>3, <1>5
    <2>2. \A i \in 1 .. n : i - 1 \in good => i \in good
        <3> SUFFICES ASSUME NEW i \in 1 .. n, i - 1 \in good PROVE i \in good
            OBVIOUS
        <3>1. h[i] = Merged(h[i - 1], texts[i]) /\ records \subseteq h[i - 1] /\ i \in 0 .. n
            BY <1>3, <1>5
        <3>2. h[i - 1] \subseteq Merged(h[i - 1], texts[i])
            BY DEF Merged
        <3> QED
            BY <3>1, <3>2
    <2> HIDE DEF good
    <2> QED
        BY <1>3, <2>1, <2>2, StepsUp
<1>7. records \subseteq SeedEvidence(records, doc)
    BY <1>1, <1>4, <1>6
<1> QED
    BY <1>7 DEF Receipts

-----------------------------------------------------------------------------
(* The gates.                                                               *)

Resumes == {r \in [fields : [Field -> Seq(Line)], lists : Lists] :
               \A f \in DateFields : r.fields[f] # <<>> => Len(r.fields[f]) = 3}

\* One of the words a range of years is written with, where years were.
RangeWord(token, at) == token \in RangeWords /\ \E f \in DateFields : at = <<f, 1>>

\* A token that stands where the ledger says is in the resume.
LEMMA StandingIsHeld ==
    ASSUME NEW resume \in Resumes, NEW e \in Entry, e.target # <<>>,
           Stands(resume.fields, resume.lists, e)
    PROVE  e.token \in CanonicalTokens(resume) \/ RangeWord(e.token, e.at)
<1> DEFINE InField(g) == LinesTokens(resume.fields[g])
           InList(g) == LinesTokens(resume.lists[g])
           fields == UNION {InField(g) : g \in Field}
           lists == UNION {InList(g) : g \in ListKind}
           at == e.target[1]
<1>1. at \in Field \cup ListKind
    BY DEF Entry, Place
<1>2. CASE OfRange(resume.fields, e)
    <2>1. PICK f \in DateFields : e.at = <<f, 1>> /\ e.target = <<f, 1>>
        BY <1>2 DEF OfRange
    <2>2. e.token \in LineTokens(resume.fields[f][2]) \cup RangeWords
        BY <1>2, <2>1 DEF OfRange
    <2>3. f \in Field
        BY ShapeAssumption
    <2>4. resume.fields[f] \in Seq(Line) /\ 1 \in DOMAIN resume.fields[f]
        BY <2>1, <2>3 DEF Stands, Resumes
    <2>5. 2 \in DOMAIN resume.fields[f]
        BY <2>4 DEF Resumes
    <2>6. e.token \in LineTokens(resume.fields[f][2]) => e.token \in LinesTokens(resume.fields[f])
        BY <2>5 DEF LinesTokens
    <2>7. e.token \in LinesTokens(resume.fields[f]) => e.token \in CanonicalTokens(resume)
        BY <2>3 DEF CanonicalTokens
    <2> QED
        BY <2>1, <2>2, <2>6, <2>7 DEF RangeWord
<1>3. CASE ~OfRange(resume.fields, e)
    <2>1. CanonicalTokens(resume) = (UNION {InList(g) : g \in ListKind}) \cup (UNION {InField(g) : g \in Field})
        BY DEF CanonicalTokens
    <2>2. at \in Field => e.token \in InField(at)
        BY <1>3 DEF Stands, LinesTokens
    <2>3. at \notin Field => e.token \in InList(at)
        BY <1>3 DEF Stands, LinesTokens
    <2> HIDE DEF InField, InList, at
    <2>4. at \in Field => e.token \in fields
        BY <2>2
    <2>5. at \notin Field => e.token \in lists
        BY <1>1, <2>3
    <2>6. CanonicalTokens(resume) = lists \cup fields
        BY <2>1
    <2> HIDE DEF fields, lists
    <2> QED
        BY <2>4, <2>5, <2>6
<1> QED
    BY <1>2, <1>3

\* A token of the source that is not in the resume is on the ledger.
Lost(doc, resume, ledger, receipts) ==
    \E t \in SourceTexts(doc) : \E token \in LineTokens(t.line) \ CanonicalTokens(resume) :
        /\ ~RangeWord(token, t.at)
        /\ ~ \E e \in ledger : /\ e.at = t.at /\ e.token = token
                               /\ e.fate \notin {"moved", "deduped", "unresolved"}
                               /\ e.fate = "preserved_in_evidence" => <<t.at, token>> \in receipts

LEMMA GateLosesNothing ==
    ASSUME NEW doc \in Source, NEW chosen, NEW report, NEW receipts,
           ContentLedgerOk(ApplyShapeTransforms(doc, report, chosen).ledger, receipts)
    PROVE  LET fix == ApplyShapeTransforms(doc, report, chosen)
           IN  ~Lost(doc, fix.resume, fix.ledger, receipts) /\ fix.resume \in Resumes
<1> DEFINE fix == ApplyShapeTransforms(doc, report, chosen)
           resume == fix.resume
           ledger == fix.ledger
<1>1. /\ resume \in Resumes /\ ledger \in SUBSET Entry
      /\ \A e \in ledger : e.fate \in PlacedFates => Stands(resume.fields, resume.lists, e)
      /\ \A f \in Field : \A i \in DOMAIN doc.fields[f] :
             Accounted(ledger, <<f, i>>, doc.fields[f][i], Fate)
      /\ \A k \in ListKind : \A i \in DOMAIN doc.lists[k] :
             Accounted(ledger, <<k, i>>, doc.lists[k][i], Fate)
      /\ \A s \in ToSet(doc.custom) : \A t \in CustomTexts(s) :
             Settled(ledger, s, t, chosen, report)
    <2>4. FixForms(fix, doc, report, chosen)
        BY TransformForms
    <2> HIDE DEF fix
    <2>2. /\ FieldsStand(doc.fields, resume.fields) /\ resume.lists \in Lists
          /\ resume = [fields |-> resume.fields, lists |-> resume.lists]
          /\ ledger \in SUBSET Entry
          /\ \A e \in ledger : e.fate \in PlacedFates => Stands(resume.fields, resume.lists, e)
          /\ \A f \in Field : \A i \in DOMAIN doc.fields[f] :
                 Accounted(ledger, <<f, i>>, doc.fields[f][i], Fate)
          /\ \A k \in ListKind : \A i \in DOMAIN doc.lists[k] :
                 Accounted(ledger, <<k, i>>, doc.lists[k][i], Fate)
          /\ \A s \in ToSet(doc.custom) : \A t \in CustomTexts(s) :
                 Settled(ledger, s, t, chosen, report)
        BY <2>4 DEF FixForms
    <2>3. resume \in Resumes
        <3>1. \A f \in DateFields : resume.fields[f] # <<>> => Len(resume.fields[f]) = 3
            BY <2>2 DEF FieldsStand, YearsStand
        <3> QED
            BY <2>2, <3>1 DEF Resumes, FieldsStand
    <2> QED
        BY <2>2, <2>3
<1>2. ContentLedgerOk(ledger, receipts)
    OBVIOUS
<1> HIDE DEF fix, ledger, resume
<1>3. \A t \in SourceTexts(doc) : Accounted(ledger, t.at, t.line, Fate)
    <2> TAKE t \in SourceTexts(doc)
    <2> DEFINE InField(f) == {[at |-> <<f, i>>, line |-> doc.fields[f][i]] : i \in DOMAIN doc.fields[f]}
               InList(k) == {[at |-> <<k, i>>, line |-> doc.lists[k][i]] : i \in DOMAIN doc.lists[k]}
    <2>1. CASE \E f \in Field : t \in InField(f)
        <3>1. PICK f \in Field : t \in {[at |-> <<f, i>>, line |-> doc.fields[f][i]] : i \in DOMAIN doc.fields[f]}
            BY <2>1
        <3>2. PICK i \in DOMAIN doc.fields[f] : t = [at |-> <<f, i>>, line |-> doc.fields[f][i]]
            BY <3>1
        <3>3. t.at = <<f, i>> /\ t.line = doc.fields[f][i]
            BY <3>2
        <3> QED
            BY <1>1, <3>3
    <2>2. CASE \E k \in ListKind : t \in InList(k)
        <3>1. PICK k \in ListKind : t \in {[at |-> <<k, i>>, line |-> doc.lists[k][i]] : i \in DOMAIN doc.lists[k]}
            BY <2>2
        <3>2. PICK i \in DOMAIN doc.lists[k] : t = [at |-> <<k, i>>, line |-> doc.lists[k][i]]
            BY <3>1
        <3>3. t.at = <<k, i>> /\ t.line = doc.lists[k][i]
            BY <3>2
        <3> QED
            BY <1>1, <3>3
    <2>3. CASE \E s \in ToSet(doc.custom) : t \in CustomTexts(s)
        BY <1>1, <2>3 DEF Settled
    <2> DEFINE fields == UNION {InField(f) : f \in Field}
               lists == UNION {InList(k) : k \in ListKind}
               customs == UNION {CustomTexts(s) : s \in ToSet(doc.custom)}
    <2>4. SourceTexts(doc) = (UNION {InField(f) : f \in Field}) \cup (UNION {InList(k) : k \in ListKind})
                             \cup (UNION {CustomTexts(s) : s \in ToSet(doc.custom)})
        BY DEF SourceTexts
    <2> HIDE DEF InField, InList
    <2>5. t \in fields => \E f \in Field : t \in InField(f)
        OBVIOUS
    <2>6. t \in lists => \E k \in ListKind : t \in InList(k)
        OBVIOUS
    <2>7. t \in customs => \E s \in ToSet(doc.custom) : t \in CustomTexts(s)
        OBVIOUS
    <2>8. t \in fields \cup lists \cup customs
        BY <2>4
    <2> HIDE DEF fields, lists, customs
    <2> QED
        BY <2>1, <2>2, <2>3, <2>5, <2>6, <2>7, <2>8
<1>4. ASSUME NEW t \in SourceTexts(doc), NEW token \in LineTokens(t.line) \ CanonicalTokens(resume),
             ~RangeWord(token, t.at)
      PROVE  \E e \in ledger : /\ e.at = t.at /\ e.token = token
                               /\ e.fate \notin {"moved", "deduped", "unresolved"}
                               /\ e.fate = "preserved_in_evidence" => <<t.at, token>> \in receipts
    <2>1. PICK e \in ledger : e.at = t.at /\ e.token = token /\ e.fate \in Fate
        BY <1>3 DEF Accounted
    <2>2. /\ e.fate \in AllowedFates
          /\ e.fate \in {"moved", "deduped"} => e.target # <<>>
          /\ e.fate = "preserved_in_evidence" => <<e.at, e.token>> \in receipts
        BY <1>2 DEF ContentLedgerOk
    <2>3. e.fate \notin PlacedFates
        <3>1. ASSUME e.fate \in PlacedFates PROVE FALSE
            <4>1. Stands(resume.fields, resume.lists, e) /\ e \in Entry /\ e.target # <<>>
                BY <1>1, <2>2, <3>1 DEF PlacedFates
            <4>2. e.token \in CanonicalTokens(resume) \/ RangeWord(e.token, e.at)
                BY <1>1, <4>1, StandingIsHeld
            <4> QED
                BY <1>4, <2>1, <4>2
        <3> QED
            BY <3>1
    <2>4. e.fate \notin {"moved", "deduped", "unresolved"}
        BY <2>2, <2>3 DEF PlacedFates, AllowedFates
    <2> QED
        BY <2>1, <2>2, <2>4
<1> QED
    BY <1>1, <1>4 DEF Lost, fix, resume, ledger

\* A section that is deferred has no content left.
LEMMA GateDefersNothing ==
    ASSUME NEW doc \in Source, NEW chosen, NEW report, NEW receipts,
           ContentLedgerOk(ApplyShapeTransforms(doc, report, chosen).ledger, receipts),
           NEW s \in ToSet(doc.custom),
           NEW f \in ApplyShapeTransforms(doc, report, chosen).deferred,
           f.family = "custom_mapped", f.section = <<s.name>>,
           NEW t \in CustomTexts(s)
    PROVE  \/ t.line = <<>> \/ IsArtifact(t.line) \/ IsHeading(t.line, Heading[s.name])
           \/ Placed(ApplyShapeTransforms(doc, report, chosen).ledger, t)
<1> DEFINE fix == ApplyShapeTransforms(doc, report, chosen)
           ledger == fix.ledger
<1>1. /\ \E z \in ToSet(doc.custom) : Deferred(z, chosen, report) /\ f.section = <<z.name>>
      /\ Settled(ledger, s, t, chosen, report)
    <2>1. /\ \A x \in ToSet(doc.custom) : \A u \in CustomTexts(x) :
                 Settled(fix.ledger, x, u, chosen, report)
          /\ \A g \in fix.deferred : g.family = "custom_mapped" =>
                 \E x \in ToSet(doc.custom) :
                     Deferred(x, chosen, report) /\ g.section = <<x.name>>
        <3>1. FixForms(fix, doc, report, chosen)
            BY TransformForms
        <3> HIDE DEF fix
        <3> QED
            BY <3>1 DEF FixForms
    <2>2. f \in fix.deferred
        OBVIOUS
    <2> HIDE DEF fix
    <2> QED
        BY <2>1, <2>2
<1>2. ContentLedgerOk(ledger, receipts)
    OBVIOUS
<1> HIDE DEF fix, ledger
<1>3. PICK z \in ToSet(doc.custom) : Deferred(z, chosen, report) /\ f.section = <<z.name>>
    BY <1>1
<1>4. z.name = s.name
    BY <1>3
<1>5. Target(s, chosen, report) # "other"
    BY <1>3, <1>4 DEF Deferred, Target
<1>6. CASE Deferred(s, chosen, report)
    <2>1. Skipped(s, t) \/ Accounted(ledger, t.at, t.line, {"unresolved"})
        BY <1>1, <1>6 DEF Settled
    <2>2. \A e \in ledger : e.fate # "unresolved"
        BY <1>2 DEF ContentLedgerOk, AllowedFates
    <2>3. s \in Section
        BY DEF Source, ToSet
    <2>4. Accounted(ledger, t.at, t.line, {"unresolved"}) => t.line = <<>>
        BY <2>2, <2>3, CustomTextsForms, TokensOfLine DEF Accounted
    <2> QED
        BY <2>1, <2>4 DEF Skipped
<1>7. CASE ~Deferred(s, chosen, report)
    <2>1. t.line = <<>> \/ Skipped(s, t) \/ Accounted(ledger, t.at, t.line, PlacedFates)
        BY <1>1, <1>5, <1>7 DEF Settled
    <2>2. Accounted(ledger, t.at, t.line, PlacedFates) => Placed(ledger, t)
        BY DEF Accounted, Placed, PlacedFates
    <2> QED
        BY <2>1, <2>2 DEF Skipped, fix, ledger
<1> QED
    BY <1>6, <1>7

-----------------------------------------------------------------------------
(* What refine reads.                                                       *)

\* One line of the projection.
Unique(kept, line) ==
    IF line = <<>> \/ \E i \in DOMAIN kept : Key(kept[i]) = Key(line) THEN kept
    ELSE Append(kept, line)

UniqueRun(h, lines) == h[0] = <<>> /\ \A i \in 1 .. Len(lines) : h[i] = Unique(h[i - 1], lines[i])

\* The lines are read in their order.
LEMMA UniqueTextRun ==
    ASSUME NEW lines \in Seq(Line)
    PROVE  \E h : UniqueRun(h, lines) /\ UniqueText(lines) = h[Len(lines)]
<1> DEFINE seq == lines
           n == Len(seq)
           Op(b, x) == Unique(b, x)
           F == [p \in Seq(Line) \X (1 .. n) |-> Op(p[1], seq[p[2]])]
           Folds(f) == f = [S \in SUBSET DOMAIN seq |->
                            IF S = {} THEN <<>> ELSE Op(f[S \ {Max(S)}], seq[Max(S)])]
           C == CHOOSE f : Folds(f)
           h == [i \in 0 .. n |-> C[1 .. i]]
<1>1. n \in Nat /\ DOMAIN seq = 1 .. n /\ \A i \in 1 .. n : seq[i] \in Line
    OBVIOUS
<1>2. \A b \in Seq(Line), i \in 1 .. n : Op(b, seq[i]) \in Seq(Line)
    <2> TAKE b \in Seq(Line), i \in 1 .. n
    <2>1. seq[i] \in Line
        BY <1>1
    <2> QED
        BY <2>1 DEF Unique
<1>3. UniqueText(lines) = C[DOMAIN seq]
    BY DEF UniqueText, Unique, FoldLeft, MapThenFoldSet
<1>4. <<>> \in Seq(Line)
    OBVIOUS
<1> HIDE DEF Op, seq, n
<1>5. PICK f : RecursesOver(f, n, Seq(Line), <<>>, F)
    <2>1. F \in [Seq(Line) \X (1 .. n) -> Seq(Line)]
        BY <1>2
    <2> HIDE DEF F
    <2> QED
        BY <1>1, <1>4, <2>1, FoldRecursion
<1>6. Folds(f)
    <2>1. \A S \in SUBSET (1 .. n) :
              f[S] = IF S = {} THEN <<>> ELSE Op(f[S \ {Max(S)}], seq[Max(S)])
        <3> TAKE S \in SUBSET (1 .. n)
        <3>1. CASE S = {}
            BY <1>5, <3>1 DEF RecursesOver
        <3>2. CASE S # {}
            <4>1. Max(S) \in 1 .. n
                BY <1>1, <3>2, MaxOfIndexes
            <4>2. f[S \ {Max(S)}] \in Seq(Line) /\ f[S] = F[<<f[S \ {Max(S)}], Max(S)>>]
                <5> HIDE DEF F
                <5> QED
                    BY <1>5, <3>2 DEF RecursesOver
            <4> QED
                BY <3>2, <4>1, <4>2
        <3> QED
            BY <3>1, <3>2
    <2>2. f = [S \in SUBSET (1 .. n) |-> f[S]]
        <3> HIDE DEF F
        <3> QED
            BY <1>5 DEF RecursesOver
    <2> QED
        BY <1>1, <2>1, <2>2
<1>7. Folds(C)
    <2> HIDE DEF Folds
    <2> QED
        BY <1>6
<1>8. h[0] = <<>> /\ \A i \in 1 .. n : h[i] = Op(h[i - 1], seq[i])
    <2> HIDE DEF C
    <2>1. 1 .. 0 = {} /\ 0 \in 0 .. n
        BY <1>1
    <2>2. \A i \in 1 .. n : C[1 .. i] = Op(C[1 .. (i - 1)], seq[i])
        <3> TAKE i \in 1 .. n
        <3>1. /\ 1 .. i \in SUBSET DOMAIN seq
              /\ 1 .. i # {}
              /\ Max(1 .. i) = i
              /\ (1 .. i) \ {Max(1 .. i)} = 1 .. (i - 1)
            BY <1>1, UpTo
        <3>2. C[1 .. i] = Op(C[(1 .. i) \ {Max(1 .. i)}], seq[Max(1 .. i)])
            BY <1>7, <3>1
        <3> QED
            BY <3>1, <3>2
    <2>3. \A i \in 1 .. n : i \in 0 .. n /\ i - 1 \in 0 .. n
        BY <1>1
    <2> QED
        BY <1>1, <1>7, <2>1, <2>2, <2>3
<1>9. UniqueText(lines) = h[n]
    <2>1. n \in 0 .. n
        BY <1>1
    <2> HIDE DEF C
    <2> QED
        BY <1>1, <1>3, <2>1
<1>10. UniqueRun(h, lines)
    BY <1>8 DEF UniqueRun, Op, n, seq
<1> QED
    BY <1>9, <1>10 DEF n, seq

LEMMA LinesTokensAppend ==
    ASSUME NEW lines \in Seq(Line), NEW line \in Line
    PROVE  LinesTokens(Append(lines, line)) = LinesTokens(lines) \cup LineTokens(line)
<1> DEFINE more == Append(lines, line)
           n == Len(lines)
<1>1. /\ n \in Nat /\ DOMAIN lines = 1 .. n /\ DOMAIN more = 1 .. (n + 1)
      /\ more[n + 1] = line /\ \A i \in 1 .. n : more[i] = lines[i]
    OBVIOUS
<1> HIDE DEF more, n
<1>2. \A i \in 1 .. (n + 1) : i \in 1 .. n \/ i = n + 1
    BY <1>1
<1>3. 1 .. n \subseteq 1 .. (n + 1) /\ n + 1 \in 1 .. (n + 1)
    BY <1>1
<1>4. LinesTokens(more) \subseteq LinesTokens(lines) \cup LineTokens(line)
    BY <1>1, <1>2 DEF LinesTokens
<1>5. LinesTokens(lines) \subseteq LinesTokens(more)
    BY <1>1, <1>3 DEF LinesTokens
<1>6. LineTokens(line) \subseteq LinesTokens(more)
    BY <1>1, <1>3 DEF LinesTokens
<1> QED
    BY <1>4, <1>5, <1>6 DEF more

\* Reading a list back loses none of its tokens and adds none.
LEMMA UniqueTextKeeps ==
    ASSUME NEW lines \in Seq(Line)
    PROVE  UniqueText(lines) \in Seq(Line) /\ LinesTokens(UniqueText(lines)) = LinesTokens(lines)
<1> DEFINE n == Len(lines)
           Up(i) == UNION {LineTokens(lines[j]) : j \in 1 .. i}
<1>1. n \in Nat /\ DOMAIN lines = 1 .. n /\ \A i \in 1 .. n : lines[i] \in Line
    OBVIOUS
<1>2. PICK h : UniqueRun(h, lines) /\ UniqueText(lines) = h[n]
    BY UniqueTextRun
<1>3. h[0] = <<>> /\ \A i \in 1 .. n : h[i] = Unique(h[i - 1], lines[i])
    BY <1>2 DEF UniqueRun
<1>4. LinesTokens(lines) = Up(n)
    BY <1>1 DEF LinesTokens
<1> HIDE DEF n
<1>5. Up(0) = {}
    <2>1. 1 .. 0 = {}
        OBVIOUS
    <2> QED
        BY <2>1
<1>6. \A i \in 1 .. n : Up(i) = Up(i - 1) \cup LineTokens(lines[i])
    <2> TAKE i \in 1 .. n
    <2>1. 1 .. i = 1 .. (i - 1) \cup {i}
        BY <1>1
    <2> QED
        BY <2>1
<1> HIDE DEF Up
<1> DEFINE good == {i \in 0 .. n : h[i] \in Seq(Line) /\ LinesTokens(h[i]) = Up(i)}
<1>7. 0 \in good
    <2>1. <<>> \in Seq(Line) /\ DOMAIN <<>> = {} /\ 0 \in 0 .. n
        BY <1>1
    <2>2. LinesTokens(<<>>) = {}
        BY <2>1 DEF LinesTokens
    <2> QED
        BY <1>3, <1>5, <2>1, <2>2
<1>8. \A i \in 1 .. n : i - 1 \in good => i \in good
    <2> SUFFICES ASSUME NEW i \in 1 .. n, i - 1 \in good PROVE i \in good
        OBVIOUS
    <2> DEFINE kept == h[i - 1]
               line == lines[i]
    <2>1. kept \in Seq(Line) /\ LinesTokens(kept) = Up(i - 1) /\ line \in Line /\ i \in 0 .. n
        BY <1>1
    <2>2. h[i] = Unique(kept, line) /\ Up(i) = Up(i - 1) \cup LineTokens(line)
        BY <1>3, <1>6
    <2> HIDE DEF kept, line, good
    <2>3. h[i] \in Seq(Line) /\ LinesTokens(h[i]) = LinesTokens(kept) \cup LineTokens(line)
        <3>1. CASE line = <<>>
            <4>1. h[i] = kept /\ LineTokens(line) = {}
                BY <2>1, <2>2, <3>1, TokensOfLine DEF Unique
            <4> QED
                BY <2>1, <4>1
        <3>2. CASE \E j \in DOMAIN kept : Key(kept[j]) = Key(line)
            <4>1. PICK j \in DOMAIN kept : Key(kept[j]) = Key(line)
                BY <3>2
            <4>2. h[i] = kept /\ kept[j] \in Line
                BY <2>1, <2>2, <3>2 DEF Unique
            <4>3. LineTokens(kept[j]) = LineTokens(line)
                BY <2>1, <4>1, <4>2, OneKeyOneContent
            <4>4. LineTokens(kept[j]) \subseteq LinesTokens(kept)
                BY <4>1 DEF LinesTokens
            <4> QED
                BY <2>1, <4>2, <4>3, <4>4
        <3>3. CASE line # <<>> /\ ~ \E j \in DOMAIN kept : Key(kept[j]) = Key(line)
            <4>1. h[i] = Append(kept, line)
                BY <2>2, <3>3 DEF Unique
            <4> QED
                BY <2>1, <4>1, LinesTokensAppend
        <3> QED
            BY <3>1, <3>2, <3>3
    <2> QED
        BY <2>1, <2>2, <2>3 DEF good
<1>9. n \in good
    <2> HIDE DEF good
    <2> QED
        BY <1>1, <1>7, <1>8, StepsUp
<1> QED
    BY <1>2, <1>4, <1>9

LEMMA TokensOfBoth ==
    ASSUME NEW v \in Line, NEW w \in Line
    PROVE  LineTokens(v \o w) = LineTokens(v) \cup LineTokens(w)
<1> DEFINE both == v \o w
<1>1. v \in Seq(Phrase) /\ w \in Seq(Phrase)
    BY DEF Line
<1>2. /\ both \in Seq(Phrase) /\ Len(both) = Len(v) + Len(w)
      /\ \A i \in DOMAIN both : both[i] = IF i <= Len(v) THEN v[i] ELSE w[i - Len(v)]
    BY <1>1
<1>3. \A i \in DOMAIN v : i \in DOMAIN both /\ both[i] = v[i]
    BY <1>1, <1>2
<1>4. \A i \in DOMAIN w : i + Len(v) \in DOMAIN both /\ both[i + Len(v)] = w[i]
    BY <1>1, <1>2
<1>5. \A i \in DOMAIN both : (i \in DOMAIN v /\ both[i] = v[i]) \/
                             (i - Len(v) \in DOMAIN w /\ both[i] = w[i - Len(v)])
    BY <1>1, <1>2
<1> HIDE DEF both
<1>6. LineTokens(both) \subseteq LineTokens(v) \cup LineTokens(w)
    BY <1>5 DEF LineTokens
<1>7. LineTokens(v) \subseteq LineTokens(both)
    BY <1>3 DEF LineTokens
<1>8. LineTokens(w) \subseteq LineTokens(both)
    BY <1>4 DEF LineTokens
<1> QED
    BY <1>6, <1>7, <1>8 DEF both

\* Of the years of a project all is read, of those of a role all but the text that
\* stayed whole beside an end that was taken.
LEMMA YearsReadForms ==
    ASSUME NEW f, NEW lines \in Seq(Line), Len(lines) = 3
    PROVE  /\ LinesTokens(YearsRead(f, lines)) \subseteq LinesTokens(lines)
           /\ \A token \in LinesTokens(lines) \ LinesTokens(YearsRead(f, lines)) :
                 /\ f \notin ProjectYears /\ lines[1] \o lines[2] # <<>>
                 /\ token \in LineTokens(lines[3])
<1> DEFINE range == lines[1] \o lines[2]
           whole == lines[3]
           read == YearsRead(f, lines)
<1>1. lines[1] \in Line /\ lines[2] \in Line /\ whole \in Line
    OBVIOUS
<1>2. LineTokens(range) = LineTokens(lines[1]) \cup LineTokens(lines[2])
    BY <1>1, TokensOfBoth
<1>3. DOMAIN lines = {1, 2, 3}
    OBVIOUS
<1>4. LinesTokens(lines) = LineTokens(lines[1]) \cup LineTokens(lines[2]) \cup LineTokens(whole)
    BY <1>3 DEF LinesTokens
<1>5. read = IF f \in ProjectYears THEN <<range, whole>>
             ELSE IF range = <<>> THEN <<whole>> ELSE <<range>>
    BY DEF YearsRead
<1> HIDE DEF range, whole, read
<1>6. CASE f \in ProjectYears
    <2>1. DOMAIN read = {1, 2} /\ read[1] = range /\ read[2] = whole
        BY <1>5, <1>6
    <2>2. LinesTokens(read) = LineTokens(range) \cup LineTokens(whole)
        BY <2>1 DEF LinesTokens
    <2> QED
        BY <1>2, <1>4, <2>2 DEF read
<1>7. CASE f \notin ProjectYears /\ range = <<>>
    <2>1. DOMAIN read = {1} /\ read[1] = whole
        BY <1>5, <1>7
    <2>2. LinesTokens(read) = LineTokens(whole)
        BY <2>1 DEF LinesTokens
    <2>3. LineTokens(range) = {}
        BY <1>7 DEF LineTokens
    <2> QED
        BY <1>2, <1>4, <2>2, <2>3 DEF read
<1>8. CASE f \notin ProjectYears /\ range # <<>>
    <2>1. DOMAIN read = {1} /\ read[1] = range
        BY <1>5, <1>8
    <2>2. LinesTokens(read) = LineTokens(range)
        BY <2>1 DEF LinesTokens
    <2> QED
        BY <1>2, <1>4, <1>8, <2>2 DEF read, range, whole
<1> QED
    BY <1>6, <1>7, <1>8

\* What is read of a resume, as RefineReadsTheStructure states it.
ReadsAll(resume) ==
    LET held == CanonicalTokens(resume)
        read == CanonicalTokens(Projected(resume))
    IN  /\ read \subseteq held
        /\ \A token \in held \ read :
              \E f \in HalfRead(resume) : token \in LineTokens(resume.fields[f][3])

LEMMA ProjectedHolds ==
    ASSUME NEW resume \in Resumes
    PROVE  ReadsAll(resume)
<1> DEFINE read == Projected(resume)
           InField(g) == LinesTokens(resume.fields[g])
           OfField(g) == LinesTokens(read.fields[g])
           InList(g) == LinesTokens(resume.lists[g])
           Read(g) == LinesTokens(read.lists[g])
<1>1. /\ CanonicalTokens(resume) = (UNION {InList(g) : g \in ListKind}) \cup (UNION {InField(g) : g \in Field})
      /\ CanonicalTokens(read) = (UNION {Read(g) : g \in ListKind}) \cup (UNION {OfField(g) : g \in Field})
      /\ \A g \in Field : read.fields[g] = IF g \in DateFields /\ resume.fields[g] # <<>>
                                           THEN YearsRead(g, resume.fields[g]) ELSE resume.fields[g]
      /\ \A g \in ListKind : read.lists[g] = UniqueText(resume.lists[g])
    BY DEF CanonicalTokens, Projected
<1>2. \A g \in ListKind : Read(g) = InList(g)
    <2> TAKE g \in ListKind
    <2>1. resume.lists[g] \in Seq(Line)
        BY DEF Resumes, Lists
    <2> QED
        BY <1>1, <2>1, UniqueTextKeeps
<1> HIDE DEF read
<1>3. ASSUME NEW g \in Field
      PROVE  /\ OfField(g) \subseteq InField(g)
             /\ \A token \in InField(g) \ OfField(g) :
                   g \in HalfRead(resume) /\ token \in LineTokens(resume.fields[g][3])
    <2>1. CASE ~(g \in DateFields /\ resume.fields[g] # <<>>)
        BY <1>1, <2>1
    <2>2. CASE g \in DateFields /\ resume.fields[g] # <<>>
        <3> DEFINE lines == resume.fields[g]
        <3>1. lines \in Seq(Line) /\ Len(lines) = 3
            BY <2>2 DEF Resumes
        <3>2. read.fields[g] = YearsRead(g, lines)
            BY <1>1, <2>2
        <3> HIDE DEF lines
        <3>3. /\ LinesTokens(YearsRead(g, lines)) \subseteq LinesTokens(lines)
              /\ \A token \in LinesTokens(lines) \ LinesTokens(YearsRead(g, lines)) :
                    /\ g \notin ProjectYears /\ lines[1] \o lines[2] # <<>>
                    /\ token \in LineTokens(lines[3])
            BY <3>1, YearsReadForms
        <3>4. \A token : token \in LineTokens(lines[3]) => lines[3] # <<>>
            BY DEF LineTokens
        <3>5. ASSUME NEW token \in InField(g) \ OfField(g)
              PROVE  g \in HalfRead(resume) /\ token \in LineTokens(lines[3])
            <4>1. token \in LinesTokens(lines) \ LinesTokens(YearsRead(g, lines))
                BY <3>2, <3>5 DEF lines
            <4>2. /\ g \notin ProjectYears /\ lines[1] \o lines[2] # <<>>
                  /\ token \in LineTokens(lines[3]) /\ lines[3] # <<>>
                BY <3>3, <3>4, <4>1
            <4> QED
                BY <2>2, <4>2 DEF HalfRead, lines
        <3> QED
            BY <3>2, <3>3, <3>5 DEF lines
    <2> QED
        BY <2>1, <2>2
<1> HIDE DEF InField, InList, Read, OfField
<1>4. CanonicalTokens(read) \subseteq CanonicalTokens(resume)
    BY <1>1, <1>2, <1>3
<1>5. ASSUME NEW token \in CanonicalTokens(resume) \ CanonicalTokens(read)
      PROVE  \E f \in HalfRead(resume) : token \in LineTokens(resume.fields[f][3])
    <2>1. PICK g \in Field : token \in InField(g)
        BY <1>1, <1>2, <1>5
    <2>2. token \notin OfField(g)
        BY <1>1, <1>5
    <2> QED
        BY <1>3, <2>1, <2>2
<1> QED
    BY <1>4, <1>5 DEF ReadsAll, read

-----------------------------------------------------------------------------
(* Lists without repetitions.                                               *)

AllDiffer(s) == \A i, j \in DOMAIN s : s[i] = s[j] => i = j

LEMMA ConcatItems ==
    ASSUME NEW X, NEW s \in Seq(X), NEW t \in Seq(X)
    PROVE  /\ s \o t \in Seq(X) /\ Len(s \o t) = Len(s) + Len(t)
           /\ DOMAIN (s \o t) = 1 .. (Len(s) + Len(t))
           /\ \A i \in 1 .. Len(s) : (s \o t)[i] = s[i]
           /\ \A i \in 1 .. Len(t) : (s \o t)[Len(s) + i] = t[i]
    OBVIOUS

LEMMA ConcatDiffers ==
    ASSUME NEW X, NEW s \in Seq(X), NEW t \in Seq(X)
    PROVE  /\ ToSet(s \o t) = ToSet(s) \cup ToSet(t)
           /\ AllDiffer(s) /\ AllDiffer(t) /\ ToSet(s) \cap ToSet(t) = {} => AllDiffer(s \o t)
<1> DEFINE w == s \o t
           m == Len(s)
           n == Len(t)
<1>1. /\ m \in Nat /\ n \in Nat /\ DOMAIN s = 1 .. m /\ DOMAIN t = 1 .. n /\ DOMAIN w = 1 .. (m + n)
      /\ \A i \in 1 .. m : w[i] = s[i]
      /\ \A i \in 1 .. n : w[m + i] = t[i]
    OBVIOUS
<1>2. \A i \in 1 .. (m + n) : i \in 1 .. m \/ (i - m \in 1 .. n /\ m + (i - m) = i)
    BY <1>1
<1>3. \A i \in 1 .. m : i \in 1 .. (m + n)
    BY <1>1
<1>4. \A i \in 1 .. n : m + i \in 1 .. (m + n)
    BY <1>1
<1> HIDE DEF w, m, n
<1>5. \A i \in 1 .. (m + n) :
         \/ i \in 1 .. m /\ w[i] = s[i]
         \/ i - m \in 1 .. n /\ w[i] = t[i - m]
    BY <1>1, <1>2
<1>6. ToSet(w) = ToSet(s) \cup ToSet(t)
    <2>1. ToSet(w) \subseteq ToSet(s) \cup ToSet(t)
        BY <1>1, <1>5 DEF ToSet
    <2>2. ToSet(s) \subseteq ToSet(w)
        BY <1>1, <1>3 DEF ToSet
    <2>3. ToSet(t) \subseteq ToSet(w)
        BY <1>1, <1>4 DEF ToSet
    <2> QED
        BY <2>1, <2>2, <2>3
<1>7. ASSUME AllDiffer(s), AllDiffer(t), ToSet(s) \cap ToSet(t) = {}
      PROVE  AllDiffer(w)
    <2>1. \A i \in 1 .. m, j \in 1 .. n : s[i] # t[j]
        BY <1>1, <1>7 DEF ToSet
    <2> SUFFICES ASSUME NEW i \in 1 .. (m + n), NEW j \in 1 .. (m + n), w[i] = w[j] PROVE i = j
        BY <1>1 DEF AllDiffer
    <2>2. CASE i \in 1 .. m /\ w[i] = s[i]
        <3>1. CASE j \in 1 .. m /\ w[j] = s[j]
            BY <1>1, <1>7, <2>2, <3>1 DEF AllDiffer
        <3>2. CASE j - m \in 1 .. n /\ w[j] = t[j - m]
            BY <2>1, <2>2, <3>2
        <3> QED
            BY <1>5, <3>1, <3>2
    <2>3. CASE i - m \in 1 .. n /\ w[i] = t[i - m]
        <3>1. CASE j \in 1 .. m /\ w[j] = s[j]
            BY <2>1, <2>3, <3>1
        <3>2. CASE j - m \in 1 .. n /\ w[j] = t[j - m]
            <4>1. i - m = j - m
                BY <1>1, <1>7, <2>3, <3>2 DEF AllDiffer
            <4> QED
                BY <1>1, <4>1
        <3> QED
            BY <1>5, <3>1, <3>2
    <2> QED
        BY <1>5, <2>2, <2>3
<1> QED
    BY <1>6, <1>7 DEF w

\* Joining lists that share nothing brings no repetition.
LEMMA FlattenSeqDiffers ==
    ASSUME NEW X, NEW seqs \in Seq(Seq(X)),
           \A i \in DOMAIN seqs : AllDiffer(seqs[i]),
           \A i, j \in DOMAIN seqs : i # j => ToSet(seqs[i]) \cap ToSet(seqs[j]) = {}
    PROVE  AllDiffer(FlattenSeq(seqs))
<1> DEFINE n == Len(seqs)
<1>1. n \in Nat /\ DOMAIN seqs = 1 .. n /\ \A i \in 1 .. n : seqs[i] \in Seq(X)
    OBVIOUS
<1>2. PICK h : JoiningRun(h, seqs) /\ FlattenSeq(seqs) = h[n]
    BY FlattenSeqRun
<1>3. h[0] = <<>> /\ \A i \in 1 .. n : h[i] = h[i - 1] \o seqs[i]
    BY <1>2 DEF JoiningRun
<1> HIDE DEF n
<1> DEFINE good == {i \in 0 .. n : /\ h[i] \in Seq(X) /\ AllDiffer(h[i])
                                   /\ \A x \in ToSet(h[i]) : \E j \in 1 .. i : x \in ToSet(seqs[j])}
<1>4. 0 \in good
    <2>1. /\ h[0] \in Seq(X) /\ 0 \in 0 .. n /\ DOMAIN h[0] = {}
        BY <1>1, <1>3
    <2> QED
        BY <2>1 DEF AllDiffer, ToSet
<1>5. \A i \in 1 .. n : i - 1 \in good => i \in good
    <2> SUFFICES ASSUME NEW i \in 1 .. n, i - 1 \in good PROVE i \in good
        OBVIOUS
    <2> DEFINE s == h[i - 1]
               t == seqs[i]
    <2>0. /\ s \in Seq(X) /\ AllDiffer(s)
          /\ \A x \in ToSet(s) : \E j \in 1 .. (i - 1) : x \in ToSet(seqs[j])
        OBVIOUS
    <2>1. /\ s \in Seq(X) /\ AllDiffer(s) /\ t \in Seq(X) /\ AllDiffer(t)
          /\ \A x \in ToSet(s) : \E j \in 1 .. (i - 1) : x \in ToSet(seqs[j])
          /\ i \in 0 .. n
        <3>1. t \in Seq(X) /\ AllDiffer(t) /\ i \in 0 .. n
            BY <1>1
        <3> HIDE DEF s, t
        <3> QED
            BY <2>0, <3>1
    <2>2. h[i] = s \o t
        BY <1>3
    <2>3. ToSet(s) \cap ToSet(t) = {}
        <3>1. \A j \in 1 .. (i - 1) : j \in DOMAIN seqs /\ i \in DOMAIN seqs /\ i # j
            BY <1>1
        <3>2. \A j \in 1 .. (i - 1) : ToSet(seqs[j]) \cap ToSet(t) = {}
            BY <3>1
        <3> QED
            BY <2>1, <3>2
    <2> HIDE DEF good, s
    <2>4. ToSet(s \o t) = ToSet(s) \cup ToSet(t) /\ AllDiffer(s \o t)
        <3> HIDE DEF t
        <3> QED
            BY <2>1, <2>3, ConcatDiffers
    <2>5. s \o t \in Seq(X)
        <3> HIDE DEF t
        <3> QED
            BY <2>1
    <2>6. \A x \in ToSet(s \o t) : \E j \in 1 .. i : x \in ToSet(seqs[j])
        <3>1. i \in 1 .. i /\ \A j \in 1 .. (i - 1) : j \in 1 .. i
            BY <1>1
        <3> QED
            BY <2>1, <2>4, <3>1
    <2> QED
        BY <2>1, <2>2, <2>4, <2>5, <2>6 DEF good
<1>6. n \in good
    <2> HIDE DEF good
    <2> QED
        BY <1>1, <1>4, <1>5, StepsUp
<1> QED
    BY <1>2, <1>6

\* Nor does selecting.
LEMMA ItemsAtDiffers ==
    ASSUME NEW X, NEW s \in Seq(X), NEW I, AllDiffer(s)
    PROVE  AllDiffer(ItemsAt(s, I))
<1> DEFINE n == Len(s)
<1>1. n \in Nat /\ DOMAIN s = 1 .. n /\ \A i \in 1 .. n : s[i] \in X
    OBVIOUS
<1>2. PICK h : SelectingRun(h, s, I) /\ ItemsAt(s, I) = h[n]
    BY ItemsAtRun
<1>3. h[0] = <<>> /\ \A i \in 1 .. n : h[i] = IF i \in I THEN Append(h[i - 1], s[i]) ELSE h[i - 1]
    BY <1>2 DEF SelectingRun
<1> HIDE DEF n
<1> DEFINE good == {i \in 0 .. n : /\ h[i] \in Seq(X) /\ AllDiffer(h[i])
                                   /\ \A k \in DOMAIN h[i] : \E j \in 1 .. i : h[i][k] = s[j]}
<1>4. 0 \in good
    <2>1. h[0] \in Seq(X) /\ 0 \in 0 .. n /\ DOMAIN h[0] = {}
        BY <1>1, <1>3
    <2> QED
        BY <2>1 DEF AllDiffer
<1>5. \A i \in 1 .. n : i - 1 \in good => i \in good
    <2> SUFFICES ASSUME NEW i \in 1 .. n, i - 1 \in good PROVE i \in good
        OBVIOUS
    <2> DEFINE t == h[i - 1]
    <2>1. /\ t \in Seq(X) /\ AllDiffer(t) /\ i \in 0 .. n /\ s[i] \in X
          /\ \A k \in DOMAIN t : \E j \in 1 .. (i - 1) : t[k] = s[j]
        BY <1>1
    <2>2. h[i] = IF i \in I THEN Append(t, s[i]) ELSE t
        BY <1>3
    <2> HIDE DEF good, t
    <2>3. i \in 1 .. i /\ \A j \in 1 .. (i - 1) : j \in 1 .. i /\ s[j] # s[i]
        BY <1>1 DEF AllDiffer
    <2>4. CASE i \notin I
        BY <2>1, <2>2, <2>3, <2>4 DEF good
    <2>5. CASE i \in I
        <3> DEFINE w == Append(t, s[i])
                   m == Len(t)
        <3>1. /\ w \in Seq(X) /\ m \in Nat /\ DOMAIN t = 1 .. m /\ DOMAIN w = 1 .. (m + 1)
              /\ w[m + 1] = s[i] /\ \A k \in 1 .. m : w[k] = t[k]
            BY <2>1
        <3>2. \A k \in 1 .. (m + 1) : k \in 1 .. m \/ k = m + 1
            BY <3>1
        <3> HIDE DEF w, m
        <3>3. \A k \in 1 .. m : t[k] # s[i]
            BY <2>1, <2>3, <3>1
        <3>4. AllDiffer(w)
            <4> SUFFICES ASSUME NEW k \in 1 .. (m + 1), NEW l \in 1 .. (m + 1), w[k] = w[l] PROVE k = l
                BY <3>1 DEF AllDiffer
            <4>1. CASE k \in 1 .. m /\ l \in 1 .. m
                BY <2>1, <3>1, <4>1 DEF AllDiffer
            <4>2. CASE ~(k \in 1 .. m /\ l \in 1 .. m)
                BY <3>1, <3>2, <3>3, <4>2
            <4> QED
                BY <4>1, <4>2
        <3>5. \A k \in DOMAIN w : \E j \in 1 .. i : w[k] = s[j]
            BY <2>1, <2>3, <3>1, <3>2
        <3>6. h[i] = w
            BY <2>2, <2>5 DEF w
        <3> QED
            BY <2>1, <3>1, <3>4, <3>5, <3>6 DEF good
    <2> QED
        BY <2>4, <2>5
<1>6. n \in good
    <2> HIDE DEF good
    <2> QED
        BY <1>1, <1>4, <1>5, StepsUp
<1> QED
    BY <1>2, <1>6

\* Joining one item from each.
LEMMA FlattenSeqOfOnes ==
    ASSUME NEW X, NEW seqs \in Seq(Seq(X)), \A i \in DOMAIN seqs : Len(seqs[i]) = 1
    PROVE  FlattenSeq(seqs) = [i \in DOMAIN seqs |-> seqs[i][1]]
<1> DEFINE s == [i \in DOMAIN seqs |-> seqs[i][1]]
<1>1. DOMAIN seqs = 1 .. Len(seqs) /\ Len(seqs) \in Nat /\ \A i \in DOMAIN seqs : seqs[i] \in Seq(X)
    OBVIOUS
<1>2. \A i \in DOMAIN seqs : seqs[i][1] \in X /\ seqs[i] = <<seqs[i][1]>>
    <2> TAKE i \in DOMAIN seqs
    <2>1. seqs[i] \in Seq(X) /\ Len(seqs[i]) = 1
        BY <1>1
    <2>2. seqs[i] = [k \in 1 .. 1 |-> seqs[i][k]]
        BY <2>1
    <2> QED
        BY <2>1, <2>2
<1>3. s \in Seq(X)
    BY <1>1, <1>2
<1>4. seqs = [i \in DOMAIN s |-> <<s[i]>>]
    BY <1>1, <1>2
<1> HIDE DEF s
<1>5. FlattenSeq([i \in DOMAIN s |-> <<s[i]>>]) = s
    BY <1>3, FlattenSeqOfSingles
<1> QED
    BY <1>4, <1>5 DEF s

\* If all but one are of one item and the length is as it was, so is that one.
LEMMA FlattenSeqOfOnesButOne ==
    ASSUME NEW X, NEW seqs \in Seq(Seq(X)), NEW j \in DOMAIN seqs,
           \A i \in DOMAIN seqs : i # j => Len(seqs[i]) = 1,
           Len(FlattenSeq(seqs)) = Len(seqs)
    PROVE  Len(seqs[j]) = 1
<1> DEFINE n == Len(seqs)
<1>1. n \in Nat /\ DOMAIN seqs = 1 .. n /\ \A i \in 1 .. n : seqs[i] \in Seq(X) /\ Len(seqs[i]) \in Nat
    OBVIOUS
<1>2. PICK h : JoiningRun(h, seqs) /\ FlattenSeq(seqs) = h[n]
    BY FlattenSeqRun
<1>3. h[0] = <<>> /\ \A i \in 1 .. n : h[i] = h[i - 1] \o seqs[i]
    BY <1>2 DEF JoiningRun
<1>4. Len(h[n]) = n
    BY <1>2
<1> HIDE DEF n
<1> DEFINE extra == Len(seqs[j]) - 1
           Extra(i) == IF j <= i THEN extra ELSE 0
<1>5. j \in 1 .. n /\ extra \in Int
    BY <1>1
<1>6. Extra(0) = 0 /\ Extra(n) = extra
    BY <1>1, <1>5
<1>7. ASSUME NEW i \in 1 .. n
      PROVE  /\ Extra(i - 1) \in Int
             /\ Extra(i) + 1 = Extra(i - 1) + Len(seqs[i])
    <2>1. CASE i = j
        <3>1. Extra(i) = extra /\ Extra(i - 1) = 0
            BY <1>1, <1>5, <2>1
        <3>2. Len(seqs[j]) \in Int
            BY <1>1
        <3> HIDE DEF Extra
        <3> QED
            BY <2>1, <3>1, <3>2
    <2>2. CASE i # j
        <3>1. Extra(i) = Extra(i - 1) /\ Extra(i - 1) \in Int
            BY <1>1, <1>5, <2>2
        <3>2. Len(seqs[i]) = 1
            BY <1>1, <2>2
        <3> HIDE DEF Extra
        <3> QED
            BY <3>1, <3>2
    <2> QED
        BY <2>1, <2>2
<1> HIDE DEF Extra, extra
<1> DEFINE good == {i \in 0 .. n : h[i] \in Seq(X) /\ Len(h[i]) = i + Extra(i)}
<1>8. n \in good
    <2>1. 0 \in good
        <3>1. h[0] \in Seq(X) /\ Len(h[0]) = 0 /\ 0 \in 0 .. n
            BY <1>1, <1>3
        <3> QED
            BY <1>6, <3>1
    <2>2. ASSUME NEW i \in 1 .. n, i - 1 \in good PROVE i \in good
        <3> DEFINE s == h[i - 1]
                   t == seqs[i]
                   x == Extra(i - 1)
                   y == Extra(i)
        <3>1. s \in Seq(X) /\ Len(s) = (i - 1) + x
            BY <2>2
        <3>2. t \in Seq(X) /\ h[i] = s \o t
            BY <1>1, <1>3
        <3>3. x \in Int /\ y + 1 = x + Len(t) /\ y \in Int
            <4>1. y = Extra(i)
                OBVIOUS
            <4>2. Extra(i) \in Int
                BY <1>5 DEF Extra
            <4> QED
                BY <1>7, <4>2
        <3>4. i \in 0 .. n /\ i \in Int
            BY <1>1
        <3> HIDE DEF s, t, x, y
        <3>5. s \o t \in Seq(X) /\ Len(s \o t) = Len(s) + Len(t) /\ Len(t) \in Nat /\ Len(s) \in Nat
            BY <3>1, <3>2
        <3>6. Len(s \o t) = i + y
            <4> DEFINE a == Len(s)
                       b == Len(t)
            <4>1. a \in Nat /\ b \in Nat /\ a = (i - 1) + x /\ y + 1 = x + b /\ Len(s \o t) = a + b
                BY <3>1, <3>3, <3>5
            <4> HIDE DEF a, b
            <4>2. a + b = i + y
                BY <3>3, <3>4, <4>1
            <4> QED
                BY <4>1, <4>2
        <3>7. h[i] \in Seq(X) /\ Len(h[i]) = i + y
            BY <3>2, <3>5, <3>6
        <3> QED
            BY <3>4, <3>7 DEF y
    <2> HIDE DEF good
    <2> QED
        BY <1>1, <2>1, <2>2, StepsUp
<1>9. Len(h[n]) = n + extra
    BY <1>6, <1>8
<1>10. Len(seqs[j]) \in Int
    BY <1>1
<1>11. extra = 0
    <2> DEFINE a == Len(h[n])
    <2>1. a = n /\ a = n + extra
        BY <1>4, <1>9
    <2> HIDE DEF a
    <2> QED
        BY <1>1, <1>5, <2>1
<1> QED
    BY <1>10, <1>11 DEF extra

-----------------------------------------------------------------------------
(* Rewording a line.                                                        *)

\* A line says what it has the phrases of.
Repeats(w, part) == \A i \in DOMAIN part : \E j \in DOMAIN w : Casefold[w[j]] = Casefold[part[i]]

LEMMA SaysByPhrases ==
    ASSUME NEW w, NEW part, Repeats(w, part)
    PROVE  Says(w, part)
<1>1. \A key \in ToSet(Key(part)) : key \in ToSet(Key(w))
    <2> SUFFICES ASSUME NEW i \in DOMAIN part PROVE Casefold[part[i]] \in ToSet(Key(w))
        BY DEF ToSet, Key
    <2>1. PICK j \in DOMAIN w : Casefold[w[j]] = Casefold[part[i]]
        BY DEF Repeats
    <2>2. j \in DOMAIN Key(w) /\ Key(w)[j] = Casefold[w[j]]
        BY DEF Key
    <2> QED
        BY <2>1, <2>2 DEF ToSet
<1> QED
    BY <1>1 DEF Says

LEMMA LineKeepsPhrases ==
    ASSUME NEW line, line # <<>>
    PROVE  KeepsPhrases(line, line)
<1> SUFFICES ASSUME NEW i \in DOMAIN line PROVE Says(line, <<line[i]>>)
    BY DEF KeepsPhrases, Leftovers
<1>1. DOMAIN <<line[i]>> = {1} /\ <<line[i]>>[1] = line[i]
    OBVIOUS
<1>2. Repeats(line, <<line[i]>>)
    BY <1>1 DEF Repeats
<1> QED
    BY <1>2, SaysByPhrases

\* Only the opener of a line is replaced.
LEMMA RewordedKeeps ==
    ASSUME NEW line \in Line, line # <<>>
    PROVE  /\ Reworded(line) \in Line /\ Reworded(line) # <<>>
           /\ OpenerRules[line[1]] # {} => KeepsPhrases(line, Reworded(line))
<1> DEFINE C == Cut[line[1]]
           T == Tail(line)
           rest == C \o T
           w == Reworded(line)
           R == Replacement[line[1]]
<1>1. /\ line \in Seq(Phrase) /\ Len(line) \in Nat \ {0} /\ DOMAIN line = 1 .. Len(line)
      /\ \A i \in DOMAIN line : line[i] \in Phrase
    BY DEF Line
<1>2. /\ T \in Seq(Phrase) /\ Len(T) = Len(line) - 1
      /\ \A i \in 1 .. Len(T) : T[i] = line[i + 1]
    BY <1>1
<1>3. R \in Seq(Phrase) /\ C \in Seq(Phrase)
    BY <1>1, WordingAssumption DEF Line
<1> HIDE DEF C, T, R
<1>4. /\ rest \in Seq(Phrase) /\ Len(rest) = Len(C) + Len(T) /\ DOMAIN rest = 1 .. (Len(C) + Len(T))
      /\ \A i \in 1 .. Len(C) : rest[i] = C[i]
      /\ \A i \in 1 .. Len(T) : rest[Len(C) + i] = T[i]
    <2>1. C \in Seq(Phrase) /\ T \in Seq(Phrase)
        BY <1>2, <1>3
    <2> QED
        BY <2>1, ConcatItems
<1>5. w = IF rest = <<>> THEN line ELSE IF R # <<>> THEN R \o rest
          ELSE <<Capital[rest[1]]>> \o Tail(rest)
    BY DEF Reworded, C, T, R
<1> HIDE DEF w, rest
<1>6. Repeats(rest, C)
    <2>1. \A i \in DOMAIN C : i \in DOMAIN rest /\ rest[i] = C[i]
        BY <1>2, <1>3, <1>4
    <2> QED
        BY <2>1 DEF Repeats
<1>7. \A i \in DOMAIN line \ {1} : \E j \in DOMAIN rest : rest[j] = line[i]
    <2> TAKE i \in DOMAIN line \ {1}
    <2>1. i - 1 \in 1 .. Len(T) /\ T[i - 1] = line[i]
        BY <1>1, <1>2
    <2>2. rest[Len(C) + (i - 1)] = line[i]
        BY <1>4, <2>1
    <2>3. Len(C) \in Nat /\ Len(T) \in Nat
        BY <1>2, <1>3
    <2>4. Len(C) + (i - 1) \in 1 .. (Len(C) + Len(T))
        BY <2>1, <2>3
    <2>5. Len(C) + (i - 1) \in DOMAIN rest
        BY <1>4, <2>4
    <2> QED
        BY <2>2, <2>5
<1>8. ASSUME rest # <<>>
      PROVE  /\ w \in Line /\ w # <<>>
             /\ \A j \in DOMAIN rest : \E k \in DOMAIN w : Casefold[w[k]] = Casefold[rest[j]]
    <2>1. CASE R # <<>>
        <3>1. /\ w \in Seq(Phrase) /\ Len(w) = Len(R) + Len(rest) /\ DOMAIN w = 1 .. (Len(R) + Len(rest))
              /\ \A i \in 1 .. Len(rest) : w[Len(R) + i] = rest[i]
            <4>1. R \in Seq(Phrase) /\ rest \in Seq(Phrase)
                BY <1>3, <1>4
            <4>2. w = R \o rest
                BY <1>5, <1>8, <2>1
            <4> QED
                BY <4>1, <4>2, ConcatItems
        <3>2. Len(R) \in Nat /\ Len(rest) \in Nat /\ DOMAIN rest = 1 .. Len(rest) /\ Len(R) > 0
            BY <1>3, <1>4, <2>1
        <3>3. w # <<>>
            BY <3>1, <3>2
        <3>4. \A j \in DOMAIN rest : Len(R) + j \in DOMAIN w /\ w[Len(R) + j] = rest[j]
            BY <3>1, <3>2
        <3> QED
            BY <3>1, <3>3, <3>4 DEF Line
    <2>2. CASE R = <<>>
        <3> DEFINE first == <<Capital[rest[1]]>>
                   tail == Tail(rest)
        <3>1. /\ Len(rest) \in Nat \ {0} /\ DOMAIN rest = 1 .. Len(rest) /\ rest[1] \in Phrase
            BY <1>4, <1>8
        <3>2. Capital[rest[1]] \in Phrase /\ Casefold[Capital[rest[1]]] = Casefold[rest[1]]
            BY <3>1, WordingAssumption
        <3>3. first \in Seq(Phrase) /\ Len(first) = 1 /\ first[1] = Capital[rest[1]]
            BY <3>2
        <3>4. /\ tail \in Seq(Phrase) /\ Len(tail) = Len(rest) - 1
              /\ \A i \in 1 .. Len(tail) : tail[i] = rest[i + 1]
            BY <1>4, <1>8
        <3>5. w = first \o tail
            BY <1>5, <1>8, <2>2
        <3> HIDE DEF first, tail
        <3>6. /\ w \in Seq(Phrase) /\ Len(w) = Len(first) + Len(tail)
              /\ DOMAIN w = 1 .. (Len(first) + Len(tail))
              /\ \A i \in 1 .. Len(first) : w[i] = first[i]
              /\ \A i \in 1 .. Len(tail) : w[Len(first) + i] = tail[i]
            <4>1. first \in Seq(Phrase) /\ tail \in Seq(Phrase)
                BY <3>3, <3>4
            <4> QED
                BY <3>5, <4>1, ConcatItems
        <3>7. w # <<>> /\ 1 \in DOMAIN w /\ w[1] = Capital[rest[1]]
            BY <3>1, <3>3, <3>4, <3>6
        <3>8. \A j \in DOMAIN rest \ {1} : j \in DOMAIN w /\ w[j] = rest[j]
            <4> TAKE j \in DOMAIN rest \ {1}
            <4>1. j - 1 \in 1 .. Len(tail) /\ tail[j - 1] = rest[j]
                BY <3>1, <3>4
            <4>2. Len(first) + (j - 1) = j /\ w[Len(first) + (j - 1)] = tail[j - 1]
                BY <3>1, <3>3, <3>6, <4>1
            <4> QED
                BY <3>1, <3>3, <3>4, <3>6, <4>1, <4>2
        <3>9. ASSUME NEW j \in DOMAIN rest
              PROVE  \E k \in DOMAIN w : Casefold[w[k]] = Casefold[rest[j]]
            <4>1. CASE j = 1
                BY <3>2, <3>7, <4>1
            <4>2. CASE j # 1
                BY <3>8, <4>2
            <4> QED
                BY <4>1, <4>2
        <3> QED
            BY <3>6, <3>7, <3>9 DEF Line
    <2> QED
        BY <2>1, <2>2
<1>9. CASE rest = <<>>
    <2>1. w = line
        BY <1>5, <1>9
    <2> QED
        BY <2>1, LineKeepsPhrases DEF w
<1>10. CASE rest # <<>>
    <2>1. ASSUME OpenerRules[line[1]] # {}, NEW i \in DOMAIN line
          PROVE  \E part \in Leftovers(line, i) : Says(w, part)
        <3>1. CASE i = 1
            <4>1. C \in Leftovers(line, i)
                BY <2>1, <3>1 DEF Leftovers, C
            <4>2. Repeats(w, C)
                BY <1>6, <1>8, <1>10 DEF Repeats
            <4> QED
                BY <4>1, <4>2, SaysByPhrases
        <3>2. CASE i # 1
            <4>1. PICK j \in DOMAIN rest : rest[j] = line[i]
                BY <1>7, <3>2
            <4>2. \E k \in DOMAIN w : Casefold[w[k]] = Casefold[line[i]]
                BY <1>8, <1>10, <4>1
            <4>3. DOMAIN <<line[i]>> = {1} /\ <<line[i]>>[1] = line[i]
                OBVIOUS
            <4>4. Repeats(w, <<line[i]>>)
                BY <4>2, <4>3 DEF Repeats
            <4> QED
                BY <4>4, SaysByPhrases DEF Leftovers
        <3> QED
            BY <3>1, <3>2
    <2>2. w \in Line /\ w # <<>>
        BY <1>8, <1>10
    <2> QED
        BY <2>1, <2>2 DEF KeepsPhrases, w
<1> QED
    BY <1>9, <1>10

\* Only buzzwords are struck out.
LEMMA WithoutBuzzwordsKeeps ==
    ASSUME NEW line \in Line, line # <<>>
    PROVE  /\ WithoutBuzzwords(line) \in Line /\ WithoutBuzzwords(line) # <<>>
           /\ KeepsPhrases(line, WithoutBuzzwords(line))
<1> DEFINE parts == [i \in DOMAIN line |-> Stripped[line[i]]]
           kept == FlattenSeq(parts)
           w == WithoutBuzzwords(line)
<1>1. w = IF kept = <<>> THEN line ELSE kept
    BY DEF WithoutBuzzwords
<1>2. parts \in Seq(Seq(Phrase)) /\ DOMAIN parts = DOMAIN line
    <2>1. DOMAIN line = 1 .. Len(line) /\ Len(line) \in Nat /\ \A i \in DOMAIN line : line[i] \in Phrase
        BY DEF Line
    <2>2. \A i \in DOMAIN line : Stripped[line[i]] \in Seq(Phrase)
        BY <2>1, WordingAssumption DEF Line
    <2> QED
        BY <2>1, <2>2
<1>3. \A i \in DOMAIN line : parts[i] = Stripped[line[i]]
    OBVIOUS
<1> HIDE DEF parts
<1>4. kept \in Seq(Phrase)
    BY <1>2, FlattenSeqMembers
<1>5. \A i \in DOMAIN line : Inside(parts[i], kept)
    BY <1>2, FlattenSeqBlocks
<1> HIDE DEF kept, w
<1>6. CASE kept = <<>>
    BY <1>1, <1>6, LineKeepsPhrases DEF w
<1>7. CASE kept # <<>>
    <2>1. w = kept /\ w \in Line
        BY <1>1, <1>4, <1>7 DEF Line
    <2>2. ASSUME NEW i \in DOMAIN line
          PROVE  \E part \in Leftovers(line, i) : Says(kept, part)
        <3>1. Inside(parts[i], kept)
            BY <1>5
        <3>2. Repeats(kept, parts[i])
            BY <3>1 DEF Repeats, Inside
        <3>3. parts[i] \in Leftovers(line, i)
            BY <1>3 DEF Leftovers
        <3> QED
            BY <3>2, <3>3, SaysByPhrases
    <2> QED
        BY <1>7, <2>1, <2>2 DEF KeepsPhrases, w
<1> QED
    BY <1>6, <1>7

-----------------------------------------------------------------------------
(* The report on the wording.                                               *)

\* A resume as refine reads it.
Readable(doc) ==
    /\ "fields" \in DOMAIN doc /\ doc.fields \in [Field -> Seq(Line)]
    /\ Len(doc.fields[SummaryField]) <= 1
    /\ \A f \in BulletFields \cup {SummaryField} : <<>> \notin ToSet(doc.fields[f])

LEMMA ReadableLine ==
    ASSUME NEW doc, Readable(doc), NEW f \in BulletFields \cup {SummaryField},
           NEW i \in DOMAIN doc.fields[f]
    PROVE  /\ f \in Field /\ doc.fields[f] \in Seq(Line)
           /\ doc.fields[f][i] \in Line /\ doc.fields[f][i] # <<>>
<1>1. f \in Field
    BY ShapeAssumption
<1>2. doc.fields[f] \in Seq(Line)
    BY <1>1 DEF Readable
<1>3. doc.fields[f][i] \in ToSet(doc.fields[f])
    BY DEF ToSet
<1>4. <<>> \notin ToSet(doc.fields[f])
    BY DEF Readable
<1> QED
    BY <1>1, <1>2, <1>3, <1>4

LEMMA BulletsAreApart ==
    ASSUME NEW doc, OwnIds(doc), NEW f \in BulletFields, NEW g \in BulletFields, NEW i, NEW j,
           At(doc, f, i) = At(doc, g, j)
    PROVE  f = g /\ i = j
<1>1. doc.ids[f] = doc.ids[g] /\ i = j
    BY DEF At
<1> QED
    BY <1>1 DEF OwnIds

LEMMA SummaryIsNoBullet ==
    ASSUME NEW doc, NEW f, NEW i
    PROVE  At(doc, f, i) # SummaryAt
<1>1. Len(At(doc, f, i)) = 3 /\ Len(SummaryAt) = 1
    BY DEF At, SummaryAt
<1> QED
    BY <1>1

\* The bullets of a role, each at its location.
RoleBullets(doc, f) == [i \in DOMAIN doc.fields[f] |-> [at |-> At(doc, f, i), line |-> doc.fields[f][i]]]
BulletSet(doc) == UNION {ToSet(RoleBullets(doc, f)) : f \in BulletFields}

LEMMA RoleBulletsForms ==
    ASSUME NEW doc, Readable(doc), NEW f \in BulletFields
    PROVE  /\ RoleBullets(doc, f) \in Seq(BulletSet(doc))
           /\ AllDiffer(RoleBullets(doc, f))
<1> DEFINE s == RoleBullets(doc, f)
           lines == doc.fields[f]
<1>1. DOMAIN lines = 1 .. Len(lines) /\ Len(lines) \in Nat
    <2>1. f \in Field
        BY ShapeAssumption
    <2> QED
        BY <2>1 DEF Readable
<1>2. s = [i \in 1 .. Len(lines) |-> [at |-> At(doc, f, i), line |-> lines[i]]]
    BY <1>1 DEF RoleBullets
<1>3. \A i \in DOMAIN s : s[i] \in ToSet(s)
    BY DEF ToSet
<1>4. ToSet(s) \subseteq BulletSet(doc)
    BY DEF BulletSet
<1> HIDE DEF lines
<1>5. \A i, j \in 1 .. Len(lines) : s[i] = s[j] => i = j
    <2> SUFFICES ASSUME NEW i \in 1 .. Len(lines), NEW j \in 1 .. Len(lines), s[i] = s[j] PROVE i = j
        OBVIOUS
    <2>1. s[i].at = At(doc, f, i) /\ s[j].at = At(doc, f, j)
        BY <1>2
    <2>2. At(doc, f, i)[3] = i /\ At(doc, f, j)[3] = j
        BY DEF At
    <2> QED
        BY <2>1, <2>2
<1>6. DOMAIN s = 1 .. Len(lines) /\ s = [i \in 1 .. Len(lines) |-> s[i]]
    BY <1>2
<1> HIDE DEF s
<1>7. s \in Seq(BulletSet(doc))
    BY <1>1, <1>3, <1>4, <1>6
<1>8. AllDiffer(s)
    BY <1>5, <1>6 DEF AllDiffer
<1> QED
    BY <1>7, <1>8 DEF s

LEMMA BulletsForms ==
    ASSUME NEW doc, Readable(doc)
    PROVE  /\ Bullets(doc) \in Seq(BulletSet(doc))
           /\ OwnIds(doc) => AllDiffer(Bullets(doc))
<1> DEFINE seqs == [r \in DOMAIN Roles |-> RoleBullets(doc, Roles[r])]
<1>1. Bullets(doc) = FlattenSeq(seqs)
    BY DEF Bullets, RoleBullets
<1>2. /\ DOMAIN Roles = 1 .. Len(Roles) /\ Len(Roles) \in Nat
      /\ \A r \in DOMAIN Roles : Roles[r] \in BulletFields
    BY WordingAssumption DEF ToSet
<1>3. \A r \in DOMAIN Roles : /\ RoleBullets(doc, Roles[r]) \in Seq(BulletSet(doc))
                              /\ AllDiffer(RoleBullets(doc, Roles[r]))
    BY <1>2, RoleBulletsForms
<1>4. seqs \in Seq(Seq(BulletSet(doc)))
    BY <1>2, <1>3
<1>5. DOMAIN seqs = DOMAIN Roles /\ \A r \in DOMAIN Roles : seqs[r] = RoleBullets(doc, Roles[r])
    OBVIOUS
<1> HIDE DEF seqs
<1>6. FlattenSeq(seqs) \in Seq(BulletSet(doc))
    BY <1>4, FlattenSeqMembers
<1>7. ASSUME OwnIds(doc) PROVE AllDiffer(FlattenSeq(seqs))
    <2>1. \A r \in DOMAIN seqs : AllDiffer(seqs[r])
        BY <1>3, <1>5
    <2>2. \A r, q \in DOMAIN seqs : r # q => ToSet(seqs[r]) \cap ToSet(seqs[q]) = {}
        <3> SUFFICES ASSUME NEW r \in DOMAIN seqs, NEW q \in DOMAIN seqs,
                            NEW x \in ToSet(seqs[r]), x \in ToSet(seqs[q])
                     PROVE  r = q
            OBVIOUS
        <3>1. \E i : x.at = At(doc, Roles[r], i)
            BY <1>5 DEF ToSet, RoleBullets
        <3>2. \E i : x.at = At(doc, Roles[q], i)
            BY <1>5 DEF ToSet, RoleBullets
        <3>3. Roles[r] = Roles[q]
            <4>1. PICK i : x.at = At(doc, Roles[r], i)
                BY <3>1
            <4>2. PICK j : x.at = At(doc, Roles[q], j)
                BY <3>2
            <4>3. Roles[r] \in BulletFields /\ Roles[q] \in BulletFields
                BY <1>2, <1>5
            <4>4. At(doc, Roles[r], i) = At(doc, Roles[q], j)
                BY <4>1, <4>2
            <4> QED
                BY <1>7, <4>3, <4>4, BulletsAreApart
        <3> QED
            BY <1>5, <3>3, WordingAssumption
    <2> QED
        BY <1>4, <2>1, <2>2, FlattenSeqDiffers
<1> QED
    BY <1>1, <1>6, <1>7

\* What the analyzer can propose for a bullet.
Rewrites(at, line) ==
    {Suggest("BUZZWORD", at, WithoutBuzzwords(line))}
    \cup {Suggest(r, at, Reworded(line)) : r \in OpenerRule(line)}

LEMMA OpenerRuleForms ==
    ASSUME NEW line
    PROVE  /\ \A r \in OpenerRule(line) : r \in OpenerRules[line[1]] /\ r # "MISSING_QUANTIFICATION"
           /\ \/ OpenerRule(line) = {} /\ Cardinality(OpenerRule(line)) = 0
              \/ \E r : OpenerRule(line) = {r} /\ Cardinality(OpenerRule(line)) = 1
<1> DEFINE hits == {i \in DOMAIN OpenerPrecedence : OpenerPrecedence[i] \in OpenerRules[line[1]]}
           first == {j \in hits : \A k \in hits : j <= k}
           rules == OpenerRule(line)
<1>1. rules = {OpenerPrecedence[i] : i \in first}
    BY DEF OpenerRule
<1>2. /\ DOMAIN OpenerPrecedence = 1 .. 5
      /\ \A i \in 1 .. 5 : OpenerPrecedence[i] # "MISSING_QUANTIFICATION"
    BY DEF OpenerPrecedence
<1>3. hits \subseteq 1 .. 5
    BY <1>2
<1>4. \A i \in hits : OpenerPrecedence[i] \in OpenerRules[line[1]]
    OBVIOUS
<1> HIDE DEF hits
<1>5. \A i, j \in first : i = j
    BY <1>3
<1> HIDE DEF rules
<1>6. \A r \in rules : r \in OpenerRules[line[1]] /\ r # "MISSING_QUANTIFICATION"
    BY <1>1, <1>2, <1>3, <1>4
<1>7. CASE first = {}
    <2>1. rules = {}
        BY <1>1, <1>7
    <2> QED
        BY <1>6, <2>1, FS_EmptySet DEF rules
<1>8. CASE first # {}
    <2>1. PICK i : first = {i}
        BY <1>5, <1>8
    <2>2. rules = {OpenerPrecedence[i]}
        BY <1>1, <2>1
    <2>3. Cardinality({OpenerPrecedence[i]}) = 1
        BY FS_Singleton
    <2> QED
        BY <1>6, <2>2, <2>3 DEF rules
<1> QED
    BY <1>7, <1>8

LEMMA BulletFindingsForms ==
    ASSUME NEW at, NEW line
    PROVE  BulletFindings(at, line) \in Seq(Rewrites(at, line))
<1> DEFINE X == Rewrites(at, line)
           opener == [i \in 1 .. Cardinality(OpenerRule(line)) |->
                         Suggest(CHOOSE r \in OpenerRule(line) : TRUE, at, Reworded(line))]
           buzz == IF HasBuzzword(line)
                   THEN <<Suggest("BUZZWORD", at, WithoutBuzzwords(line))>> ELSE <<>>
<1>1. BulletFindings(at, line) = opener \o buzz
    BY DEF BulletFindings
<1>2. Suggest("BUZZWORD", at, WithoutBuzzwords(line)) \in X
    BY DEF Rewrites
<1>3. \A r \in OpenerRule(line) : Suggest(r, at, Reworded(line)) \in X
    BY DEF Rewrites
<1> HIDE DEF X
<1>4. buzz \in Seq(X)
    BY <1>2
<1>5. opener \in Seq(X)
    <2> DEFINE n == Cardinality(OpenerRule(line))
               c == Suggest(CHOOSE r \in OpenerRule(line) : TRUE, at, Reworded(line))
    <2>1. n = 0 \/ (n = 1 /\ c \in X)
        <3>1. CASE \E r : OpenerRule(line) = {r} /\ n = 1
            <4>1. (CHOOSE r \in OpenerRule(line) : TRUE) \in OpenerRule(line)
                BY <3>1
            <4> QED
                BY <1>3, <3>1, <4>1
        <3> QED
            BY <3>1, OpenerRuleForms
    <2>2. opener = [i \in 1 .. n |-> c]
        OBVIOUS
    <2> HIDE DEF n, c, opener
    <2>3. n \in Nat /\ \A i \in 1 .. n : c \in X
        BY <2>1
    <2> QED
        BY <2>2, <2>3
<1> HIDE DEF opener, buzz
<1>6. opener \o buzz \in Seq(X)
    BY <1>4, <1>5
<1> QED
    BY <1>1, <1>6 DEF X

\* A location has one bullet.
LEMMA BulletAtItsPlace ==
    ASSUME NEW doc, NEW b \in BulletSet(doc)
    PROVE  \E f \in BulletFields : \E i \in DOMAIN doc.fields[f] :
               b = [at |-> At(doc, f, i), line |-> doc.fields[f][i]]
<1>1. PICK f \in BulletFields : b \in ToSet(RoleBullets(doc, f))
    BY DEF BulletSet
<1>2. PICK i \in DOMAIN RoleBullets(doc, f) : b = RoleBullets(doc, f)[i]
    BY <1>1 DEF ToSet
<1> QED
    BY <1>2 DEF RoleBullets

LEMMA OneBulletAtAPlace ==
    ASSUME NEW doc, OwnIds(doc), NEW b \in BulletSet(doc), NEW c \in BulletSet(doc), b.at = c.at
    PROVE  b = c
<1>1. PICK f \in BulletFields : \E i \in DOMAIN doc.fields[f] :
          b = [at |-> At(doc, f, i), line |-> doc.fields[f][i]]
    BY BulletAtItsPlace
<1>2. PICK i \in DOMAIN doc.fields[f] : b = [at |-> At(doc, f, i), line |-> doc.fields[f][i]]
    BY <1>1
<1>3. PICK g \in BulletFields : \E j \in DOMAIN doc.fields[g] :
          c = [at |-> At(doc, g, j), line |-> doc.fields[g][j]]
    BY BulletAtItsPlace
<1>4. PICK j \in DOMAIN doc.fields[g] : c = [at |-> At(doc, g, j), line |-> doc.fields[g][j]]
    BY <1>3
<1>5. f = g /\ i = j
    BY <1>2, <1>4, BulletsAreApart
<1> QED
    BY <1>2, <1>4, <1>5

\* The questions of the report, in their order.
Ranked(doc) ==
    LET bullets == Bullets(doc)
        bare    == {i \in DOMAIN bullets : ~Mentions(bullets[i].line, Figures)}
        strong  == {i \in bare : Mentions(bullets[i].line, ImpactVerbs)}
    IN  ItemsAt(bullets, strong) \o ItemsAt(bullets, bare \ strong)

LEMMA RankedForms ==
    ASSUME NEW doc, Readable(doc)
    PROVE  /\ Ranked(doc) \in Seq(BulletSet(doc))
           /\ OwnIds(doc) => AllDiffer(Ranked(doc))
<1> DEFINE X == BulletSet(doc)
           s == Bullets(doc)
           bare == {i \in DOMAIN s : ~Mentions(s[i].line, Figures)}
           strong == {i \in bare : Mentions(s[i].line, ImpactVerbs)}
           weak == bare \ strong
           a == ItemsAt(s, strong)
           b == ItemsAt(s, weak)
<1>1. Ranked(doc) = a \o b
    BY DEF Ranked
<1>2. strong \cap weak = {}
    OBVIOUS
<1>3. s \in Seq(X) /\ (OwnIds(doc) => AllDiffer(s))
    BY BulletsForms
<1> HIDE DEF X, s, strong, weak
<1>4. /\ a \in Seq(X) /\ ToSet(a) = {s[i] : i \in DOMAIN s \cap strong}
      /\ b \in Seq(X) /\ ToSet(b) = {s[i] : i \in DOMAIN s \cap weak}
    BY <1>3, ItemsAtMembers
<1> SUFFICES /\ a \o b \in Seq(X)
             /\ AllDiffer(s) => AllDiffer(a \o b)
    BY <1>1, <1>3 DEF X
<1>5. ASSUME AllDiffer(s)
      PROVE  AllDiffer(a) /\ AllDiffer(b) /\ ToSet(a) \cap ToSet(b) = {}
    <2>1. AllDiffer(a) /\ AllDiffer(b)
        BY <1>3, <1>5, ItemsAtDiffers
    <2>2. ToSet(a) \cap ToSet(b) = {}
        BY <1>2, <1>4, <1>5 DEF AllDiffer
    <2> QED
        BY <2>1, <2>2
<1> HIDE DEF a, b
<1> QED
    BY <1>4, <1>5, ConcatDiffers, ConcatItems

\* A rewrite of a bullet, a question about one, or the rewrite of the summary.
RewriteOf(doc, f, b) == b \in BulletSet(doc) /\ f \in Rewrites(b.at, b.line)
QuestionOf(doc, f, b) == b \in BulletSet(doc) /\ f = Ask("MISSING_QUANTIFICATION", b.at)
RewriteOfSummary(doc, f) ==
    \E i \in DOMAIN doc.fields[SummaryField] :
        f = Suggest("BUZZWORD", SummaryAt, WithoutBuzzwords(doc.fields[SummaryField][i]))

\* What is known of a report: where its findings come from, and that a bullet
\* is asked about once.
ReportOk(doc, findings) ==
    /\ \A k \in DOMAIN findings : k \in Nat
    /\ \A k \in DOMAIN findings :
           \/ \E b : RewriteOf(doc, findings[k], b)
           \/ \E b : QuestionOf(doc, findings[k], b)
           \/ RewriteOfSummary(doc, findings[k])
    /\ OwnIds(doc) =>
           \A k, l \in DOMAIN findings :
               (findings[k].ask /\ findings[l].ask /\ findings[k].at = findings[l].at) => k = l

LEMMA FindingsAskOrSuggest ==
    ASSUME NEW doc, NEW f
    PROVE  /\ \A b : RewriteOf(doc, f, b) => ~f.ask /\ f.at = b.at /\ f.rule # "MISSING_QUANTIFICATION"
           /\ \A b : QuestionOf(doc, f, b) => f.ask /\ f.at = b.at /\ f.rule = "MISSING_QUANTIFICATION"
           /\ RewriteOfSummary(doc, f) =>
                  ~f.ask /\ f.at = SummaryAt /\ f.rule # "MISSING_QUANTIFICATION"
<1>1. ASSUME NEW b, RewriteOf(doc, f, b)
      PROVE  ~f.ask /\ f.at = b.at /\ f.rule # "MISSING_QUANTIFICATION"
    <2>1. CASE f = Suggest("BUZZWORD", b.at, WithoutBuzzwords(b.line))
        BY <2>1 DEF Suggest
    <2>2. CASE \E r \in OpenerRule(b.line) : f = Suggest(r, b.at, Reworded(b.line))
        <3>1. PICK r \in OpenerRule(b.line) : f = Suggest(r, b.at, Reworded(b.line))
            BY <2>2
        <3>2. r # "MISSING_QUANTIFICATION"
            BY OpenerRuleForms
        <3> QED
            BY <3>1, <3>2 DEF Suggest
    <2> QED
        BY <1>1, <2>1, <2>2 DEF RewriteOf, Rewrites
<1>2. ASSUME NEW b, QuestionOf(doc, f, b)
      PROVE  f.ask /\ f.at = b.at /\ f.rule = "MISSING_QUANTIFICATION"
    BY <1>2 DEF QuestionOf, Ask
<1>3. ASSUME RewriteOfSummary(doc, f)
      PROVE  ~f.ask /\ f.at = SummaryAt /\ f.rule # "MISSING_QUANTIFICATION"
    BY <1>3 DEF RewriteOfSummary, Suggest
<1> QED
    BY <1>1, <1>2, <1>3

LEMMA WordingReportForms ==
    ASSUME NEW doc, Readable(doc)
    PROVE  ReportOk(doc, WordingReport(doc))
<1> DEFINE bullets == Bullets(doc)
           ranked == Ranked(doc)
           lines == doc.fields[SummaryField]
           I == {i \in DOMAIN lines : HasBuzzword(lines[i])}
           summary == ItemsAt(lines, I)
           seqs == [i \in DOMAIN bullets |-> BulletFindings(bullets[i].at, bullets[i].line)]
           A == FlattenSeq(seqs)
           B == [i \in DOMAIN ranked |-> Ask("MISSING_QUANTIFICATION", ranked[i].at)]
           C == [i \in DOMAIN summary |-> Suggest("BUZZWORD", SummaryAt, WithoutBuzzwords(summary[i]))]
           RW == UNION {Rewrites(b.at, b.line) : b \in BulletSet(doc)}
           QS == {Ask("MISSING_QUANTIFICATION", b.at) : b \in BulletSet(doc)}
           SW == {Suggest("BUZZWORD", SummaryAt, WithoutBuzzwords(lines[i])) : i \in DOMAIN lines}
           X == (RW \cup QS) \cup SW
           findings == WordingReport(doc)
<1>1. findings = (A \o B) \o C
    BY DEF WordingReport, Ranked
<1>2. bullets \in Seq(BulletSet(doc)) /\ ranked \in Seq(BulletSet(doc))
      /\ (OwnIds(doc) => AllDiffer(ranked))
    BY BulletsForms, RankedForms
<1>3. lines \in Seq(Line)
    BY ShapeAssumption DEF Readable
<1>4. A \in Seq(RW)
    <2>1. \A b \in BulletSet(doc) : BulletFindings(b.at, b.line) \in Seq(RW)
        <3> TAKE b \in BulletSet(doc)
        <3> DEFINE R == Rewrites(b.at, b.line)
        <3>1. R \subseteq RW
            OBVIOUS
        <3>2. BulletFindings(b.at, b.line) \in Seq(R)
            BY BulletFindingsForms
        <3> HIDE DEF R, RW
        <3> QED
            BY <3>1, <3>2
    <2> HIDE DEF RW, bullets
    <2>2. seqs \in Seq(Seq(RW))
        <3>1. DOMAIN bullets = 1 .. Len(bullets) /\ Len(bullets) \in Nat
              /\ \A i \in DOMAIN bullets : bullets[i] \in BulletSet(doc)
            BY <1>2
        <3>2. \A i \in DOMAIN bullets : BulletFindings(bullets[i].at, bullets[i].line) \in Seq(RW)
            BY <2>1, <3>1
        <3> QED
            BY <3>1, <3>2
    <2> HIDE DEF seqs
    <2> QED
        BY <2>2, FlattenSeqMembers
<1>5. B \in Seq(QS) /\ DOMAIN B = 1 .. Len(ranked) /\ Len(B) = Len(ranked) /\ Len(ranked) \in Nat
      /\ \A i \in 1 .. Len(ranked) : B[i].at = ranked[i].at /\ ranked[i] \in BulletSet(doc)
    <2>1. \A b \in BulletSet(doc) : Ask("MISSING_QUANTIFICATION", b.at) \in QS
        OBVIOUS
    <2> HIDE DEF QS, ranked
    <2>2. B \in Seq(QS)
        BY <1>2, <2>1
    <2>3. DOMAIN ranked = 1 .. Len(ranked) /\ Len(ranked) \in Nat
          /\ \A i \in 1 .. Len(ranked) : ranked[i] \in BulletSet(doc)
        BY <1>2
    <2>4. \A i \in DOMAIN ranked : B[i].at = ranked[i].at
        BY DEF Ask
    <2> QED
        BY <2>2, <2>3, <2>4
<1>6. C \in Seq(SW)
    <2>1. \A i \in DOMAIN lines : Suggest("BUZZWORD", SummaryAt, WithoutBuzzwords(lines[i])) \in SW
        OBVIOUS
    <2> HIDE DEF SW, lines, I
    <2>2. summary \in Seq(Line) /\ ToSet(summary) = {lines[i] : i \in DOMAIN lines \cap I}
        BY <1>3, ItemsAtMembers
    <2> HIDE DEF summary
    <2>3. DOMAIN summary = 1 .. Len(summary) /\ Len(summary) \in Nat
        BY <2>2
    <2>4. \A j \in DOMAIN summary : \E i \in DOMAIN lines : summary[j] = lines[i]
        BY <2>2 DEF ToSet
    <2>5. \A j \in DOMAIN summary : Suggest("BUZZWORD", SummaryAt, WithoutBuzzwords(summary[j])) \in SW
        BY <2>1, <2>4
    <2> QED
        BY <2>3, <2>5
<1>7. /\ \A f \in RW : \E b : RewriteOf(doc, f, b)
      /\ \A f \in QS : \E b : QuestionOf(doc, f, b)
      /\ \A f \in SW : RewriteOfSummary(doc, f)
    BY DEF RewriteOf, QuestionOf, RewriteOfSummary
<1>8. /\ \A f \in RW : ~f.ask
      /\ \A f \in SW : ~f.ask
    BY <1>7, FindingsAskOrSuggest
<1>9. RW \subseteq X /\ QS \subseteq X /\ SW \subseteq X /\ X \subseteq (RW \cup QS) \cup SW
    OBVIOUS
<1> HIDE DEF A, B, C, RW, QS, SW, X, ranked, findings
<1>10. A \in Seq(X) /\ B \in Seq(X) /\ C \in Seq(X)
    BY <1>4, <1>5, <1>6, <1>9
<1> DEFINE AB == A \o B
           a == Len(A)
           b == Len(B)
           c == Len(C)
<1>11. /\ AB \in Seq(X) /\ Len(AB) = a + b
       /\ \A i \in 1 .. a : AB[i] = A[i]
       /\ \A i \in 1 .. b : AB[a + i] = B[i]
    BY <1>10, ConcatItems
<1>12. a \in Nat /\ b \in Nat /\ c \in Nat
    BY <1>10
<1> HIDE DEF AB
<1>13. /\ AB \o C \in Seq(X) /\ DOMAIN (AB \o C) = 1 .. (Len(AB) + Len(C))
       /\ \A i \in 1 .. Len(AB) : (AB \o C)[i] = AB[i]
       /\ \A i \in 1 .. Len(C) : (AB \o C)[Len(AB) + i] = C[i]
    <2>1. AB \in Seq(X) /\ C \in Seq(X)
        BY <1>10, <1>11
    <2> QED
        BY <2>1, ConcatItems
<1>14. findings = AB \o C
    BY <1>1 DEF AB
<1>15. /\ findings \in Seq(X) /\ DOMAIN findings = 1 .. ((a + b) + c)
       /\ \A i \in 1 .. (a + b) : findings[i] = AB[i]
       /\ \A i \in 1 .. c : findings[(a + b) + i] = C[i]
    BY <1>11, <1>13, <1>14
<1>16. /\ \A i \in 1 .. a : A[i] \in RW
       /\ \A i \in 1 .. b : B[i] \in QS
       /\ \A i \in 1 .. c : C[i] \in SW
    BY <1>4, <1>5, <1>6
<1> HIDE DEF a, b, c
<1>17. \A k \in DOMAIN findings :
          \/ k \in 1 .. a /\ findings[k] \in RW
          \/ k - a \in 1 .. b /\ findings[k] = B[k - a]
          \/ findings[k] \in SW
    <2> SUFFICES ASSUME NEW k \in 1 .. ((a + b) + c)
                 PROVE  \/ k \in 1 .. a /\ findings[k] \in RW
                        \/ k - a \in 1 .. b /\ findings[k] = B[k - a]
                        \/ findings[k] \in SW
        BY <1>15
    <2>1. CASE k <= a
        <3>1. k \in 1 .. a /\ k \in 1 .. (a + b)
            BY <1>12, <2>1
        <3> QED
            BY <1>11, <1>15, <1>16, <3>1
    <2>2. CASE a < k /\ k <= a + b
        <3>1. k - a \in 1 .. b /\ k \in 1 .. (a + b) /\ a + (k - a) = k
            BY <1>12, <2>2
        <3>2. findings[k] = AB[k]
            BY <1>15, <3>1
        <3>3. AB[a + (k - a)] = B[k - a]
            BY <1>11, <3>1
        <3> QED
            BY <3>1, <3>2, <3>3
    <2>3. CASE a + b < k
        <3>1. k - (a + b) \in 1 .. c /\ (a + b) + (k - (a + b)) = k
            BY <1>12, <2>3
        <3>2. findings[(a + b) + (k - (a + b))] = C[k - (a + b)]
            BY <1>15, <3>1
        <3> QED
            BY <1>16, <3>1, <3>2
    <2> QED
        BY <1>12, <2>1, <2>2, <2>3
<1>18. \A k \in DOMAIN findings :
           \/ \E x : RewriteOf(doc, findings[k], x)
           \/ \E x : QuestionOf(doc, findings[k], x)
           \/ RewriteOfSummary(doc, findings[k])
    BY <1>7, <1>16, <1>17
<1>19. ASSUME OwnIds(doc), NEW k \in DOMAIN findings, NEW l \in DOMAIN findings,
              findings[k].ask, findings[l].ask, findings[k].at = findings[l].at
       PROVE  k = l
    <2>1. /\ k - a \in 1 .. b /\ findings[k] = B[k - a]
          /\ l - a \in 1 .. b /\ findings[l] = B[l - a]
        BY <1>8, <1>17, <1>19
    <2>2. b = Len(ranked) /\ DOMAIN ranked = 1 .. b
        BY <1>2, <1>5 DEF b
    <2>3. ranked[k - a].at = ranked[l - a].at
        BY <1>5, <1>19, <2>1, <2>2
    <2>4. ranked[k - a] \in BulletSet(doc) /\ ranked[l - a] \in BulletSet(doc)
        BY <1>5, <2>1, <2>2
    <2>5. ranked[k - a] = ranked[l - a]
        BY <1>19, <2>3, <2>4, OneBulletAtAPlace
    <2>6. k - a = l - a
        BY <1>2, <1>19, <2>1, <2>2, <2>5 DEF AllDiffer
    <2> QED
        BY <1>12, <1>15, <2>6
<1>20. \A k \in DOMAIN findings : k \in Nat
    BY <1>12, <1>15
<1> QED
    BY <1>18, <1>19, <1>20 DEF ReportOk, findings

\* One edit wins at a location, and a question that was answered does.
LEMMA WinnerForms ==
    ASSUME NEW findings, \A k \in DOMAIN findings : k \in Nat, NEW answers, NEW at
    PROVE  LET won == Winner(findings, answers, at)
           IN  /\ \A k, l \in won : k = l
               /\ \A k \in won : /\ k \in DOMAIN findings /\ findings[k].at = at
                                 /\ findings[k].ask => FindingKey(findings[k]) \in DOMAIN answers
               /\ \A k \in DOMAIN findings :
                      findings[k].at = at /\ findings[k].ask /\ FindingKey(findings[k]) \in DOMAIN answers
                          => \E l \in won : findings[l].ask
<1> DEFINE won == Winner(findings, answers, at)
           asked == {k \in DOMAIN findings : findings[k].at = at /\ findings[k].ask
                                             /\ FindingKey(findings[k]) \in DOMAIN answers}
           free == {k \in DOMAIN findings : findings[k].at = at /\ ~findings[k].ask}
           FirstOf(s) == {i \in s : \A j \in s : i <= j}
<1>1. won = IF FirstOf(asked) # {} THEN FirstOf(asked) ELSE FirstOf(free)
    BY DEF Winner, First
<1>2. asked \in SUBSET Nat /\ free \in SUBSET Nat
    OBVIOUS
<1>3. \A k \in asked : /\ k \in DOMAIN findings /\ findings[k].at = at /\ findings[k].ask
                       /\ FindingKey(findings[k]) \in DOMAIN answers
    OBVIOUS
<1>4. \A k \in free : k \in DOMAIN findings /\ findings[k].at = at /\ ~findings[k].ask
    OBVIOUS
<1>5. \A k \in DOMAIN findings :
          findings[k].at = at /\ findings[k].ask /\ FindingKey(findings[k]) \in DOMAIN answers => k \in asked
    OBVIOUS
<1> HIDE DEF won, asked, free
<1>6. asked # {} => FirstOf(asked) # {}
    <2> SUFFICES ASSUME asked # {} PROVE FirstOf(asked) # {}
        OBVIOUS
    <2>1. Min(asked) \in asked /\ \A j \in asked : Min(asked) <= j
        BY <1>2, MinOfNaturals
    <2> QED
        BY <2>1
<1>7. ASSUME NEW s \in SUBSET Nat, NEW k \in FirstOf(s), NEW l \in FirstOf(s)
      PROVE  k = l
    <2>1. k \in Nat /\ l \in Nat /\ k <= l /\ l <= k
        OBVIOUS
    <2> QED
        BY <2>1
<1>8. FirstOf(asked) \subseteq asked /\ FirstOf(free) \subseteq free
    OBVIOUS
<1> HIDE DEF FirstOf
<1>9. \A k, l \in won : k = l
    BY <1>1, <1>2, <1>7
<1>10. \A k \in won : /\ k \in DOMAIN findings /\ findings[k].at = at
                      /\ findings[k].ask => FindingKey(findings[k]) \in DOMAIN answers
    BY <1>1, <1>3, <1>4, <1>8
<1>11. \A k \in DOMAIN findings :
          findings[k].at = at /\ findings[k].ask /\ FindingKey(findings[k]) \in DOMAIN answers
              => \E l \in won : findings[l].ask
    BY <1>1, <1>3, <1>5, <1>6, <1>8
<1> QED
    BY <1>9, <1>10, <1>11 DEF won

\* What is applied at a location is the edit that wins there.
LEMMA AppliedAtForms ==
    ASSUME NEW findings, \A k \in DOMAIN findings : k \in Nat, NEW answers, NEW at
    PROVE  {k \in Applied(findings, answers) : findings[k].at = at} = Winner(findings, answers, at)
<1>1. ASSUME NEW place, NEW k \in Winner(findings, answers, place)
      PROVE  k \in DOMAIN findings /\ findings[k].at = place
    BY WinnerForms
<1>2. \A k : k \in Applied(findings, answers) <=>
                 \E i \in DOMAIN findings : k \in Winner(findings, answers, findings[i].at)
    BY DEF Applied
<1>3. ASSUME NEW k \in Applied(findings, answers), findings[k].at = at
      PROVE  k \in Winner(findings, answers, at)
    <2>1. PICK i \in DOMAIN findings : k \in Winner(findings, answers, findings[i].at)
        BY <1>2
    <2>2. findings[i].at = at
        BY <1>1, <1>3, <2>1
    <2> QED
        BY <2>1, <2>2
<1>4. ASSUME NEW k \in Winner(findings, answers, at)
      PROVE  k \in Applied(findings, answers) /\ findings[k].at = at
    BY <1>1, <1>2
<1> QED
    BY <1>3, <1>4

LEMMA LinesAtForms ==
    ASSUME NEW doc, NEW findings, \A k \in DOMAIN findings : k \in Nat, NEW answers, NEW at, NEW line
    PROVE  LET won == Winner(findings, answers, at)
               lines == LinesAt(doc, findings, answers, at, line)
           IN  \/ won = {} /\ lines = <<line>>
               \/ \E k : won = {k} /\ lines = EditLines(findings[k], answers)
<1> DEFINE won == Winner(findings, answers, at)
           lines == LinesAt(doc, findings, answers, at, line)
           mine == {i \in Applied(findings, answers) : findings[i].at = at}
<1>1. mine = won
    BY AppliedAtForms
<1>2. lines = IF mine = {} THEN <<line>> ELSE EditLines(findings[CHOOSE i \in mine : TRUE], answers)
    BY DEF LinesAt
<1>3. \A k, l \in won : k = l
    BY WinnerForms
<1> HIDE DEF won, mine, lines
<1>4. lines = IF won = {} THEN <<line>> ELSE EditLines(findings[CHOOSE i \in won : TRUE], answers)
    BY <1>1, <1>2
<1>5. CASE won # {}
    <2>1. (CHOOSE i \in won : TRUE) \in won
        BY <1>5
    <2>2. won = {CHOOSE i \in won : TRUE}
        BY <1>3, <2>1
    <2> QED
        BY <1>4, <1>5, <2>2 DEF won, lines
<1> QED
    BY <1>4, <1>5 DEF won, lines

-----------------------------------------------------------------------------
(* The edits.                                                               *)

\* The answers are to questions of the report, in lines.
AnswersOk(findings, answers) ==
    \A key \in DOMAIN answers :
        /\ answers[key] \in Seq(Line)
        /\ \E k \in DOMAIN findings : findings[k].ask /\ FindingKey(findings[k]) = key

\* What an edit writes at a bullet.
LEMMA RewriteForms ==
    ASSUME NEW b, b.line \in Line, b.line # <<>>, NEW f \in Rewrites(b.at, b.line)
    PROVE  f.change \in Line /\ f.change # <<>> /\ KeepsPhrases(b.line, f.change)
<1>1. CASE f = Suggest("BUZZWORD", b.at, WithoutBuzzwords(b.line))
    <2>1. f.change = WithoutBuzzwords(b.line)
        BY <1>1 DEF Suggest
    <2> QED
        BY <2>1, WithoutBuzzwordsKeeps
<1>2. CASE \E r \in OpenerRule(b.line) : f = Suggest(r, b.at, Reworded(b.line))
    <2>1. PICK r \in OpenerRule(b.line) : f = Suggest(r, b.at, Reworded(b.line))
        BY <1>2
    <2>2. f.change = Reworded(b.line)
        BY <2>1 DEF Suggest
    <2>3. OpenerRules[b.line[1]] # {}
        BY OpenerRuleForms
    <2> QED
        BY <2>2, <2>3, RewordedKeeps
<1> QED
    BY <1>1, <1>2 DEF Rewrites

\* The edit at a bullet is the answer to a question about it, or one of its
\* rewrites.
LEMMA EditOfBullet ==
    ASSUME NEW doc, Readable(doc), OwnIds(doc), NEW findings, ReportOk(doc, findings),
           NEW f \in BulletFields, NEW i \in DOMAIN doc.fields[f],
           NEW k \in DOMAIN findings, findings[k].at = At(doc, f, i), ~findings[k].ask
    PROVE  /\ findings[k].change \in Line /\ findings[k].change # <<>>
           /\ KeepsPhrases(doc.fields[f][i], findings[k].change)
<1> DEFINE c == [at |-> At(doc, f, i), line |-> doc.fields[f][i]]
<1>1. c \in BulletSet(doc)
    <2>1. i \in DOMAIN RoleBullets(doc, f) /\ RoleBullets(doc, f)[i] = c
        BY DEF RoleBullets
    <2>2. c \in ToSet(RoleBullets(doc, f))
        BY <2>1 DEF ToSet
    <2> QED
        BY <2>2 DEF BulletSet
<1>2. c.line = doc.fields[f][i] /\ c.at = At(doc, f, i)
    OBVIOUS
<1> HIDE DEF c
<1>3. c.line \in Line /\ c.line # <<>>
    BY <1>2, ReadableLine
<1>4. ~RewriteOfSummary(doc, findings[k])
    <2>1. ASSUME RewriteOfSummary(doc, findings[k]) PROVE findings[k].at = SummaryAt
        BY <2>1, FindingsAskOrSuggest
    <2>2. At(doc, f, i) # SummaryAt
        BY SummaryIsNoBullet
    <2> QED
        BY <2>1, <2>2
<1>5. PICK b : RewriteOf(doc, findings[k], b)
    BY <1>4, FindingsAskOrSuggest DEF ReportOk
<1>6. b \in BulletSet(doc) /\ b.at = c.at
    BY <1>2, <1>5, FindingsAskOrSuggest DEF RewriteOf
<1>7. b = c
    BY <1>1, <1>6, OneBulletAtAPlace
<1>8. findings[k] \in Rewrites(c.at, c.line)
    BY <1>5, <1>7 DEF RewriteOf
<1> QED
    BY <1>2, <1>3, <1>8, RewriteForms

LEMMA EditOfSummary ==
    ASSUME NEW doc, Readable(doc), NEW findings, ReportOk(doc, findings),
           NEW i \in DOMAIN doc.fields[SummaryField],
           NEW k \in DOMAIN findings, findings[k].at = SummaryAt
    PROVE  /\ ~findings[k].ask /\ findings[k].change \in Line /\ findings[k].change # <<>>
           /\ KeepsPhrases(doc.fields[SummaryField][i], findings[k].change)
<1> DEFINE lines == doc.fields[SummaryField]
<1>1. lines \in Seq(Line) /\ Len(lines) <= 1 /\ i \in DOMAIN lines
    BY ShapeAssumption DEF Readable
<1>2. \A j \in DOMAIN lines : j = i
    BY <1>1
<1>3. ASSUME NEW b \in BulletSet(doc) PROVE b.at # SummaryAt
    BY BulletAtItsPlace, SummaryIsNoBullet
<1>4. RewriteOfSummary(doc, findings[k])
    BY <1>3, FindingsAskOrSuggest DEF ReportOk, RewriteOf, QuestionOf
<1>5. findings[k] = Suggest("BUZZWORD", SummaryAt, WithoutBuzzwords(lines[i]))
    BY <1>2, <1>4 DEF RewriteOfSummary
<1>6. ~findings[k].ask /\ findings[k].change = WithoutBuzzwords(lines[i])
    BY <1>5 DEF Suggest
<1>7. lines[i] \in Line /\ lines[i] # <<>>
    BY ReadableLine
<1> QED
    BY <1>6, <1>7, WithoutBuzzwordsKeeps

\* The lines the edits leave of a bullet: its own, one rewrite, or an answer.
Untouched(won, lines, line) == won = {} /\ lines = <<line>>
RewrittenAs(findings, won, lines, line, k) ==
    /\ k \in DOMAIN findings /\ won = {k} /\ ~findings[k].ask /\ lines = <<findings[k].change>>
    /\ findings[k].change \in Line /\ findings[k].change # <<>>
    /\ KeepsPhrases(line, findings[k].change)
AnsweredAs(findings, answers, at, won, lines, k) ==
    /\ k \in DOMAIN findings /\ won = {k} /\ findings[k].ask /\ findings[k].at = at
    /\ FindingKey(findings[k]) \in DOMAIN answers /\ lines = answers[FindingKey(findings[k])]

LEMMA LinesAtBullet ==
    ASSUME NEW doc, Readable(doc), OwnIds(doc), NEW findings, ReportOk(doc, findings), NEW answers,
           NEW f \in BulletFields, NEW i \in DOMAIN doc.fields[f]
    PROVE  LET at == At(doc, f, i)
               line == doc.fields[f][i]
               won == Winner(findings, answers, at)
               lines == LinesAt(doc, findings, answers, at, line)
           IN  \/ Untouched(won, lines, line)
               \/ \E k : RewrittenAs(findings, won, lines, line, k)
               \/ \E k : AnsweredAs(findings, answers, at, won, lines, k)
<1> DEFINE at == At(doc, f, i)
           line == doc.fields[f][i]
           won == Winner(findings, answers, at)
           lines == LinesAt(doc, findings, answers, at, line)
<1>1. \A k \in DOMAIN findings : k \in Nat
    BY DEF ReportOk
<1>2. (won = {} /\ lines = <<line>>) \/ \E k : won = {k} /\ lines = EditLines(findings[k], answers)
    <2> HIDE DEF at, line
    <2> QED
        BY <1>1, LinesAtForms
<1>3. \A k \in won : /\ k \in DOMAIN findings /\ findings[k].at = at
                     /\ findings[k].ask => FindingKey(findings[k]) \in DOMAIN answers
    <2> HIDE DEF at
    <2> QED
        BY <1>1, WinnerForms
<1>4. \A k \in DOMAIN findings : findings[k].at = at /\ ~findings[k].ask =>
          /\ findings[k].change \in Line /\ findings[k].change # <<>>
          /\ KeepsPhrases(line, findings[k].change)
    BY EditOfBullet
<1> HIDE DEF at, line, won, lines
<1>5. CASE won = {} /\ lines = <<line>>
    BY <1>5 DEF Untouched, at, line, won, lines
<1>6. ASSUME NEW k, won = {k}, lines = EditLines(findings[k], answers)
      PROVE  RewrittenAs(findings, won, lines, line, k) \/ AnsweredAs(findings, answers, at, won, lines, k)
    <2>1. k \in won
        BY <1>6
    <2>2. CASE findings[k].ask
        BY <1>3, <1>6, <2>1, <2>2 DEF AnsweredAs, EditLines
    <2>3. CASE ~findings[k].ask
        BY <1>3, <1>4, <1>6, <2>1, <2>3 DEF RewrittenAs, EditLines
    <2> QED
        BY <2>2, <2>3
<1> QED
    BY <1>2, <1>5, <1>6 DEF at, line, won, lines

RoleLines(doc, findings, answers, f) ==
    [i \in DOMAIN doc.fields[f] |-> LinesAt(doc, findings, answers, At(doc, f, i), doc.fields[f][i])]
SummaryLines(doc, findings, answers) ==
    [i \in DOMAIN doc.fields[SummaryField] |->
        LinesAt(doc, findings, answers, SummaryAt, doc.fields[SummaryField][i])]

\* An edit finds its bullet when roles have ids of their own.
LEMMA BulletIsAddressed ==
    ASSUME NEW doc, OwnIds(doc), NEW f \in BulletFields, NEW i
    PROVE  Addressed(doc, f, i)
<1> SUFFICES ASSUME NEW j \in DOMAIN Roles, NEW k \in DOMAIN Roles, j < k, Roles[k] = f,
                    doc.ids[Roles[j]] = doc.ids[f]
             PROVE  FALSE
    BY DEF Addressed
<1>1. Roles[j] \in BulletFields
    BY WordingAssumption DEF ToSet
<1>2. Roles[j] = Roles[k]
    BY <1>1 DEF OwnIds
<1>3. j = k /\ j \in Nat
    BY <1>2, WordingAssumption
<1> QED
    BY <1>3

LEMMA EditedForms ==
    ASSUME NEW doc, Readable(doc), OwnIds(doc), NEW findings, NEW answers
    PROVE  LET edited == ApplyEdits(doc, findings, answers)
           IN  /\ edited = [doc EXCEPT !.fields = edited.fields]
               /\ DOMAIN edited.fields = Field
               /\ \A f \in BulletFields :
                      edited.fields[f] = FlattenSeq(RoleLines(doc, findings, answers, f))
               /\ edited.fields[SummaryField] = FlattenSeq(SummaryLines(doc, findings, answers))
               /\ \A f \in Field \ (BulletFields \cup {SummaryField}) : edited.fields[f] = doc.fields[f]
<1> DEFINE BulletLines(f, i) ==
               IF Addressed(doc, f, i)
               THEN LinesAt(doc, findings, answers, At(doc, f, i), doc.fields[f][i])
               ELSE <<doc.fields[f][i]>>
           LinesOf(f) ==
               CASE f \in BulletFields -> FlattenSeq([i \in DOMAIN doc.fields[f] |-> BulletLines(f, i)])
                 [] f = SummaryField ->
                      FlattenSeq([i \in DOMAIN doc.fields[f] |->
                                    LinesAt(doc, findings, answers, SummaryAt, doc.fields[f][i])])
                 [] OTHER -> doc.fields[f]
           fields == [f \in Field |-> LinesOf(f)]
           edited == ApplyEdits(doc, findings, answers)
<1>1. edited = [doc EXCEPT !.fields = fields]
    BY DEF ApplyEdits
<1>2. ASSUME NEW f \in BulletFields PROVE LinesOf(f) = FlattenSeq(RoleLines(doc, findings, answers, f))
    <2>1. f # SummaryField
        BY ShapeAssumption
    <2>2. \A i : BulletLines(f, i) = LinesAt(doc, findings, answers, At(doc, f, i), doc.fields[f][i])
        BY BulletIsAddressed
    <2> HIDE DEF BulletLines
    <2>3. [i \in DOMAIN doc.fields[f] |-> BulletLines(f, i)] = RoleLines(doc, findings, answers, f)
        BY <2>2 DEF RoleLines
    <2> QED
        BY <2>1, <2>3
<1>3. LinesOf(SummaryField) = FlattenSeq(SummaryLines(doc, findings, answers))
    BY ShapeAssumption DEF SummaryLines
<1>4. \A f \in Field \ (BulletFields \cup {SummaryField}) : LinesOf(f) = doc.fields[f]
    OBVIOUS
<1>5. {SummaryField} \cup BulletFields \subseteq Field
    BY ShapeAssumption
<1> HIDE DEF LinesOf
<1>6. DOMAIN fields = Field /\ \A f \in Field : fields[f] = LinesOf(f)
    OBVIOUS
<1> HIDE DEF fields, edited
<1>7. edited.fields = fields
    BY <1>1 DEF Readable
<1> QED
    BY <1>1, <1>2, <1>3, <1>4, <1>5, <1>6, <1>7 DEF edited

LEMMA RoleLinesForms ==
    ASSUME NEW doc, Readable(doc), OwnIds(doc), NEW findings, ReportOk(doc, findings), NEW answers,
           AnswersOk(findings, answers), NEW f \in BulletFields
    PROVE  LET seqs == RoleLines(doc, findings, answers, f)
           IN  /\ seqs \in Seq(Seq(Line)) /\ DOMAIN seqs = DOMAIN doc.fields[f]
               /\ Len(seqs) = Len(doc.fields[f])
               /\ \A i \in DOMAIN seqs :
                      seqs[i] = LinesAt(doc, findings, answers, At(doc, f, i), doc.fields[f][i])
<1> DEFINE own == doc.fields[f]
           Of(i) == LinesAt(doc, findings, answers, At(doc, f, i), own[i])
           seqs == RoleLines(doc, findings, answers, f)
<1>1. own \in Seq(Line)
    BY ShapeAssumption DEF Readable
<1>2. DOMAIN own = 1 .. Len(own) /\ Len(own) \in Nat /\ \A i \in DOMAIN own : own[i] \in Line
    BY <1>1
<1>3. \A i \in DOMAIN own : Of(i) \in Seq(Line)
    <2> TAKE i \in DOMAIN own
    <2> DEFINE won == Winner(findings, answers, At(doc, f, i))
    <2>1. own[i] \in Line
        BY <1>2
    <2>2. \/ Untouched(won, Of(i), own[i])
          \/ \E k : RewrittenAs(findings, won, Of(i), own[i], k)
          \/ \E k : AnsweredAs(findings, answers, At(doc, f, i), won, Of(i), k)
        BY LinesAtBullet
    <2> HIDE DEF Of, own, won
    <2>3. CASE Untouched(won, Of(i), own[i])
        BY <2>1, <2>3 DEF Untouched
    <2>4. ASSUME NEW k, RewrittenAs(findings, won, Of(i), own[i], k) PROVE Of(i) \in Seq(Line)
        <3>1. Of(i) = <<findings[k].change>> /\ findings[k].change \in Line
            BY <2>4 DEF RewrittenAs
        <3> QED
            BY <3>1
    <2>5. ASSUME NEW k, AnsweredAs(findings, answers, At(doc, f, i), won, Of(i), k)
          PROVE  Of(i) \in Seq(Line)
        BY <2>5 DEF AnsweredAs, AnswersOk
    <2> QED
        BY <2>2, <2>3, <2>4, <2>5
<1>4. seqs = [i \in DOMAIN own |-> Of(i)]
    BY DEF RoleLines
<1> HIDE DEF Of, own, seqs
<1>5. /\ seqs \in Seq(Seq(Line)) /\ DOMAIN seqs = DOMAIN own /\ Len(seqs) = Len(own)
      /\ \A i \in DOMAIN seqs : seqs[i] = Of(i)
    BY <1>2, <1>3, <1>4
<1> QED
    BY <1>5 DEF Of, own, seqs

\* A bullet that is lines of one item holds that item after the edits.
LEMMA EditedBullets ==
    ASSUME NEW doc, Readable(doc), OwnIds(doc), NEW findings, ReportOk(doc, findings), NEW answers,
           AnswersOk(findings, answers), NEW f \in BulletFields,
           \A i \in DOMAIN doc.fields[f] : Len(RoleLines(doc, findings, answers, f)[i]) = 1
    PROVE  LET after == ApplyEdits(doc, findings, answers).fields[f]
           IN  /\ DOMAIN after = DOMAIN doc.fields[f] /\ Len(after) = Len(doc.fields[f])
               /\ \A i \in DOMAIN doc.fields[f] : after[i] = RoleLines(doc, findings, answers, f)[i][1]
<1> DEFINE seqs == RoleLines(doc, findings, answers, f)
           own == doc.fields[f]
           after == ApplyEdits(doc, findings, answers).fields[f]
<1>1. after = FlattenSeq(seqs)
    BY EditedForms
<1>2. seqs \in Seq(Seq(Line)) /\ DOMAIN seqs = DOMAIN own /\ Len(seqs) = Len(own)
    BY RoleLinesForms
<1>3. own \in Seq(Line)
    BY ShapeAssumption DEF Readable
<1> HIDE DEF seqs, own, after
<1>4. \A i \in DOMAIN seqs : Len(seqs[i]) = 1
    BY <1>2 DEF seqs, own
<1>5. FlattenSeq(seqs) = [i \in DOMAIN seqs |-> seqs[i][1]]
    BY <1>2, <1>4, FlattenSeqOfOnes
<1>6. DOMAIN after = DOMAIN own /\ \A i \in DOMAIN own : after[i] = seqs[i][1]
    BY <1>1, <1>2, <1>5
<1>7. after = [i \in 1 .. Len(own) |-> seqs[i][1]] /\ Len(own) \in Nat
    BY <1>1, <1>2, <1>3, <1>5
<1>8. Len(after) = Len(own)
    BY <1>7
<1> QED
    BY <1>6, <1>8 DEF seqs, own, after

LEMMA LengthsHold ==
    ASSUME NEW doc, "fields" \in DOMAIN doc, NEW fields, ContentPreserved(doc, [doc EXCEPT !.fields = fields]),
           NEW f \in BulletFields
    PROVE  Len(fields[f]) = Len(doc.fields[f])
<1> DEFINE Shape(d) == [g \in Field |->
               IF g \in BulletFields THEN Len(d[g]) ELSE IF g = SummaryField THEN 0 ELSE d[g]]
           edited == [doc EXCEPT !.fields = fields]
<1>1. edited.fields = fields /\ "fields" \in DOMAIN edited
    OBVIOUS
<1>2. WordingShape(doc) = [doc EXCEPT !.fields = Shape(doc.fields)]
    BY DEF WordingShape
<1>3. WordingShape(edited) = [edited EXCEPT !.fields = Shape(edited.fields)]
    BY DEF WordingShape
<1>4. WordingShape(doc) = WordingShape(edited)
    BY DEF ContentPreserved
<1> HIDE DEF edited, Shape
<1>5. WordingShape(doc).fields = Shape(doc.fields) /\ WordingShape(edited).fields = Shape(edited.fields)
    BY <1>1, <1>2, <1>3
<1>6. Shape(doc.fields) = Shape(fields)
    BY <1>1, <1>4, <1>5
<1>7. f \in Field
    BY ShapeAssumption
<1>8. Shape(doc.fields)[f] = Len(doc.fields[f]) /\ Shape(fields)[f] = Len(fields[f])
    BY <1>7 DEF Shape
<1> QED
    BY <1>6, <1>8

\* When the gate holds and no two answers make up for one another, every edit
\* leaves one line.
LEMMA OneLineEach ==
    ASSUME NEW doc, Readable(doc), OwnIds(doc), NEW findings, ReportOk(doc, findings), NEW answers,
           AnswersOk(findings, answers), Unbalanced(answers),
           ContentPreserved(doc, ApplyEdits(doc, findings, answers)), NEW f \in BulletFields
    PROVE  \A i \in DOMAIN doc.fields[f] : Len(RoleLines(doc, findings, answers, f)[i]) = 1
<1> DEFINE seqs == RoleLines(doc, findings, answers, f)
           own == doc.fields[f]
           Won(i) == Winner(findings, answers, At(doc, f, i))
<1>1. /\ seqs \in Seq(Seq(Line)) /\ DOMAIN seqs = DOMAIN own /\ Len(seqs) = Len(own)
      /\ \A i \in DOMAIN seqs : seqs[i] = LinesAt(doc, findings, answers, At(doc, f, i), own[i])
    BY RoleLinesForms
<1>2. Len(FlattenSeq(seqs)) = Len(seqs)
    <2> DEFINE edited == ApplyEdits(doc, findings, answers)
    <2>1. edited = [doc EXCEPT !.fields = edited.fields] /\ edited.fields[f] = FlattenSeq(seqs)
        BY EditedForms
    <2>2. "fields" \in DOMAIN doc
        BY DEF Readable
    <2>3. ContentPreserved(doc, edited)
        OBVIOUS
    <2> HIDE DEF edited
    <2>4. Len(edited.fields[f]) = Len(doc.fields[f])
        BY <2>1, <2>2, <2>3, LengthsHold
    <2> QED
        BY <1>1, <2>1, <2>4
<1>3. \A i \in DOMAIN own : \/ Untouched(Won(i), seqs[i], own[i])
                            \/ \E k : RewrittenAs(findings, Won(i), seqs[i], own[i], k)
                            \/ \E k : AnsweredAs(findings, answers, At(doc, f, i), Won(i), seqs[i], k)
    <2> TAKE i \in DOMAIN own
    <2>1. seqs[i] = LinesAt(doc, findings, answers, At(doc, f, i), own[i])
        BY <1>1
    <2> HIDE DEF seqs
    <2> QED
        BY <2>1, LinesAtBullet
<1> HIDE DEF seqs, own, Won
<1>4. \A i \in DOMAIN own : Len(seqs[i]) # 1 => \E k : AnsweredAs(findings, answers, At(doc, f, i), Won(i), seqs[i], k)
    <2> SUFFICES ASSUME NEW i \in DOMAIN own, Len(seqs[i]) # 1
                 PROVE  \E k : AnsweredAs(findings, answers, At(doc, f, i), Won(i), seqs[i], k)
        OBVIOUS
    <2>1. ~Untouched(Won(i), seqs[i], own[i])
        BY DEF Untouched
    <2>2. ASSUME NEW k, RewrittenAs(findings, Won(i), seqs[i], own[i], k) PROVE FALSE
        <3>1. seqs[i] = <<findings[k].change>>
            BY <2>2 DEF RewrittenAs
        <3>2. Len(<<findings[k].change>>) = 1
            OBVIOUS
        <3> QED
            BY <3>1, <3>2
    <2> QED
        BY <1>3, <2>1, <2>2
<1>5. SUFFICES ASSUME NEW j \in DOMAIN own, Len(seqs[j]) # 1 PROVE FALSE
    BY DEF seqs, own
<1>6. PICK k : AnsweredAs(findings, answers, At(doc, f, j), Won(j), seqs[j], k)
    BY <1>4, <1>5
<1>7. \A key, other \in DOMAIN answers : key = other
    BY <1>5, <1>6 DEF Unbalanced, AnsweredAs
<1>8. \A i \in DOMAIN own : i # j => Len(seqs[i]) = 1
    <2> SUFFICES ASSUME NEW i \in DOMAIN own, Len(seqs[i]) # 1 PROVE i = j
        OBVIOUS
    <2>1. PICK l : AnsweredAs(findings, answers, At(doc, f, i), Won(i), seqs[i], l)
        BY <1>4
    <2>2. FindingKey(findings[l]) = FindingKey(findings[k])
        BY <1>6, <1>7, <2>1 DEF AnsweredAs
    <2>3. findings[l].at = findings[k].at
        BY <2>2 DEF FindingKey
    <2>4. At(doc, f, i) = At(doc, f, j)
        BY <1>6, <2>1, <2>3 DEF AnsweredAs
    <2> QED
        BY <2>4, BulletsAreApart
<1>9. Len(seqs[j]) = 1
    <2>1. seqs \in Seq(Seq(Line)) /\ j \in DOMAIN seqs /\ \A i \in DOMAIN seqs : i # j => Len(seqs[i]) = 1
        BY <1>1, <1>8
    <2> QED
        BY <1>2, <2>1, FlattenSeqOfOnesButOne
<1> QED
    BY <1>5, <1>9

\* What EditsLandWhereReported says of one bullet.
LandsAt(doc, findings, answers, after, f, i) ==
    LET at   == At(doc, f, i)
        mine == {k \in Applied(findings, answers) : findings[k].at = at}
    IN  /\ \A k \in DOMAIN findings :
              FindingKey(findings[k]) \in DOMAIN answers /\ findings[k].at = at => mine = {k}
        /\ mine = {} => after = doc.fields[f][i]
        /\ \A k \in mine : after = IF findings[k].ask THEN answers[FindingKey(findings[k])][1]
                                   ELSE findings[k].change

LEMMA EditsLand ==
    ASSUME NEW doc, Readable(doc), OwnIds(doc), NEW findings, ReportOk(doc, findings), NEW answers,
           AnswersOk(findings, answers), Unbalanced(answers),
           ContentPreserved(doc, ApplyEdits(doc, findings, answers)),
           NEW f \in BulletFields, NEW i \in DOMAIN doc.fields[f]
    PROVE  LandsAt(doc, findings, answers, ApplyEdits(doc, findings, answers).fields[f][i], f, i)
<1> DEFINE at == At(doc, f, i)
           mine == {k \in Applied(findings, answers) : findings[k].at = at}
           won == Winner(findings, answers, at)
           line == doc.fields[f][i]
           lines == LinesAt(doc, findings, answers, at, line)
           after == ApplyEdits(doc, findings, answers).fields[f][i]
<1>1. \A k \in DOMAIN findings : k \in Nat
    BY DEF ReportOk
<1>2. mine = won
    <2> HIDE DEF at
    <2> QED
        BY <1>1, AppliedAtForms
<1>3. after = lines[1]
    <2>1. \A j \in DOMAIN doc.fields[f] : Len(RoleLines(doc, findings, answers, f)[j]) = 1
        BY OneLineEach
    <2>2. after = RoleLines(doc, findings, answers, f)[i][1]
        BY <2>1, EditedBullets
    <2>3. RoleLines(doc, findings, answers, f)[i] = lines
        BY DEF RoleLines
    <2> QED
        BY <2>2, <2>3
<1>4. \/ Untouched(won, lines, line)
      \/ \E k : RewrittenAs(findings, won, lines, line, k)
      \/ \E k : AnsweredAs(findings, answers, at, won, lines, k)
    BY LinesAtBullet
<1>5. ASSUME NEW k \in DOMAIN findings, FindingKey(findings[k]) \in DOMAIN answers, findings[k].at = at
      PROVE  won = {k}
    <2>1. PICK l \in DOMAIN findings : findings[l].ask /\ FindingKey(findings[l]) = FindingKey(findings[k])
        BY <1>5 DEF AnswersOk
    <2>2. findings[k].rule = findings[l].rule
        BY <2>1 DEF FindingKey
    <2>3. findings[l].rule = "MISSING_QUANTIFICATION"
        BY <2>1, FindingsAskOrSuggest DEF ReportOk
    <2>4. findings[k].ask
        BY <2>2, <2>3, FindingsAskOrSuggest DEF ReportOk
    <2>5. PICK w \in won : findings[w].ask
        BY <1>1, <1>5, <2>4, WinnerForms
    <2>6. w \in DOMAIN findings /\ findings[w].at = at /\ \A x \in won : x = w
        BY <1>1, WinnerForms
    <2>7. w = k
        BY <1>5, <2>4, <2>5, <2>6 DEF ReportOk
    <2> QED
        BY <2>5, <2>6, <2>7
<1> HIDE DEF at, mine, won, line, lines, after
<1>6. won = {} => after = line
    BY <1>3, <1>4 DEF Untouched, RewrittenAs, AnsweredAs
<1>7. \A k \in won : after = IF findings[k].ask THEN answers[FindingKey(findings[k])][1]
                             ELSE findings[k].change
    <2>1. CASE Untouched(won, lines, line)
        BY <2>1 DEF Untouched
    <2>2. ASSUME NEW l, RewrittenAs(findings, won, lines, line, l)
          PROVE  \A k \in won : after = IF findings[k].ask THEN answers[FindingKey(findings[k])][1]
                                        ELSE findings[k].change
        <3>1. won = {l} /\ ~findings[l].ask /\ lines = <<findings[l].change>>
            BY <2>2 DEF RewrittenAs
        <3> QED
            BY <1>3, <3>1
    <2>3. ASSUME NEW l, AnsweredAs(findings, answers, at, won, lines, l)
          PROVE  \A k \in won : after = IF findings[k].ask THEN answers[FindingKey(findings[k])][1]
                                        ELSE findings[k].change
        <3>1. won = {l} /\ findings[l].ask /\ lines = answers[FindingKey(findings[l])]
            BY <2>3 DEF AnsweredAs
        <3> QED
            BY <1>3, <3>1
    <2> QED
        BY <1>4, <2>1, <2>2, <2>3
<1>8. LandsAt(doc, findings, answers, after, f, i) <=>
          /\ \A k \in DOMAIN findings :
                FindingKey(findings[k]) \in DOMAIN answers /\ findings[k].at = at => mine = {k}
          /\ mine = {} => after = line
          /\ \A k \in mine : after = IF findings[k].ask THEN answers[FindingKey(findings[k])][1]
                                     ELSE findings[k].change
    BY DEF LandsAt, at, mine, line
<1>9. LandsAt(doc, findings, answers, after, f, i)
    BY <1>2, <1>5, <1>6, <1>7, <1>8
<1> QED
    BY <1>9 DEF after

\* What SubstanceKept says of a resume that was refined without an answer.
KeepsSubstance(doc, fields) ==
    \A f \in BulletFields \cup {SummaryField} : \A i \in DOMAIN doc.fields[f] :
        /\ fields[f][i] # <<>>
        /\ KeepsPhrases(doc.fields[f][i], fields[f][i])

LEMMA UnansweredKeepsSubstance ==
    ASSUME NEW doc, Readable(doc), OwnIds(doc), NEW findings, ReportOk(doc, findings), NEW answers,
           AnswersOk(findings, answers), DOMAIN answers = {}
    PROVE  LET edited == ApplyEdits(doc, findings, answers)
           IN  ContentPreserved(doc, edited) /\ KeepsSubstance(doc, edited.fields)
<1> DEFINE edited == ApplyEdits(doc, findings, answers)
<1>1. \A k \in DOMAIN findings : k \in Nat
    BY DEF ReportOk
<1>2. ASSUME NEW f \in BulletFields, NEW i \in DOMAIN doc.fields[f]
      PROVE  LET line == doc.fields[f][i]
                 lines == RoleLines(doc, findings, answers, f)[i]
             IN  Len(lines) = 1 /\ lines[1] # <<>> /\ KeepsPhrases(line, lines[1])
    <2> DEFINE line == doc.fields[f][i]
               won == Winner(findings, answers, At(doc, f, i))
               lines == LinesAt(doc, findings, answers, At(doc, f, i), line)
    <2>1. \/ Untouched(won, lines, line)
          \/ \E k : RewrittenAs(findings, won, lines, line, k)
          \/ \E k : AnsweredAs(findings, answers, At(doc, f, i), won, lines, k)
        BY LinesAtBullet
    <2>2. RoleLines(doc, findings, answers, f)[i] = lines
        BY DEF RoleLines
    <2>3. line # <<>>
        BY ReadableLine
    <2> HIDE DEF line, won, lines
    <2>4. Len(lines) = 1 /\ lines[1] # <<>> /\ KeepsPhrases(line, lines[1])
        <3>1. CASE Untouched(won, lines, line)
            <4>1. lines = <<line>>
                BY <3>1 DEF Untouched
            <4> QED
                BY <2>3, <4>1, LineKeepsPhrases
        <3>2. ASSUME NEW k, RewrittenAs(findings, won, lines, line, k)
              PROVE  Len(lines) = 1 /\ lines[1] # <<>> /\ KeepsPhrases(line, lines[1])
            <4>1. /\ lines = <<findings[k].change>> /\ findings[k].change # <<>>
                  /\ KeepsPhrases(line, findings[k].change)
                BY <3>2 DEF RewrittenAs
            <4> QED
                BY <4>1
        <3>3. \A k : ~AnsweredAs(findings, answers, At(doc, f, i), won, lines, k)
            BY DEF AnsweredAs
        <3> QED
            BY <2>1, <3>1, <3>2, <3>3
    <2> QED
        BY <2>2, <2>4 DEF line
<1>3. ASSUME NEW i \in DOMAIN doc.fields[SummaryField]
      PROVE  LET line == doc.fields[SummaryField][i]
                 lines == LinesAt(doc, findings, answers, SummaryAt, line)
             IN  \E w : /\ w \in Line /\ lines = <<w>> /\ w # <<>>
                        /\ KeepsPhrases(line, w)
    <2> DEFINE line == doc.fields[SummaryField][i]
               won == Winner(findings, answers, SummaryAt)
               lines == LinesAt(doc, findings, answers, SummaryAt, line)
    <2>1. \/ won = {} /\ lines = <<line>>
          \/ \E k : won = {k} /\ lines = EditLines(findings[k], answers)
        <3> HIDE DEF line
        <3> QED
            BY <1>1, LinesAtForms
    <2>2. line # <<>> /\ line \in Line
        BY ReadableLine
    <2>3. \A k \in won : k \in DOMAIN findings /\ findings[k].at = SummaryAt
        BY <1>1, WinnerForms
    <2>4. \A k \in won : /\ ~findings[k].ask /\ findings[k].change \in Line /\ findings[k].change # <<>>
                         /\ KeepsPhrases(line, findings[k].change)
        BY <2>3, EditOfSummary
    <2> HIDE DEF line, won, lines
    <2>5. CASE won = {} /\ lines = <<line>>
        BY <2>2, <2>5, LineKeepsPhrases DEF line, lines
    <2>6. ASSUME NEW k, won = {k}, lines = EditLines(findings[k], answers)
          PROVE  \E w : /\ w \in Line /\ lines = <<w>> /\ w # <<>>
                        /\ KeepsPhrases(line, w)
        <3>1. lines = <<findings[k].change>>
            BY <2>4, <2>6 DEF EditLines
        <3> QED
            BY <2>4, <2>6, <3>1
    <2> QED
        BY <2>1, <2>5, <2>6 DEF line, lines
<1>4. ASSUME NEW f \in BulletFields
      PROVE  /\ Len(edited.fields[f]) = Len(doc.fields[f])
             /\ \A i \in DOMAIN doc.fields[f] :
                    edited.fields[f][i] = RoleLines(doc, findings, answers, f)[i][1]
    BY <1>2, EditedBullets
<1>5. \A i \in DOMAIN doc.fields[SummaryField] :
          edited.fields[SummaryField][i] = SummaryLines(doc, findings, answers)[i][1]
    <2> DEFINE own == doc.fields[SummaryField]
               seqs == SummaryLines(doc, findings, answers)
               Of(i) == LinesAt(doc, findings, answers, SummaryAt, own[i])
    <2>1. own \in Seq(Line)
        BY ShapeAssumption DEF Readable
    <2>2. \A i \in DOMAIN own : \E w : w \in Line /\ Of(i) = <<w>>
        BY <1>3
    <2>3. seqs = [i \in DOMAIN own |-> Of(i)]
        BY DEF SummaryLines
    <2>4. edited.fields[SummaryField] = FlattenSeq(seqs)
        BY EditedForms
    <2> HIDE DEF own, seqs, Of, edited
    <2>5. \A i \in DOMAIN own : Of(i) \in Seq(Line) /\ Len(Of(i)) = 1
        <3> TAKE i \in DOMAIN own
        <3>1. PICK w : w \in Line /\ Of(i) = <<w>>
            BY <2>2
        <3> QED
            BY <3>1
    <2>6. DOMAIN own = 1 .. Len(own) /\ Len(own) \in Nat
        BY <2>1
    <2>7. seqs \in Seq(Seq(Line)) /\ DOMAIN seqs = DOMAIN own
        BY <2>3, <2>5, <2>6
    <2>8. \A i \in DOMAIN seqs : Len(seqs[i]) = 1
        BY <2>3, <2>5, <2>7
    <2>9. FlattenSeq(seqs) = [i \in DOMAIN seqs |-> seqs[i][1]]
        BY <2>7, <2>8, FlattenSeqOfOnes
    <2> QED
        BY <2>4, <2>7, <2>9 DEF own, seqs
<1>6. KeepsSubstance(doc, edited.fields)
    <2>1. ASSUME NEW f \in BulletFields, NEW i \in DOMAIN doc.fields[f]
          PROVE  /\ edited.fields[f][i] # <<>>
                 /\ KeepsPhrases(doc.fields[f][i], edited.fields[f][i])
        <3> DEFINE line == doc.fields[f][i]
                   lines == RoleLines(doc, findings, answers, f)[i]
        <3>1. lines[1] # <<>> /\ KeepsPhrases(line, lines[1])
            BY <1>2
        <3>2. edited.fields[f][i] = lines[1]
            BY <1>4
        <3> HIDE DEF edited, lines
        <3> QED
            BY <3>1, <3>2
    <2>2. ASSUME NEW i \in DOMAIN doc.fields[SummaryField]
          PROVE  /\ edited.fields[SummaryField][i] # <<>>
                 /\ KeepsPhrases(doc.fields[SummaryField][i], edited.fields[SummaryField][i])
        <3> DEFINE line == doc.fields[SummaryField][i]
                   lines == LinesAt(doc, findings, answers, SummaryAt, line)
        <3>1. PICK w : /\ w \in Line /\ lines = <<w>> /\ w # <<>>
                       /\ KeepsPhrases(line, w)
            BY <1>3
        <3>2. SummaryLines(doc, findings, answers)[i] = lines
            BY DEF SummaryLines
        <3>3. edited.fields[SummaryField][i] = w
            BY <1>5, <3>1, <3>2
        <3> QED
            BY <3>1, <3>3
    <2> HIDE DEF edited
    <2> QED
        BY <2>1, <2>2 DEF KeepsSubstance
<1>7. ContentPreserved(doc, edited)
    <2> DEFINE Shape(d) == [g \in Field |->
                   IF g \in BulletFields THEN Len(d[g]) ELSE IF g = SummaryField THEN 0 ELSE d[g]]
    <2>1. edited = [doc EXCEPT !.fields = edited.fields]
        BY EditedForms
    <2>2. \A f \in Field \ (BulletFields \cup {SummaryField}) : edited.fields[f] = doc.fields[f]
        BY EditedForms
    <2>3. WordingShape(doc) = [doc EXCEPT !.fields = Shape(doc.fields)]
        BY DEF WordingShape
    <2>4. WordingShape(edited) = [edited EXCEPT !.fields = Shape(edited.fields)]
        BY DEF WordingShape
    <2> HIDE DEF edited
    <2>5. Shape(doc.fields) = Shape(edited.fields)
        BY <1>4, <2>2
    <2> HIDE DEF Shape
    <2>6. [edited EXCEPT !.fields = Shape(edited.fields)] = [doc EXCEPT !.fields = Shape(edited.fields)]
        BY <2>1
    <2> QED
        BY <2>3, <2>4, <2>5, <2>6 DEF ContentPreserved
<1> QED
    BY <1>6, <1>7

\* What is read of a structure version has roles with ids of their own.
THEOREM ProjectedOwnsItsIds ==
    ASSUME NEW resume
    PROVE  OwnIds(Projected(resume))
<1> DEFINE id == [f \in BulletFields |-> SelectInSeq(Roles, LAMBDA r : r = f)]
<1>1. Projected(resume).ids = id
    BY DEF Projected
<1>2. \A f \in BulletFields : Roles[id[f]] = f
    <2> TAKE f \in BulletFields
    <2> DEFINE hits == {i \in 1 .. Len(Roles) : Roles[i] = f}
    <2>1. id[f] = IF hits # {} THEN Min(hits) ELSE 0
        BY DEF SelectInSeq
    <2>2. hits # {}
        BY WordingAssumption DEF ToSet
    <2>3. hits \in SUBSET Nat
        OBVIOUS
    <2>4. \A i \in hits : Roles[i] = f
        OBVIOUS
    <2> HIDE DEF hits, id
    <2> QED
        BY <2>1, <2>2, <2>3, <2>4, MinOfNaturals
<1> HIDE DEF id
<1>3. \A f, g \in BulletFields : f # g => id[f] # id[g]
    BY <1>2
<1> QED
    BY <1>1, <1>3 DEF OwnIds

LEMMA SourceIsReadable ==
    ASSUME NEW doc \in Source
    PROVE  Readable(doc)
<1>1. "fields" \in DOMAIN doc
    BY DEF Source
<1>2. /\ doc.fields \in [Field -> Seq(Line)] /\ Len(doc.fields[SummaryField]) <= 1
      /\ \A f \in BulletFields \cup {SummaryField} : <<>> \notin ToSet(doc.fields[f])
    BY DEF Source
<1> QED
    BY <1>1, <1>2 DEF Readable

LEMMA ProjectedIsReadable ==
    ASSUME NEW resume \in Resumes, Readable(resume)
    PROVE  Readable(Projected(resume))
<1> DEFINE read == Projected(resume)
<1>1. read = [fields |-> read.fields, lists |-> read.lists, ids |-> read.ids]
      /\ read.fields = [f \in Field |-> IF f \in DateFields /\ resume.fields[f] # <<>>
                                       THEN YearsRead(f, resume.fields[f]) ELSE resume.fields[f]]
    BY DEF Projected
<1> HIDE DEF read
<1>2. "fields" \in DOMAIN read
    BY <1>1
<1>3. \A f \in Field : read.fields[f] \in Seq(Line)
    <2> SUFFICES ASSUME NEW f \in Field PROVE read.fields[f] \in Seq(Line)
        OBVIOUS
    <2> DEFINE lines == resume.fields[f]
    <2>1. lines \in Seq(Line)
        BY DEF Resumes
    <2>2. CASE f \in DateFields /\ lines # <<>>
        <3>1. Len(lines) = 3 /\ read.fields[f] = YearsRead(f, lines)
            BY <1>1, <2>2 DEF Resumes
        <3> HIDE DEF lines
        <3>2. lines[1] \in Line /\ lines[2] \in Line /\ lines[3] \in Line
            <4>1. DOMAIN lines = 1 .. 3
                BY <2>1, <3>1
            <4>2. \A i \in DOMAIN lines : lines[i] \in Line
                BY <2>1
            <4> QED
                BY <4>1, <4>2
        <3>3. lines[1] \o lines[2] \in Line
            BY <3>2 DEF Line
        <3>4. <<lines[1] \o lines[2], lines[3]>> \in Seq(Line) /\ <<lines[3]>> \in Seq(Line)
              /\ <<lines[1] \o lines[2]>> \in Seq(Line)
            BY <3>2, <3>3
        <3> QED
            BY <3>1, <3>4 DEF YearsRead
    <2>3. CASE ~(f \in DateFields /\ lines # <<>>)
        BY <1>1, <2>1, <2>3
    <2> QED
        BY <2>2, <2>3
<1>4. read.fields \in [Field -> Seq(Line)]
    BY <1>1, <1>3
<1>5. \A f \in BulletFields \cup {SummaryField} : read.fields[f] = resume.fields[f]
    BY <1>1, ShapeAssumption
<1> QED
    BY <1>2, <1>4, <1>5 DEF Readable, read

-----------------------------------------------------------------------------
(* The stage.                                                               *)

\* The sources are resumes, and so is what the structure version holds, which
\* refine can read.
StageInv ==
    /\ source \in Source
    /\ structure # NoStructure => structure.resume \in Resumes /\ Readable(structure.resume)

\* What a structure build leaves.
LEMMA BuildForms ==
    ASSUME source \in Source, BuildStructure
    PROVE  \E report :
             LET fix == ApplyShapeTransforms(source, report, decisions)
             IN  /\ evidence' = SeedEvidence(evidence, source)
                 /\ last'.stage = "structure"
                 /\ last'.ledgerOk = ContentLedgerOk(fix.ledger, Receipts(evidence'))
                 /\ last'.of = source /\ last'.ledger = fix.ledger /\ last'.resume = fix.resume
                 /\ last'.deferred = fix.deferred
                 /\ \/ structure' = structure
                    \/ /\ last'.ledgerOk
                       /\ structure'.of = source /\ structure'.ledger = fix.ledger
                       /\ structure'.resume = fix.resume
<1> DEFINE report == ShapeReport(source, Overlaid(overlay))
           fix == ApplyShapeTransforms(source, report, decisions)
<1>1. /\ evidence' = SeedEvidence(evidence, source)
      /\ last'.stage = "structure"
      /\ last'.ledgerOk = ContentLedgerOk(fix.ledger, Receipts(evidence'))
      /\ last'.of = source /\ last'.ledger = fix.ledger /\ last'.resume = fix.resume
      /\ last'.deferred = fix.deferred
    BY DEF BuildStructure
<1>2. \/ structure' = structure
      \/ /\ ContentLedgerOk(fix.ledger, Receipts(evidence'))
         /\ structure'.of = source /\ structure'.ledger = fix.ledger
         /\ structure'.resume = fix.resume
    BY DEF BuildStructure
<1> HIDE DEF report, fix
<1>3. \/ structure' = structure
      \/ /\ last'.ledgerOk
         /\ structure'.of = source /\ structure'.ledger = fix.ledger
         /\ structure'.resume = fix.resume
    BY <1>1, <1>2
<1> QED
    BY <1>1, <1>3 DEF fix

\* The actions that leave both versions, the last result and the evidence alone.
Quiet == UNCHANGED <<evidence, structure, last>>

LEMMA StepsOfTheStage ==
    ASSUME [Next]_vars
    PROVE  Quiet \/ BuildStructure \/ (BuildRefine /\ UNCHANGED <<source, evidence, structure>>)
<1>1. CASE EditSource
    BY <1>1 DEF EditSource, Quiet
<1>2. CASE ConfigureShape
    BY <1>2 DEF ConfigureShape, Quiet
<1>3. CASE Decide
    BY <1>3 DEF Decide, Quiet
<1>4. CASE BuildStructure
    BY <1>4
<1>5. CASE BuildRefine
    BY <1>5 DEF BuildRefine
<1>6. CASE UNCHANGED vars
    BY <1>6 DEF vars, Quiet
<1> QED
    BY <1>1, <1>2, <1>3, <1>4, <1>5, <1>6 DEF Next

\* What a refine build leaves.
Refined(r) ==
    /\ r.stage = "refine" /\ Readable(r.read) /\ r.findings = WordingReport(r.read)
    /\ AnswersOk(r.findings, r.answers) /\ r.applied = Applied(r.findings, r.answers)
    /\ r.resume = ApplyEdits(r.read, r.findings, r.answers)
    /\ r.written = ContentPreserved(r.read, r.resume)

LEMMA RefinedByRefine ==
    ASSUME StageInv, BuildRefine
    PROVE  Refined(last')
<1> DEFINE read == IF structure = NoStructure THEN source ELSE Projected(structure.resume)
           findings == WordingReport(read)
           keys == {FindingKey(findings[i]) : i \in {j \in DOMAIN findings : findings[j].ask}}
           Result(answers) ==
               [stage |-> "refine", read |-> read, findings |-> findings,
                answers |-> answers, applied |-> Applied(findings, answers),
                resume |-> ApplyEdits(read, findings, answers),
                written |-> ContentPreserved(read, ApplyEdits(read, findings, answers))]
<1>1. PICK answered \in SUBSET keys : \E answers \in [answered -> AnswerTexts] : last' = Result(answers)
    BY DEF BuildRefine
<1>2. PICK answers \in [answered -> AnswerTexts] : last' = Result(answers)
    BY <1>1
<1>3. Readable(read)
    BY SourceIsReadable, ProjectedIsReadable DEF StageInv
<1>4. \A key \in answered : \E k \in DOMAIN findings : findings[k].ask /\ FindingKey(findings[k]) = key
    BY <1>1
<1> HIDE DEF read, findings, keys
<1>5. AnswersOk(findings, answers)
    BY <1>2, <1>4, StageAssumption DEF AnswersOk
<1> DEFINE edited == ApplyEdits(read, findings, answers)
<1>6. /\ last'.stage = "refine" /\ last'.read = read /\ last'.findings = findings
      /\ last'.answers = answers /\ last'.applied = Applied(findings, answers)
      /\ last'.resume = edited /\ last'.written = ContentPreserved(read, edited)
    BY <1>2
<1> QED
    BY <1>3, <1>5, <1>6 DEF Refined, findings

LEMMA RefinedLands ==
    ASSUME NEW r, Refined(r), r.written, OwnIds(r.read), Unbalanced(r.answers),
           NEW f \in BulletFields, NEW i \in DOMAIN r.read.fields[f]
    PROVE  LET at   == At(r.read, f, i)
               mine == {k \in r.applied : r.findings[k].at = at}
           IN  /\ \A k \in DOMAIN r.findings :
                     FindingKey(r.findings[k]) \in DOMAIN r.answers /\ r.findings[k].at = at => mine = {k}
               /\ mine = {} => r.resume.fields[f][i] = r.read.fields[f][i]
               /\ \A k \in mine : r.resume.fields[f][i] =
                     IF r.findings[k].ask THEN r.answers[FindingKey(r.findings[k])][1]
                     ELSE r.findings[k].change
<1>1. ReportOk(r.read, r.findings)
    BY WordingReportForms DEF Refined
<1>2. LandsAt(r.read, r.findings, r.answers, r.resume.fields[f][i], f, i)
    BY <1>1, EditsLand DEF Refined
<1>3. r.applied = Applied(r.findings, r.answers)
    BY DEF Refined
<1> QED
    BY <1>2, <1>3 DEF LandsAt

LEMMA RefinedKeepsSubstance ==
    ASSUME NEW r, Refined(r), OwnIds(r.read), DOMAIN r.answers = {}
    PROVE  r.written /\ KeepsSubstance(r.read, r.resume.fields)
<1>1. ReportOk(r.read, r.findings)
    BY WordingReportForms DEF Refined
<1> QED
    BY <1>1, UnansweredKeepsSubstance DEF Refined

LEMMA StageInvSteps ==
    ASSUME StageInv, [Next]_vars
    PROVE  StageInv'
<1>1. source' \in Source
    BY StageAssumption DEF StageInv, Next, EditSource, ConfigureShape, Decide, BuildStructure,
                           BuildRefine, vars
<1>2. structure' # NoStructure => structure'.resume \in Resumes /\ Readable(structure'.resume)
    <2>1. CASE Quiet
        BY <2>1 DEF StageInv, Quiet
    <2>2. CASE UNCHANGED <<source, evidence, structure>>
        BY <2>2 DEF StageInv
    <2>3. CASE BuildStructure
        <3>1. PICK report :
                 LET fix == ApplyShapeTransforms(source, report, decisions)
                 IN  /\ last'.ledgerOk = ContentLedgerOk(fix.ledger, Receipts(evidence'))
                     /\ \/ structure' = structure
                        \/ last'.ledgerOk /\ structure'.resume = fix.resume
            BY <2>3, BuildForms DEF StageInv
        <3>2. CASE structure' = structure
            BY <3>2 DEF StageInv
        <3>3. CASE structure' # structure
            <4> DEFINE fix == ApplyShapeTransforms(source, report, decisions)
            <4>1. ContentLedgerOk(fix.ledger, Receipts(evidence')) /\ structure'.resume = fix.resume
                BY <3>1, <3>3
            <4>2. fix.resume \in Resumes
                BY <4>1, GateLosesNothing DEF StageInv
            <4>3. FixForms(fix, source, report, decisions)
                BY TransformForms DEF StageInv
            <4>4. Readable(source)
                BY SourceIsReadable DEF StageInv
            <4> HIDE DEF fix
            <4>5. "fields" \in DOMAIN fix.resume /\ fix.resume.fields \in [Field -> Seq(Line)]
                BY <4>2 DEF Resumes
            <4>6. FieldsStand(source.fields, fix.resume.fields)
                BY <4>3 DEF FixForms
            <4>7. \A f \in BulletFields \cup {SummaryField} : fix.resume.fields[f] = source.fields[f]
                BY <4>6, ShapeAssumption DEF FieldsStand
            <4>8. Readable(fix.resume)
                BY <4>4, <4>5, <4>7 DEF Readable
            <4> QED
                BY <4>1, <4>2, <4>8
        <3> QED
            BY <3>2, <3>3
    <2> QED
        BY <2>1, <2>2, <2>3, StepsOfTheStage
<1> QED
    BY <1>1, <1>2 DEF StageInv

\* Every source is a resume, and so is every structure version.
THEOREM SpecStageInv == Spec => []StageInv
<1>1. Init => StageInv
    BY StageAssumption DEF Init, StageInv
<1>2. StageInv /\ [Next]_vars => StageInv'
    BY StageInvSteps
<1> QED
    BY <1>1, <1>2, PTL DEF Spec

\* LedgerIsTrue: in every result of a structure build, a token the ledger calls
\* moved or merged stands in the resume at the path the ledger gives, or belongs to
\* years the ledger says are in the start date and is in the end date or one of the
\* words around them, for every source, policy and set of answers.
THEOREM SpecLedgerIsTrue == Spec => []LedgerIsTrue
<1>1. Init => LedgerIsTrue
    BY DEF Init, LedgerIsTrue
<1>2. ASSUME StageInv, LedgerIsTrue, [Next]_vars
      PROVE  LedgerIsTrue'
    <2>1. CASE Quiet
        BY <1>2, <2>1 DEF LedgerIsTrue, Quiet
    <2>2. CASE BuildRefine
        BY <1>2, <2>2, RefinedByRefine DEF Refined, LedgerIsTrue
    <2>3. CASE BuildStructure
        <3>1. PICK report :
                 LET fix == ApplyShapeTransforms(source, report, decisions)
                 IN  last'.ledger = fix.ledger /\ last'.resume = fix.resume
            BY <1>2, <2>3, BuildForms DEF StageInv
        <3> DEFINE fix == ApplyShapeTransforms(source, report, decisions)
        <3>2. FixForms(fix, source, report, decisions)
            BY <1>2, TransformForms DEF StageInv
        <3>3. last'.ledger = fix.ledger /\ last'.resume = fix.resume
            BY <3>1
        <3> HIDE DEF fix
        <3>4. \A e \in last'.ledger : e.fate \in PlacedFates =>
                  Stands(last'.resume.fields, last'.resume.lists, e)
            BY <3>2, <3>3 DEF FixForms
        <3>5. ASSUME NEW e \in last'.ledger, e.fate \in PlacedFates
              PROVE  LET lines == IF e.target[1] \in Field THEN last'.resume.fields[e.target[1]]
                                  ELSE last'.resume.lists[e.target[1]]
                     IN  /\ e.target[2] \in DOMAIN lines
                         /\ \/ e.token \in LineTokens(lines[e.target[2]])
                            \/ /\ \E f \in DateFields : e.at = <<f, 1>> /\ e.target = <<f, 1>>
                               /\ e.token \in LineTokens(lines[2]) \cup RangeWords
            <4>1. Stands(last'.resume.fields, last'.resume.lists, e)
                BY <3>4, <3>5
            <4>2. OfRange(last'.resume.fields, e) => e.target[1] \in Field
                BY ShapeAssumption DEF OfRange
            <4> QED
                BY <4>1, <4>2 DEF Stands, OfRange
        <3> QED
            BY <3>5 DEF LedgerIsTrue, PlacedFates
    <2> QED
        BY <1>2, <2>1, <2>2, <2>3, StepsOfTheStage
<1> QED
    BY <1>1, <1>2, SpecStageInv, PTL DEF Spec

\* StructureLosesNothing: a token of the source that the structure version does
\* not hold is one of the words a range of years is written with, or is on the
\* version's ledger, for the line it stood on, and the evidence has that line when
\* the ledger says so; later builds and edits keep it so.
THEOREM SpecStructureLosesNothing == Spec => []StructureLosesNothing
<1>1. Init => StructureLosesNothing
    BY DEF Init, StructureLosesNothing
<1>2. ASSUME NEW resume, NEW ledger, NEW of, NEW receipts, NEW more, receipts \subseteq more,
             ~Lost(of, resume, ledger, receipts)
      PROVE  ~Lost(of, resume, ledger, more)
    BY <1>2 DEF Lost
<1>3. StructureLosesNothing <=>
          (structure # NoStructure =>
              ~Lost(structure.of, structure.resume, structure.ledger, Receipts(evidence)))
    BY DEF StructureLosesNothing, Lost, RangeWord
<1>4. StructureLosesNothing' <=>
          (structure' # NoStructure =>
              ~Lost(structure'.of, structure'.resume, structure'.ledger, Receipts(evidence')))
    BY DEF StructureLosesNothing, Lost, RangeWord
<1>5. ASSUME StageInv, StructureLosesNothing, [Next]_vars
      PROVE  StructureLosesNothing'
    <2>1. CASE UNCHANGED <<evidence, structure>>
        BY <1>3, <1>4, <1>5, <2>1
    <2>2. CASE BuildStructure
        <3>1. PICK report :
                 LET fix == ApplyShapeTransforms(source, report, decisions)
                 IN  /\ evidence' = SeedEvidence(evidence, source)
                     /\ last'.ledgerOk = ContentLedgerOk(fix.ledger, Receipts(evidence'))
                     /\ \/ structure' = structure
                        \/ /\ last'.ledgerOk
                           /\ structure'.of = source /\ structure'.ledger = fix.ledger
                           /\ structure'.resume = fix.resume
            BY <1>5, <2>2, BuildForms DEF StageInv
        <3>2. source \in Source
            BY <1>5 DEF StageInv
        <3>3. CASE structure' = structure
            <4>1. Receipts(evidence) \subseteq Receipts(evidence')
                BY <3>1, <3>2, EvidenceGrows
            <4> QED
                BY <1>2, <1>3, <1>4, <1>5, <3>3, <4>1
        <3>4. CASE structure' # structure
            <4> DEFINE fix == ApplyShapeTransforms(source, report, decisions)
            <4>1. /\ ContentLedgerOk(fix.ledger, Receipts(evidence'))
                  /\ structure'.of = source /\ structure'.ledger = fix.ledger
                  /\ structure'.resume = fix.resume
                BY <3>1, <3>4
            <4>2. ~Lost(source, fix.resume, fix.ledger, Receipts(evidence'))
                BY <3>2, <4>1, GateLosesNothing
            <4> HIDE DEF fix
            <4> QED
                BY <1>4, <4>1, <4>2
        <3> QED
            BY <3>3, <3>4
    <2> QED
        BY <1>5, <2>1, <2>2, StepsOfTheStage DEF Quiet
<1> QED
    BY <1>1, <1>5, SpecStageInv, PTL DEF Spec

\* WrittenDefersNothing: when a structure is written, a section the result still
\* calls deferred had nothing but headings and artifacts, or was placed.
THEOREM SpecWrittenDefersNothing == Spec => []WrittenDefersNothing
<1>1. Init => WrittenDefersNothing
    BY DEF Init, WrittenDefersNothing
<1>2. ASSUME StageInv, WrittenDefersNothing, [Next]_vars
      PROVE  WrittenDefersNothing'
    <2>1. CASE Quiet
        BY <1>2, <2>1 DEF WrittenDefersNothing, Quiet
    <2>2. CASE BuildRefine
        BY <1>2, <2>2, RefinedByRefine DEF Refined, WrittenDefersNothing
    <2>3. CASE BuildStructure
        <3>1. PICK report :
                 LET fix == ApplyShapeTransforms(source, report, decisions)
                 IN  /\ last'.ledgerOk = ContentLedgerOk(fix.ledger, Receipts(evidence'))
                     /\ last'.of = source /\ last'.ledger = fix.ledger
                     /\ last'.deferred = fix.deferred
            BY <1>2, <2>3, BuildForms DEF StageInv
        <3> DEFINE fix == ApplyShapeTransforms(source, report, decisions)
        <3>2. source \in Source
            BY <1>2 DEF StageInv
        <3>3. ASSUME ContentLedgerOk(fix.ledger, Receipts(evidence')), NEW s \in ToSet(source.custom),
                     \E f \in fix.deferred : f.family = "custom_mapped" /\ f.section = <<s.name>>,
                     NEW t \in CustomTexts(s)
              PROVE  \/ t.line = <<>> \/ IsArtifact(t.line) \/ IsHeading(t.line, Heading[s.name])
                     \/ Placed(fix.ledger, t)
            BY <3>2, <3>3, GateDefersNothing
        <3>4. /\ last'.ledgerOk = ContentLedgerOk(fix.ledger, Receipts(evidence'))
              /\ last'.of = source /\ last'.ledger = fix.ledger /\ last'.deferred = fix.deferred
            BY <3>1
        <3> HIDE DEF fix
        <3> QED
            BY <3>3, <3>4 DEF WrittenDefersNothing
    <2> QED
        BY <1>2, <2>1, <2>2, <2>3, StepsOfTheStage
<1> QED
    BY <1>1, <1>2, SpecStageInv, PTL DEF Spec

\* RefineReadsTheStructure: what refine reads of a structure version has the
\* tokens the version has, but for those of the years of a role that stayed whole
\* beside the one end that was taken.
THEOREM SpecRefineReadsTheStructure == Spec => []RefineReadsTheStructure
<1>1. StageInv => RefineReadsTheStructure
    BY ProjectedHolds DEF StageInv, RefineReadsTheStructure, ReadsAll
<1> QED
    BY <1>1, SpecStageInv, PTL

\* EditsLandWhereReported: in every refine version that is written, each bullet
\* holds what it held or the one edit the result calls applied there, and the
\* user's answer where there is one, for every report and every set of answers.
THEOREM SpecEditsLandWhereReported == Spec => []EditsLandWhereReported
<1>1. Init => EditsLandWhereReported
    BY DEF Init, EditsLandWhereReported
<1>2. ASSUME StageInv, EditsLandWhereReported, [Next]_vars
      PROVE  EditsLandWhereReported'
    <2>1. CASE Quiet
        BY <1>2, <2>1 DEF EditsLandWhereReported, Quiet
    <2>2. CASE BuildStructure
        BY <1>2, <2>2, BuildForms DEF EditsLandWhereReported, StageInv
    <2>3. CASE BuildRefine
        <3>1. Refined(last')
            BY <1>2, <2>3, RefinedByRefine
        <3> QED
            BY <3>1, RefinedLands DEF EditsLandWhereReported
    <2> QED
        BY <1>2, <2>1, <2>2, <2>3, StepsOfTheStage
<1> QED
    BY <1>1, <1>2, SpecStageInv, PTL DEF Spec

\* SubstanceKept: a resume refined without an answer is written, with every bullet
\* in its place, none of them blank, and every phrase of it but its opener and
\* its buzzwords.
THEOREM SpecSubstanceKept == Spec => []SubstanceKept
<1>1. Init => SubstanceKept
    BY DEF Init, SubstanceKept
<1>2. ASSUME StageInv, SubstanceKept, [Next]_vars
      PROVE  SubstanceKept'
    <2>1. CASE Quiet
        BY <1>2, <2>1 DEF SubstanceKept, Quiet
    <2>2. CASE BuildStructure
        BY <1>2, <2>2, BuildForms DEF SubstanceKept, StageInv
    <2>3. CASE BuildRefine
        <3>1. Refined(last')
            BY <1>2, <2>3, RefinedByRefine
        <3> QED
            BY <3>1, RefinedKeepsSubstance DEF SubstanceKept, KeepsSubstance
    <2> QED
        BY <1>2, <2>1, <2>2, <2>3, StepsOfTheStage
<1> QED
    BY <1>1, <1>2, SpecStageInv, PTL DEF Spec

\* RefineIsFaithful: refine reads the whole structure version, edits it only
\* where its result says, and keeps the substance of what it rewords.
THEOREM SpecRefineIsFaithful == Spec => []RefineIsFaithful
<1>1. RefineReadsTheStructure /\ EditsLandWhereReported /\ SubstanceKept => RefineIsFaithful
    BY DEF RefineIsFaithful
<1> QED
    BY <1>1, SpecRefineReadsTheStructure, SpecEditsLandWhereReported, SpecSubstanceKept, PTL
=============================================================================
