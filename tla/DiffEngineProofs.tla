-------------------------- MODULE DiffEngineProofs --------------------------
(***************************************************************************)
(* What apply_diffs can never change, for every resume, list of changes,   *)
(* freedom level and set of verified skills.                               *)
(***************************************************************************)
EXTENDS DiffEngine, ChangeProofs

\* A change the policy or its action refuses leaves the document alone, and one
\* that is applied touches the field it names only.
LEMMA ApplyChangeEditsOneField ==
    ASSUME NEW before, NEW c, NEW level, NEW skills
    PROVE  LET after == ApplyChange(before, c, level, skills).doc
           IN  \/ after = before
               \/ /\ PolicyReason(c.path, level) = "allowed"
                  /\ c.path.field \in DOMAIN before
                  /\ DOMAIN after = DOMAIN before
                  /\ \A f \in DOMAIN before : f # c.path.field => after[f] = before[f]
<1> DEFINE after == ApplyChange(before, c, level, skills).doc
           EditsField(d) == /\ DOMAIN d = DOMAIN before
                            /\ \A f \in DOMAIN before : f # c.path.field => d[f] = before[f]
<1>1. CASE PolicyReason(c.path, level) # "allowed" \/ ~Resolves(before, c.path)
    BY <1>1 DEF ApplyChange, Rejected
<1>2. CASE PolicyReason(c.path, level) = "allowed" /\ Resolves(before, c.path)
    <2>1. \A v : EditsField(SetAt(before, c.path, v))
        BY DEF SetAt
    <2> HIDE DEF EditsField
    <2>2. Replace(before, c).doc = before \/ EditsField(Replace(before, c).doc)
        BY <2>1 DEF Replace, Applied, Rejected
    <2>3. AppendItem(before, c).doc = before \/ EditsField(AppendItem(before, c).doc)
        BY <2>1 DEF AppendItem, Applied, Rejected
    <2>4. Reorder(before, c, skills).doc = before \/ EditsField(Reorder(before, c, skills).doc)
        BY <2>1 DEF Reorder, Applied, Rejected
    <2>5. RemoveItems(before, c).doc = before \/ EditsField(RemoveItems(before, c).doc)
        BY <2>1 DEF RemoveItems, Applied, Rejected
    <2>6. AddSkill(before, c, skills).doc = before \/ EditsField(AddSkill(before, c, skills).doc)
        BY <2>1 DEF AddSkill, Applied, Rejected
    <2>7. after = before \/ EditsField(after)
        BY <1>2, <2>2, <2>3, <2>4, <2>5, <2>6 DEF ApplyChange, Rejected
    <2> QED
        BY <1>2, <2>7 DEF EditsField, Resolves
<1> QED
    BY <1>1, <1>2

\* An allowed path is of a class some level unlocks, and the level unlocks it.
LEMMA AllowedIsUnlocked ==
    ASSUME NEW path, NEW level, PolicyReason(path, level) = "allowed",
           FieldClass[path.field] \in Class
    PROVE  /\ FieldClass[path.field] \notin {"protected", "unlisted"}
           /\ FieldClass[path.field] \in DOMAIN UnlockLevel
           /\ ~(UnlockLevel[FieldClass[path.field]] > ClampFreedom(level))
<1>1. /\ ~IsPathBlocked(path)
      /\ IsPathAllowed(path)
      /\ ~(UnlockLevel[ClassOf(path)] > ClampFreedom(level))
    BY DEF PolicyReason
<1>2. FieldClass[path.field] \in {"skills", "lists", "experience", "summary", "education"}
    BY <1>1 DEF IsPathAllowed, ClassOf
<1> QED
    BY <1>1, <1>2 DEF ClassOf, UnlockLevel

-----------------------------------------------------------------------------
(* The two facts are kept together: a field that is edited now was unlocked  *)
(* now, and the ones edited before were unlocked by the same level.          *)

Inv ==
    /\ DOMAIN original \subseteq Field
    /\ freedom \in Int
    /\ FactsFrozen
    /\ FreedomRespected

LEMMA InitInv == Init => Inv
BY EngineAssumption DEF Init, Inv, FactsFrozen, FreedomRespected

LEMMA NextInv == Inv /\ [Next]_vars => Inv'
<1> SUFFICES ASSUME Inv, [Next]_vars
             PROVE  Inv'
    OBVIOUS
<1>1. CASE UNCHANGED vars
    BY <1>1 DEF Inv, vars, FactsFrozen, FreedomRespected
<1>2. CASE ApplyNext
    <2> DEFINE c == Head(todo)
    <2>1. /\ doc' = ApplyChange(doc, c, freedom, allowed).doc
          /\ UNCHANGED <<original, freedom>>
        BY <1>2 DEF ApplyNext
    <2>2. CASE doc' = doc
        BY <2>1, <2>2 DEF Inv, FactsFrozen, FreedomRespected
    <2>3. CASE /\ PolicyReason(c.path, freedom) = "allowed"
               /\ c.path.field \in DOMAIN doc
               /\ DOMAIN doc' = DOMAIN doc
               /\ \A f \in DOMAIN doc : f # c.path.field => doc'[f] = doc[f]
        <3> DEFINE class == FieldClass[c.path.field]
        <3>1. class \in Class
            BY <2>3, FieldAssumption DEF Inv, FactsFrozen
        <3>2. /\ class \notin {"protected", "unlisted"}
              /\ class \in DOMAIN UnlockLevel
              /\ ~(UnlockLevel[class] > ClampFreedom(freedom))
            BY <2>3, <3>1, AllowedIsUnlocked
        <3>3. UnlockLevel[class] <= ClampFreedom(freedom)
            <4>1. UnlockLevel[class] \in Int
                BY <3>2 DEF UnlockLevel
            <4>2. ClampFreedom(freedom) \in Int
                BY DEF Inv, ClampFreedom, FreedomMin, FreedomMax
            <4> QED
                BY <3>2, <4>1, <4>2
        <3>4. FactsFrozen'
            BY <2>1, <2>3, <3>2 DEF Inv, FactsFrozen
        <3>5. FreedomRespected'
            BY <2>1, <2>3, <3>2, <3>3 DEF Inv, FactsFrozen, FreedomRespected
        <3> QED
            BY <2>1, <3>4, <3>5 DEF Inv
    <2> QED
        BY <2>1, <2>2, <2>3, ApplyChangeEditsOneField
<1> QED
    BY <1>1, <1>2 DEF Next

LEMMA SpecInv == Spec => []Inv
BY InitInv, NextInv, PTL DEF Spec

\* No list of changes, at any freedom level, moves a protected or unlisted field or
\* drops a field of the resume.
THEOREM SpecFactsFrozen == Spec => []FactsFrozen
<1>1. Inv => FactsFrozen
    BY DEF Inv
<1> QED
    BY <1>1, SpecInv, PTL

\* No list of changes edits a field the freedom level of the call does not unlock.
THEOREM SpecFreedomRespected == Spec => []FreedomRespected
<1>1. Inv => FreedomRespected
    BY DEF Inv
<1> QED
    BY <1>1, SpecInv, PTL

\* What a list of changes may touch, facts and levels together (evaluate_change_policy).
THEOREM SpecPolicyRespected == Spec => []PolicyRespected
    BY SpecFactsFrozen, SpecFreedomRespected, PTL DEF PolicyRespected

-----------------------------------------------------------------------------
(* Lists.  Every verdict takes out of a list at most what it is counted for, *)
(* so the count of each key never falls below what came in less what was     *)
(* taken out; and a skill enters a list only verified or appended.           *)

\* What is known of a change that was looked at.
Verdict ==
    {v \in [change : Change, reason : Reason] :
        v.reason = "allowed" /\ v.change.action = "remove" => IsList(v.change.value)}

LEMMA OccurrencesAreCounted ==
    ASSUME NEW s \in Seq(Seq(Word)), NEW key
    PROVE  Occurrences(s, key) = HowMany(s, Spelt(key)) /\ Occurrences(s, key) \in Nat
<1>1. {i \in DOMAIN s : Fold(s[i]) = key} = {i \in DOMAIN s : s[i] \in Spelt(key)}
    BY DEF Spelt
<1>2. HowMany(s, Spelt(key)) \in Nat
    BY HowManyType
<1> QED
    BY <1>1, <1>2 DEF Occurrences, HowMany

LEMMA TakenType ==
    ASSUME NEW v \in Verdict, NEW f, NEW key
    PROVE  /\ Taken(v, f, key) \in Nat
           /\ v.reason = "allowed" /\ v.change.path.field = f =>
                Taken(v, f, key) = Takes(v.change, key)
<1>1. v.change \in Change /\ v.change.value \in Value
    BY DEF Verdict, Change
<1>2. CASE v.reason = "allowed" /\ v.change.action = "remove"
    <2>1. v.change.value.items \in Seq(Seq(Word))
        BY <1>1, <1>2, ValueForms DEF Verdict
    <2>2. /\ Occurrences(v.change.value.items, key) = HowMany(v.change.value.items, Spelt(key))
          /\ Occurrences(v.change.value.items, key) \in Nat
        BY <2>1, OccurrencesAreCounted
    <2> QED
        BY <1>2, <2>2 DEF Taken, Takes
<1>3. CASE ~(v.reason = "allowed" /\ v.change.action = "remove")
    BY <1>3 DEF Taken, Takes
<1> QED
    BY <1>2, <1>3

\* h adds up what the first n verdicts took out.
TakingRun(h, seen, f, key, n) ==
    /\ h[0] = 0
    /\ \A i \in 1 .. n : h[i] = h[i - 1] + Taken(seen[i], f, key)

LEMMA TakenOutRuns ==
    ASSUME NEW seen \in Seq(Verdict), NEW f, NEW key
    PROVE  \E h : /\ TakingRun(h, seen, f, key, Len(seen))
                  /\ \A i \in 0 .. Len(seen) : h[i] \in Nat
                  /\ TakenOut(seen, f, key) = h[Len(seen)]
<1> DEFINE n == Len(seen)
           Add(m, v) == m + Taken(v, f, key)
           F == [p \in Nat \X (1 .. n) |-> Add(p[1], seen[p[2]])]
           Folds(g) == g = [S \in SUBSET DOMAIN seen |->
                            IF S = {} THEN 0 ELSE Add(g[S \ {Max(S)}], seen[Max(S)])]
           C == CHOOSE g : Folds(g)
           h == [i \in 0 .. n |-> C[1 .. i]]
<1>1. n \in Nat /\ DOMAIN seen = 1 .. n /\ \A i \in 1 .. n : seen[i] \in Verdict
    OBVIOUS
<1> HIDE DEF n
<1>2. \A i \in 1 .. n : Taken(seen[i], f, key) \in Nat
    BY <1>1, TakenType
<1>3. \A m \in Nat, i \in 1 .. n : Add(m, seen[i]) \in Nat
    BY <1>2
<1> HIDE DEF Add
<1>4. PICK g : RecursesOver(g, n, Nat, 0, F)
    <2>1. F \in [Nat \X (1 .. n) -> Nat]
        BY <1>3
    <2> HIDE DEF F
    <2> QED
        BY <1>1, <2>1, FoldRecursion
<1>5. Folds(g)
    <2>1. \A S \in SUBSET (1 .. n) :
              g[S] = IF S = {} THEN 0 ELSE Add(g[S \ {Max(S)}], seen[Max(S)])
        <3> TAKE S \in SUBSET (1 .. n)
        <3>1. CASE S = {}
            BY <1>4, <3>1 DEF RecursesOver
        <3>2. CASE S # {}
            <4>1. Max(S) \in 1 .. n
                BY <1>1, <3>2, MaxOfIndexes
            <4>2. g[S \ {Max(S)}] \in Nat /\ g[S] = F[<<g[S \ {Max(S)}], Max(S)>>]
                <5> HIDE DEF F
                <5> QED
                    BY <1>4, <3>2 DEF RecursesOver
            <4> QED
                BY <3>2, <4>1, <4>2
        <3> QED
            BY <3>1, <3>2
    <2>2. g = [S \in SUBSET (1 .. n) |-> g[S]]
        <3> HIDE DEF F
        <3> QED
            BY <1>4 DEF RecursesOver
    <2> QED
        BY <1>1, <2>1, <2>2
<1>6. Folds(C)
    <2> HIDE DEF Folds
    <2> QED
        BY <1>5
<1>7. h[0] = 0 /\ \A i \in 1 .. n : h[i] = Add(h[i - 1], seen[i])
    <2> HIDE DEF C
    <2>1. 1 .. 0 = {} /\ 0 \in 0 .. n
        BY <1>1
    <2>2. \A i \in 1 .. n : C[1 .. i] = Add(C[1 .. (i - 1)], seen[i])
        <3> TAKE i \in 1 .. n
        <3>1. /\ 1 .. i \in SUBSET DOMAIN seen
              /\ 1 .. i # {}
              /\ Max(1 .. i) = i
              /\ (1 .. i) \ {Max(1 .. i)} = 1 .. (i - 1)
            BY <1>1, UpTo
        <3> QED
            BY <1>6, <3>1
    <2>3. \A i \in 1 .. n : i \in 0 .. n /\ i - 1 \in 0 .. n
        BY <1>1
    <2> QED
        BY <1>1, <1>6, <2>1, <2>2, <2>3
<1>8. TakenOut(seen, f, key) = h[n]
    <2>1. TakenOut(seen, f, key) = C[DOMAIN seen]
        BY DEF TakenOut, FoldLeft, MapThenFoldSet, Add
    <2>2. n \in 0 .. n
        BY <1>1
    <2> HIDE DEF C
    <2> QED
        BY <1>1, <2>1, <2>2
<1> HIDE DEF h
<1>9. \A i \in 0 .. n : h[i] \in Nat
    <2>1. h[0] \in Nat /\ \A i \in 1 .. n : h[i - 1] \in Nat => h[i] \in Nat
        BY <1>3, <1>7
    <2> QED
        BY <1>1, <2>1, RunStays
<1> QED
    BY <1>7, <1>8, <1>9 DEF TakingRun, Add, n

\* One more verdict adds what it took out.
LEMMA TakenOutAppend ==
    ASSUME NEW seen \in Seq(Verdict), NEW v \in Verdict, NEW f, NEW key
    PROVE  /\ TakenOut(seen, f, key) \in Nat
           /\ TakenOut(Append(seen, v), f, key) = TakenOut(seen, f, key) + Taken(v, f, key)
<1> DEFINE longer == Append(seen, v)
           n == Len(seen)
<1>1. /\ n \in Nat
      /\ longer \in Seq(Verdict)
      /\ Len(longer) = n + 1
      /\ \A i \in 1 .. n : longer[i] = seen[i]
      /\ longer[n + 1] = v
    OBVIOUS
<1>2. PICK g : /\ TakingRun(g, seen, f, key, n)
               /\ \A i \in 0 .. n : g[i] \in Nat
               /\ TakenOut(seen, f, key) = g[n]
    BY TakenOutRuns
<1> HIDE DEF longer, n
<1>3. PICK h : /\ TakingRun(h, longer, f, key, n + 1)
               /\ TakenOut(longer, f, key) = h[n + 1]
    BY <1>1, TakenOutRuns
<1>4. g[0] = h[0] /\ \A i \in 1 .. n : g[i - 1] = h[i - 1] => g[i] = h[i]
    BY <1>1, <1>2, <1>3 DEF TakingRun
<1>5. g[n] = h[n]
    BY <1>1, <1>4, RunsAgree
<1>6. h[n + 1] = h[n] + Taken(v, f, key)
    <2>1. n + 1 \in 1 .. (n + 1) /\ (n + 1) - 1 = n
        BY <1>1
    <2> QED
        BY <1>1, <1>3, <2>1 DEF TakingRun
<1>7. n \in 0 .. n
    BY <1>1
<1> QED
    BY <1>2, <1>3, <1>5, <1>6, <1>7 DEF longer

LEMMA TakenOutOfNothing ==
    ASSUME NEW f, NEW key
    PROVE  TakenOut(<<>>, f, key) = 0
<1>1. <<>> \in Seq(Verdict) /\ Len(<<>>) = 0
    OBVIOUS
<1>2. PICK h : TakingRun(h, <<>>, f, key, 0) /\ TakenOut(<<>>, f, key) = h[0]
    BY <1>1, TakenOutRuns
<1> QED
    BY <1>2 DEF TakingRun

TypeInv ==
    /\ original \in [DOMAIN original -> Value]
    /\ doc \in [DOMAIN original -> Value]
    /\ todo \in Seq(Change)
    /\ verdicts \in Seq(Verdict)
    /\ freedom \in Int

\* No item of field f is missing but those the verdicts are counted for.
KeepsItems(f) ==
    IsList(original[f]) /\ ~WholeListReplaced(f) =>
        /\ IsList(doc[f])
        /\ \A key : HowMany(doc[f].items, Spelt(key)) + TakenOut(verdicts, f, key)
                        >= HowMany(original[f].items, Spelt(key))

\* Every item of a skills field came with it, is verified or was appended.
KnownSkills(f) ==
    FieldClass[f] = "skills" /\ IsList(doc[f]) /\ IsList(original[f]) =>
        \A w \in ToSet(doc[f].items) :
            \/ w \in ToSet(original[f].items)
            \/ Fold(w) \in allowed
            \/ \E j \in AppliedChanges :
                  /\ verdicts[j].change.action = "append"
                  /\ verdicts[j].change.path.field = f
                  /\ verdicts[j].change.value.words = w

ListInv ==
    /\ TypeInv
    /\ \A f \in DOMAIN original : KeepsItems(f) /\ KnownSkills(f)

LEMMA ListInit == Init => ListInv
<1> SUFFICES ASSUME Init PROVE ListInv
    OBVIOUS
<1>1. original \in [DOMAIN original -> Value] /\ doc = original /\ verdicts = <<>>
    BY EngineAssumption DEF Init
<1>2. todo \in Seq(Change)
    <2>1. PICK n \in 0 .. MaxChanges : \E changes \in [1 .. n -> Changes] :
                todo = ExpandAll(changes)
        BY DEF Init
    <2>2. PICK changes \in [1 .. n -> Changes] : todo = ExpandAll(changes)
        BY <2>1
    <2>3. n \in Nat /\ changes \in [1 .. n -> Change]
        BY EngineAssumption
    <2>4. changes \in Seq(Change)
        BY <2>3
    <2> QED
        BY <2>2, <2>4, ExpandAllProposes
<1>3. freedom \in Int
    BY EngineAssumption DEF Init
<1>4. TypeInv
    BY <1>1, <1>2, <1>3 DEF TypeInv
<1>5. ASSUME NEW f \in DOMAIN original
      PROVE  KeepsItems(f)
    <2> SUFFICES ASSUME IsList(original[f])
                 PROVE  \A key : HowMany(doc[f].items, Spelt(key)) + TakenOut(verdicts, f, key)
                                    >= HowMany(original[f].items, Spelt(key))
        BY <1>1 DEF KeepsItems
    <2> TAKE key
    <2>1. original[f].items \in Seq(Seq(Word))
        BY <1>1, ValueForms
    <2>2. HowMany(original[f].items, Spelt(key)) \in Nat
        BY <2>1, HowManyType
    <2>3. TakenOut(verdicts, f, key) = 0
        BY <1>1, TakenOutOfNothing
    <2> QED
        BY <1>1, <2>2, <2>3
<1>6. \A f \in DOMAIN original : KnownSkills(f)
    BY <1>1 DEF KnownSkills
<1> QED
    BY <1>4, <1>5, <1>6 DEF ListInv

LEMMA ListNext == Inv /\ ListInv /\ [Next]_vars => ListInv'
<1> SUFFICES ASSUME Inv, ListInv, [Next]_vars
             PROVE  ListInv'
    OBVIOUS
<1>1. CASE UNCHANGED vars
    <2>1. TypeInv'
        BY <1>1 DEF ListInv, TypeInv, vars
    <2>2. ASSUME NEW f \in DOMAIN original
          PROVE  KeepsItems(f)' /\ KnownSkills(f)'
        BY <1>1 DEF ListInv, vars, KeepsItems, KnownSkills, WholeListReplaced, AppliedChanges
    <2>3. original' = original
        BY <1>1 DEF vars
    <2> QED
        BY <2>1, <2>2, <2>3 DEF ListInv
<1>2. CASE ApplyNext
    <2> DEFINE D == DOMAIN original
               c == Head(todo)
               r == ApplyChange(doc, c, freedom, allowed)
               v == [change |-> c, reason |-> r.reason]
    <2>1. /\ doc' = r.doc /\ verdicts' = Append(verdicts, v) /\ todo' = Tail(todo)
          /\ UNCHANGED <<original, freedom, allowed>>
          /\ todo # <<>>
        BY <1>2 DEF ApplyNext
    <2>2. doc \in [D -> Value] /\ verdicts \in Seq(Verdict) /\ freedom \in Int
        BY DEF ListInv, TypeInv
    <2>3. c \in Change /\ todo' \in Seq(Change)
        <3>1. todo \in Seq(Change)
            BY DEF ListInv, TypeInv
        <3> QED
            BY <2>1, <3>1
    <2> HIDE DEF c
    <2>4. ChangeOutcome(doc, c, freedom, allowed, r)
        BY <2>2, <2>3, ApplyChangeEdits
    <2> HIDE DEF r
    <2>5. v \in Verdict
        BY <2>3, <2>4 DEF ChangeOutcome, Verdict, Edits, Reason
    <2>6. /\ verdicts' \in Seq(Verdict)
          /\ Len(verdicts) \in Nat /\ DOMAIN verdicts = 1 .. Len(verdicts)
          /\ DOMAIN verdicts' = DOMAIN verdicts \cup {Len(verdicts) + 1}
          /\ \A i \in DOMAIN verdicts : verdicts'[i] = verdicts[i]
          /\ verdicts'[Len(verdicts) + 1] = v
        <3> HIDE DEF v
        <3> QED
            BY <2>1, <2>2, <2>5
    <2>7. AppliedChanges' = AppliedChanges \cup (IF r.reason = "allowed" THEN {Len(verdicts) + 1} ELSE {})
        BY <2>6 DEF AppliedChanges
    <2>8. doc' \in [D -> Value]
        BY <2>1, <2>2, <2>4 DEF ChangeOutcome, Edits
    <2>9. TypeInv'
        BY <2>1, <2>2, <2>3, <2>6, <2>8 DEF ListInv, TypeInv
    <2>10. ASSUME NEW f \in D
           PROVE  \A key :
                    /\ TakenOut(verdicts, f, key) \in Nat
                    /\ Taken(v, f, key) \in Nat
                    /\ TakenOut(verdicts', f, key) = TakenOut(verdicts, f, key) + Taken(v, f, key)
        <3> HIDE DEF v
        <3> QED
            BY <2>1, <2>2, <2>5, TakenOutAppend, TakenType
    <2>11. ASSUME NEW f \in D
           PROVE  /\ WholeListReplaced(f) => WholeListReplaced(f)'
                  /\ r.reason = "allowed" /\ c.action = "replace" /\ c.path = [field |-> f, index |-> 0]
                        => WholeListReplaced(f)'
        <3>1. \A i \in AppliedChanges : i \in AppliedChanges' /\ verdicts'[i] = verdicts[i]
            BY <2>6, <2>7 DEF AppliedChanges
        <3>2. r.reason = "allowed" => /\ Len(verdicts) + 1 \in AppliedChanges'
                                      /\ verdicts'[Len(verdicts) + 1].change = c
            BY <2>6, <2>7
        <3> QED
            BY <3>1, <3>2 DEF WholeListReplaced
    <2> HIDE DEF v
    <2>12. ASSUME NEW f \in D, doc'[f] = doc[f]
           PROVE  KeepsItems(f)' /\ KnownSkills(f)'
        <3>1. KeepsItems(f) /\ KnownSkills(f)
            BY DEF ListInv
        <3>2. KnownSkills(f)'
            <4>1. \A i \in AppliedChanges : i \in AppliedChanges' /\ verdicts'[i] = verdicts[i]
                BY <2>6, <2>7 DEF AppliedChanges
            <4> SUFFICES ASSUME FieldClass[f] = "skills", IsList(doc[f]), IsList(original[f]),
                                NEW w \in ToSet(doc[f].items)
                         PROVE  \/ w \in ToSet(original[f].items)
                                \/ Fold(w) \in allowed
                                \/ \E j \in AppliedChanges' :
                                      /\ verdicts'[j].change.action = "append"
                                      /\ verdicts'[j].change.path.field = f
                                      /\ verdicts'[j].change.value.words = w
                BY <2>1, <2>12 DEF KnownSkills
            <4> QED
                BY <3>1, <4>1 DEF KnownSkills
        <3>3. KeepsItems(f)'
            <4> SUFFICES ASSUME IsList(original[f]), ~WholeListReplaced(f)'
                         PROVE  /\ IsList(doc[f])
                                /\ \A key : HowMany(doc[f].items, Spelt(key)) + TakenOut(verdicts', f, key)
                                                >= HowMany(original[f].items, Spelt(key))
                BY <2>1, <2>12 DEF KeepsItems
            <4>1. /\ IsList(doc[f])
                  /\ \A key : HowMany(doc[f].items, Spelt(key)) + TakenOut(verdicts, f, key)
                                  >= HowMany(original[f].items, Spelt(key))
                BY <2>11, <3>1 DEF KeepsItems
            <4>2. doc[f].items \in Seq(Seq(Word)) /\ original[f].items \in Seq(Seq(Word))
                BY <2>2, <4>1, ValueForms DEF ListInv, TypeInv
            <4>3. \A key : /\ HowMany(doc[f].items, Spelt(key)) \in Nat
                          /\ HowMany(original[f].items, Spelt(key)) \in Nat
                BY <4>2, HowManyType
            <4> QED
                BY <2>10, <4>1, <4>3
        <3> QED
            BY <3>2, <3>3
    <2>13. ASSUME NEW f \in D, r.reason = "allowed", c.path.field = f,
                  Edits(c, allowed, doc[f], doc'[f]), PolicyReason(c.path, freedom) = "allowed"
           PROVE  KeepsItems(f)' /\ KnownSkills(f)'
        <3>1. KeepsItems(f) /\ KnownSkills(f)
            BY DEF ListInv
        <3>2. v.reason = "allowed" /\ v.change = c
            BY <2>13 DEF v
        <3>3. \A key : Taken(v, f, key) = Takes(c, key)
            BY <2>5, <2>13, <3>2, TakenType
        <3>4. KeepsItems(f)'
            <4> SUFFICES ASSUME IsList(original[f]), ~WholeListReplaced(f)'
                         PROVE  /\ IsList(doc'[f])
                                /\ \A key : HowMany(doc'[f].items, Spelt(key)) + TakenOut(verdicts', f, key)
                                                >= HowMany(original[f].items, Spelt(key))
                BY <2>1 DEF KeepsItems
            <4>1. /\ IsList(doc[f])
                  /\ \A key : HowMany(doc[f].items, Spelt(key)) + TakenOut(verdicts, f, key)
                                  >= HowMany(original[f].items, Spelt(key))
                BY <2>11, <3>1 DEF KeepsItems
            <4>2. ~(c.action = "replace" /\ c.path.index = 0)
                <5>1. c.path \in [field : Field, index : Nat]
                    BY <2>3 DEF Change
                <5>2. c.path.index = 0 => c.path = [field |-> f, index |-> 0]
                    BY <2>13, <5>1
                <5> QED
                    BY <2>11, <2>13, <5>2
            <4>3. /\ IsList(doc'[f])
                  /\ \A key : HowMany(doc'[f].items, Spelt(key)) + Takes(c, key)
                                  >= HowMany(doc[f].items, Spelt(key))
                BY <2>13, <4>1, <4>2 DEF Edits
            <4>4. /\ doc[f].items \in Seq(Seq(Word))
                  /\ doc'[f].items \in Seq(Seq(Word))
                  /\ original[f].items \in Seq(Seq(Word))
                BY <2>2, <2>8, <4>1, <4>3, ValueForms DEF ListInv, TypeInv
            <4>5. \A key : /\ HowMany(doc[f].items, Spelt(key)) \in Nat
                          /\ HowMany(doc'[f].items, Spelt(key)) \in Nat
                          /\ HowMany(original[f].items, Spelt(key)) \in Nat
                BY <4>4, HowManyType
            <4> QED
                BY <2>10, <3>3, <4>1, <4>3, <4>5
        <3>5. KnownSkills(f)'
            <4> SUFFICES ASSUME FieldClass[f] = "skills", IsList(doc'[f]), IsList(original[f]),
                                NEW w \in ToSet(doc'[f].items)
                         PROVE  \/ w \in ToSet(original[f].items)
                                \/ Fold(w) \in allowed
                                \/ \E j \in AppliedChanges' :
                                      /\ verdicts'[j].change.action = "append"
                                      /\ verdicts'[j].change.path.field = f
                                      /\ verdicts'[j].change.value.words = w
                BY <2>1 DEF KnownSkills
            <4>1. ClassOf(c.path) = "skills" /\ c.path.index = 0
                BY <2>13 DEF ClassOf, PolicyReason, IsPathAllowed
            <4>2. \/ w \in ToSet(doc[f].items)
                  \/ Fold(w) \in allowed
                  \/ c.action = "append" /\ c.value.words = w
                BY <2>13, <4>1 DEF Edits
            <4>3. IsList(doc[f])
                BY <2>13 DEF Edits
            <4>4. \A i \in AppliedChanges : i \in AppliedChanges' /\ verdicts'[i] = verdicts[i]
                BY <2>6, <2>7 DEF AppliedChanges
            <4>5. Len(verdicts) + 1 \in AppliedChanges' /\ verdicts'[Len(verdicts) + 1].change = c
                BY <2>6, <2>7, <2>13, <3>2
            <4> QED
                BY <2>13, <3>1, <4>2, <4>3, <4>4, <4>5 DEF KnownSkills
        <3> QED
            BY <3>4, <3>5
    <2>14. ASSUME NEW f \in D
           PROVE  KeepsItems(f)' /\ KnownSkills(f)'
        <3>1. CASE doc'[f] = doc[f]
            BY <2>12, <3>1
        <3>2. CASE doc'[f] # doc[f]
            <4>1. /\ r.reason = "allowed" /\ c.path.field = f
                  /\ Edits(c, allowed, doc[f], doc'[f])
                  /\ PolicyReason(c.path, freedom) = "allowed"
                BY <2>1, <2>2, <2>4, <3>2 DEF ChangeOutcome
            <4> QED
                BY <2>13, <4>1
        <3> QED
            BY <3>1, <3>2
    <2> QED
        BY <2>1, <2>9, <2>14 DEF ListInv
<1> QED
    BY <1>1, <1>2 DEF Next

LEMMA SpecListInv == Spec => [](Inv /\ ListInv)
<1>1. Init => Inv /\ ListInv
    BY InitInv, ListInit
<1>2. (Inv /\ ListInv) /\ [Next]_vars => (Inv /\ ListInv)'
    BY NextInv, ListNext
<1> QED
    BY <1>1, <1>2, PTL DEF Spec

\* Whatever list of changes is applied, in whatever order and at whatever level, no
\* list item disappears that no applied change names, duplicates included (the salvage
\* of _apply_reorder), and no skill enters that is neither verified nor appended.
THEOREM SpecListsKeepTheirItems == Spec => []ListsKeepTheirItems
<1>1. Inv /\ ListInv => ListsKeepTheirItems
    <2> SUFFICES ASSUME Inv, ListInv PROVE NothingSilentlyLost /\ NewSkillsVerified
        BY DEF ListsKeepTheirItems
    <2>1. original \in [DOMAIN original -> Value] /\ doc \in [DOMAIN original -> Value]
        BY DEF ListInv, TypeInv
    <2>2. NothingSilentlyLost
        <3> SUFFICES ASSUME NEW f \in DOMAIN original, IsList(original[f]), ~WholeListReplaced(f),
                            NEW key
                     PROVE  Occurrences(doc[f].items, key) + TakenOut(verdicts, f, key)
                                >= Occurrences(original[f].items, key)
            BY DEF NothingSilentlyLost
        <3>1. /\ IsList(doc[f])
              /\ HowMany(doc[f].items, Spelt(key)) + TakenOut(verdicts, f, key)
                     >= HowMany(original[f].items, Spelt(key))
            BY DEF ListInv, KeepsItems
        <3>2. doc[f].items \in Seq(Seq(Word)) /\ original[f].items \in Seq(Seq(Word))
            BY <2>1, <3>1, ValueForms
        <3> QED
            BY <3>1, <3>2, OccurrencesAreCounted
    <2>3. NewSkillsVerified
        <3> SUFFICES ASSUME NEW f \in DOMAIN doc, FieldClass[f] = "skills",
                            IsList(doc[f]), IsList(original[f]), NEW i \in DOMAIN doc[f].items
                     PROVE  \/ Fold(doc[f].items[i]) \in allowed
                            \/ Occurrences(original[f].items, Fold(doc[f].items[i])) > 0
                            \/ \E j \in AppliedChanges :
                                  /\ verdicts[j].change.action = "append"
                                  /\ verdicts[j].change.path.field = f
                                  /\ verdicts[j].change.value.words = doc[f].items[i]
            BY DEF NewSkillsVerified
        <3> DEFINE w == doc[f].items[i]
        <3>1. f \in DOMAIN original /\ w \in ToSet(doc[f].items)
            BY <2>1 DEF ToSet
        <3>2. CASE w \in ToSet(original[f].items)
            <4>1. original[f].items \in Seq(Seq(Word))
                BY <2>1, <3>1, ValueForms
            <4>2. PICK k \in DOMAIN original[f].items : original[f].items[k] = w
                BY <3>2 DEF ToSet
            <4>3. w \in Spelt(Fold(w))
                BY <4>1, <4>2 DEF Spelt
            <4>4. HowMany(original[f].items, Spelt(Fold(w))) # 0
                BY <4>1, <4>2, <4>3, HowManyType
            <4>5. Occurrences(original[f].items, Fold(w)) # 0 /\ Occurrences(original[f].items, Fold(w)) \in Nat
                BY <4>1, <4>4, OccurrencesAreCounted
            <4> QED
                BY <4>5
        <3>3. CASE w \notin ToSet(original[f].items)
            BY <3>1, <3>3 DEF ListInv, KnownSkills
        <3> QED
            BY <3>2, <3>3
    <2> QED
        BY <2>2, <2>3
<1> QED
    BY <1>1, SpecListInv, PTL

\* More freedom only lets more changes through: a list of changes none of which is
\* refused at one level gives the same resume at every higher one.
THEOREM SpecFreedomMonotone == Spec => []FreedomMonotone
<1>1. Inv /\ ListInv => FreedomMonotone
    <2> SUFFICES ASSUME ListInv, NEW g \in Freedoms, g >= freedom,
                        ApplyDiffs(original, todo, freedom, allowed).rejected = <<>>
                 PROVE  ApplyDiffs(original, todo, g, allowed)
                            = ApplyDiffs(original, todo, freedom, allowed)
        BY DEF FreedomMonotone
    <2>1. /\ original \in [DOMAIN original -> Value]
          /\ todo \in Seq(Change)
          /\ freedom \in Int /\ g \in Int /\ freedom <= g
        BY EngineAssumption DEF ListInv, TypeInv
    <2> QED
        BY <2>1, HigherLevelsAgree
<1> QED
    BY <1>1, SpecListInv, PTL
=============================================================================
