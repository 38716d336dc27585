-------------------------- MODULE AlignResumeProofs --------------------------
(***************************************************************************)
(* The alignment pipeline, for every resume, job, evidence, set of options *)
(* and provider answers.                                                   *)
(*                                                                         *)
(* Asking. The claims found failing stay the failing claims of the         *)
(* document the pipeline holds, from the validation on to the result, so   *)
(* what applies changes again has to validate again. What answers          *)
(* UngroundedIsAsked is the first applied change, which opens the first    *)
(* section.                                                                *)
(*                                                                         *)
(* Accounting. Each iteration of apply_diffs moves one change to the       *)
(* applied or to the rejected ones. The applied changes of a pass stand    *)
(* alone: applied again to the original all of them are allowed, so a      *)
(* result replays, and so does one made anew from the changes that are not *)
(* stripped.                                                               *)
(*                                                                         *)
(* Swaps. A terminology change is one step of the engine on one field.     *)
(*                                                                         *)
(* Planning. Every accepted skill was judged against the job, the resume   *)
(* or the evidence, and a list of skills is mentioned in the text around   *)
(* it.                                                                     *)
(*                                                                         *)
(* The guard. Fixing takes away the keys of all critical violations and    *)
(* brings none. The evidence derived from a resume refutes nothing and     *)
(* has, for each claim, a record with all its tokens. Deduplication may    *)
(* keep a record without the tags of the one it drops, so an exact match   *)
(* cannot be counted on; the tokens are enough for partial support.        *)
(***************************************************************************)
EXTENDS AlignResume, ChangeProofs

\* What the truth validator found is true of the document at hand.
FailingIsCurrent ==
    stage \in {"resolve", "review", "done"} /\ RunTruth => failing = FailingClaims(passed.doc)

\* With a failing claim left, a review is forced.
FailingForcesReview ==
    stage \in {"review", "done"} /\ RunTruth /\ failing # {} => forced

\* The review is over the applied changes, resolved only if nobody is to be asked.
ReviewOfApplied ==
    stage = "done" =>
        review = IF call.human \/ forced THEN Initialize(passed.applied)
                 ELSE ResolveWithoutHuman(Initialize(passed.applied))

Inv == FailingIsCurrent /\ FailingForcesReview /\ ReviewOfApplied

\* A review that is just opened asks about its first change.
LEMMA OpenReviewAsks ==
    ASSUME NEW changes, 1 \in DOMAIN changes
    PROVE  1 \in Unresolved(Initialize(changes), TRUE)
<1>1. changes # <<>>
    OBVIOUS
<1>2. Initialize(changes).cursor = SectionOf(changes[1])
    BY <1>1 DEF Initialize, InitialCursor, FirstSection, KeySection
<1>3. Initialize(changes).changes = changes /\ ~Initialize(changes).complete
    BY <1>1 DEF Initialize
<1> QED
    BY <1>2, <1>3 DEF Unresolved

LEMMA InitInv == Init => Inv
    BY DEF Init, Inv, FailingIsCurrent, FailingForcesReview, ReviewOfApplied

LEMMA NextInv == Inv /\ [Next]_vars => Inv'
<1> SUFFICES ASSUME Inv, [Next]_vars PROVE Inv'
    OBVIOUS
<1> USE DEF Inv, FailingIsCurrent, FailingForcesReview, ReviewOfApplied, RunTruth,
            FailingClaims, EvidenceSet
<1>1. CASE PlanTargets
    BY <1>1 DEF PlanTargets
<1>2. CASE Generate
    BY <1>2 DEF Generate
<1>3. CASE Apply
    BY <1>3 DEF Apply
<1>4. CASE ValidateTruth
    BY <1>4 DEF ValidateTruth
<1>5. CASE DeferToHuman
    BY <1>5 DEF DeferToHuman
<1>6. CASE StripUngrounded
    BY <1>6 DEF StripUngrounded
<1>7. CASE BuildReview
    BY <1>7 DEF BuildReview
<1>8. CASE AcceptTerminology
    BY <1>8 DEF AcceptTerminology
<1>9. CASE UNCHANGED vars
    BY <1>9 DEF vars
<1> QED
    BY <1>1, <1>2, <1>3, <1>4, <1>5, <1>6, <1>7, <1>8, <1>9 DEF Next

LEMMA InvGroundedOrAsked == Inv => GroundedOrAsked
<1> SUFFICES ASSUME Inv PROVE GroundedOrAsked
    OBVIOUS
<1>1. ReleasedIsGrounded
    BY DEF Inv, FailingIsCurrent, FailingForcesReview, ReleasedIsGrounded
<1>2. UngroundedIsAsked
    <2> SUFFICES ASSUME stage = "done", RunTruth, FailingClaims(passed.doc) # {},
                        1 \in DOMAIN passed.applied
                 PROVE  Unresolved(review, call.human \/ forced) # {}
        BY DEF UngroundedIsAsked
    <2>1. forced
        BY DEF Inv, FailingIsCurrent, FailingForcesReview
    <2>2. review = Initialize(passed.applied)
        BY <2>1 DEF Inv, ReviewOfApplied
    <2>3. 1 \in Unresolved(review, TRUE)
        BY <2>2, OpenReviewAsks
    <2> QED
        BY <2>1, <2>3 DEF Unresolved
<1> QED
    BY <1>1, <1>2 DEF GroundedOrAsked

\* Without a human and without a forced review, what the pipeline returns has
\* no unsupported and no contradicted claim; with one, the reader is asked
\* about the changes that were applied.
THEOREM SpecGroundedOrAsked == Spec => []GroundedOrAsked
<1>1. Spec => []Inv
    BY InitInv, NextInv, PTL DEF Spec
<1> QED
    BY <1>1, InvGroundedOrAsked, PTL

\* In particular a call without a human never returns ungrounded text.
THEOREM SpecReleasedIsGrounded == Spec => []ReleasedIsGrounded
<1>1. GroundedOrAsked => ReleasedIsGrounded
    BY DEF GroundedOrAsked
<1> QED
    BY SpecGroundedOrAsked, <1>1, PTL

-----------------------------------------------------------------------------
(* Applying a list of changes, with what was applied and what was refused.  *)

\* A change that stands for itself: every change apply_diffs comes to.
Single == {c \in Change : Expand(c) = <<c>>}

ChangesOf(rejections) == [i \in DOMAIN rejections |-> rejections[i].change]

RejectionReason == Reason \cup {"truth_validation_failed"}

Rejections == [change : Change, reason : RejectionReason]

Passes(D) == [doc : [D -> Value], applied : Seq(Change), rejected : Seq(Rejections)]

\* One iteration of the loop.
ApplyStep(st, c, level, skills) ==
    LET r == ApplyChange(st.doc, c, level, skills)
    IN  IF r.reason = "allowed"
        THEN [st EXCEPT !.doc = r.doc, !.applied = Append(@, c)]
        ELSE [st EXCEPT !.rejected = Append(@, [change |-> c, reason |-> r.reason])]

\* A step applies the change, or refuses it and leaves the resume alone.
LEMMA ApplyStepForms ==
    ASSUME NEW D, NEW st \in Passes(D), NEW c \in Change, NEW level, NEW skills
    PROVE  LET r  == ApplyChange(st.doc, c, level, skills)
               to == ApplyStep(st, c, level, skills)
           IN  /\ to \in Passes(D)
               /\ r.reason = "allowed" => to = [doc |-> r.doc, applied |-> Append(st.applied, c),
                                                rejected |-> st.rejected]
               /\ r.reason # "allowed" =>
                      to = [doc |-> st.doc, applied |-> st.applied,
                            rejected |-> Append(st.rejected, [change |-> c, reason |-> r.reason])]
<1> DEFINE r == ApplyChange(st.doc, c, level, skills)
           to == ApplyStep(st, c, level, skills)
<1>1. /\ st = [doc |-> st.doc, applied |-> st.applied, rejected |-> st.rejected]
      /\ st.doc \in [D -> Value]
      /\ st.applied \in Seq(Change)
      /\ st.rejected \in Seq(Rejections)
    BY DEF Passes
<1>2. ChangeOutcome(st.doc, c, level, skills, r)
    BY <1>1, ApplyChangeEdits
<1>3. to = IF r.reason = "allowed"
           THEN [st EXCEPT !.doc = r.doc, !.applied = Append(@, c)]
           ELSE [st EXCEPT !.rejected = Append(@, [change |-> c, reason |-> r.reason])]
    BY DEF ApplyStep
<1> HIDE DEF r, to
<1>4. r.doc \in [D -> Value] /\ r.reason \in RejectionReason
    BY <1>1, <1>2 DEF ChangeOutcome, Edits, Reason, RejectionReason
<1>5. CASE r.reason = "allowed"
    <2>1. to = [doc |-> r.doc, applied |-> Append(st.applied, c), rejected |-> st.rejected]
        BY <1>1, <1>3, <1>5
    <2>2. Append(st.applied, c) \in Seq(Change)
        BY <1>1
    <2> QED
        BY <1>1, <1>4, <1>5, <2>1, <2>2 DEF Passes, r, to
<1>6. CASE r.reason # "allowed"
    <2> DEFINE e == [change |-> c, reason |-> r.reason]
    <2>1. to = [doc |-> st.doc, applied |-> st.applied, rejected |-> Append(st.rejected, e)]
        BY <1>1, <1>3, <1>6
    <2>2. e \in Rejections
        BY <1>4 DEF Rejections
    <2> HIDE DEF e
    <2>3. Append(st.rejected, e) \in Seq(Rejections)
        BY <1>1, <2>2
    <2> QED
        BY <1>1, <1>6, <2>1, <2>3 DEF Passes, r, to, e
<1> QED
    BY <1>5, <1>6

\* h is the run of apply_diffs over the changes cs.
ApplyingRun(h, doc, cs, level, skills) ==
    /\ h[0] = [doc |-> doc, applied |-> <<>>, rejected |-> <<>>]
    /\ \A i \in 1 .. Len(cs) : h[i] = ApplyStep(h[i - 1], cs[i], level, skills)

LEMMA ApplyAllRuns ==
    ASSUME NEW D, NEW doc \in [D -> Value], NEW changes \in Seq(Change), NEW level, NEW skills
    PROVE  \E h : /\ ApplyingRun(h, doc, ExpandAll(changes), level, skills)
                  /\ \A i \in 0 .. Len(ExpandAll(changes)) : h[i] \in Passes(D)
                  /\ ApplyAll(doc, changes, level, skills) = h[Len(ExpandAll(changes))]
<1> DEFINE cs == ExpandAll(changes)
           n == Len(cs)
           X == Passes(D)
           base == [doc |-> doc, applied |-> <<>>, rejected |-> <<>>]
           F == [p \in X \X (1 .. n) |-> ApplyStep(p[1], cs[p[2]], level, skills)]
           Folds(f) == f = [S \in SUBSET DOMAIN cs |->
                            IF S = {} THEN base
                            ELSE ApplyStep(f[S \ {Max(S)}], cs[Max(S)], level, skills)]
           C == CHOOSE f : Folds(f)
           h == [i \in 0 .. n |-> C[1 .. i]]
<1>1. n \in Nat /\ DOMAIN cs = 1 .. n /\ \A i \in 1 .. n : cs[i] \in Change
    <2>1. cs \in Seq(Change)
        BY ExpandAllProposes
    <2> HIDE DEF cs
    <2> QED
        BY <2>1
<1> HIDE DEF cs, n
<1>2. base \in X
    BY DEF Passes
<1>3. \A st \in X, i \in 1 .. n : ApplyStep(st, cs[i], level, skills) \in X
    BY <1>1, ApplyStepForms
<1>4. PICK f : RecursesOver(f, n, X, base, F)
    <2>1. F \in [X \X (1 .. n) -> X]
        BY <1>3
    <2> HIDE DEF F, X, base
    <2> QED
        BY <1>1, <1>2, <2>1, FoldRecursion
<1>5. Folds(f)
    <2> HIDE DEF X
    <2>1. \A S \in SUBSET (1 .. n) :
              f[S] = IF S = {} THEN base
                     ELSE ApplyStep(f[S \ {Max(S)}], cs[Max(S)], level, skills)
        <3> TAKE S \in SUBSET (1 .. n)
        <3>1. CASE S = {}
            BY <1>4, <3>1 DEF RecursesOver
        <3>2. CASE S # {}
            <4>1. Max(S) \in 1 .. n
                BY <1>1, <3>2, MaxOfIndexes
            <4>2. f[S \ {Max(S)}] \in X /\ f[S] = F[<<f[S \ {Max(S)}], Max(S)>>]
                <5> HIDE DEF F
                <5> QED
                    BY <1>4, <3>2 DEF RecursesOver
            <4> QED
                BY <3>2, <4>1, <4>2
        <3> QED
            BY <3>1, <3>2
    <2>2. f = [S \in SUBSET (1 .. n) |-> f[S]]
        <3> HIDE DEF F
        <3> QED
            BY <1>4 DEF RecursesOver
    <2> QED
        BY <1>1, <2>1, <2>2
<1>6. Folds(C)
    <2> HIDE DEF Folds
    <2> QED
        BY <1>5
<1>7. h[0] = base /\ \A i \in 1 .. n : h[i] = ApplyStep(h[i - 1], cs[i], level, skills)
    <2> HIDE DEF C, base
    <2>1. 1 .. 0 = {} /\ 0 \in 0 .. n
        BY <1>1
    <2>2. \A i \in 1 .. n : C[1 .. i] = ApplyStep(C[1 .. (i - 1)], cs[i], level, skills)
        <3> TAKE i \in 1 .. n
        <3>1. /\ 1 .. i \in SUBSET DOMAIN cs
              /\ 1 .. i # {}
              /\ Max(1 .. i) = i
              /\ (1 .. i) \ {Max(1 .. i)} = 1 .. (i - 1)
            BY <1>1, UpTo
        <3> QED
            BY <1>6, <3>1
    <2>3. \A i \in 1 .. n : i \in 0 .. n /\ i - 1 \in 0 .. n
        BY <1>1
    <2> QED
        BY <1>1, <1>6, <2>1, <2>2, <2>3
<1>8. ApplyAll(doc, changes, level, skills) = h[n]
    <2>1. ApplyAll(doc, changes, level, skills) = C[DOMAIN cs]
        BY DEF ApplyAll, FoldLeft, MapThenFoldSet, ApplyStep, cs
    <2>2. n \in 0 .. n
        BY <1>1
    <2> HIDE DEF C
    <2> QED
        BY <1>1, <2>1, <2>2
<1> HIDE DEF h
<1>9. ApplyingRun(h, doc, cs, level, skills)
    BY <1>7 DEF ApplyingRun, n
<1>10. \A i \in 0 .. n : h[i] \in X
    <2>1. h[0] \in X
        BY <1>2, <1>7
    <2>2. \A i \in 1 .. n : h[i - 1] \in X => h[i] \in X
        BY <1>3, <1>7
    <2> HIDE DEF X
    <2> QED
        BY <1>1, <2>1, <2>2, RunStays
<1> QED
    BY <1>8, <1>9, <1>10 DEF cs, n

\* What apply_diffs comes to stands for itself,
LEMMA ExpandedAreSingle ==
    ASSUME NEW changes \in Seq(Change)
    PROVE  ExpandAll(changes) \in Seq(Single)
<1> DEFINE seqs == [i \in DOMAIN changes |-> Expand(changes[i])]
<1>1. ASSUME NEW c \in Change
      PROVE  Expand(c) \in Seq(Single)
    <2>1. CASE c.action = "add_skill" /\ IsList(c.value) /\ c.value.items # <<>>
        <3> DEFINE one(i) == [c EXCEPT !.value = Text(c.value.items[i])]
        <3>1. c.value.items \in Seq(Seq(Word))
            BY <2>1, ValueForms DEF Change
        <3>2. \A i \in DOMAIN c.value.items :
                  /\ one(i) \in Change
                  /\ one(i).value = Text(c.value.items[i])
                  /\ ~IsList(one(i).value)
            <4> TAKE i \in DOMAIN c.value.items
            <4>1. Text(c.value.items[i]) \in Value /\ ~IsList(Text(c.value.items[i]))
                BY <3>1, ValuesMade
            <4> QED
                BY <4>1 DEF Change
        <3> HIDE DEF one
        <3>3. \A i \in DOMAIN c.value.items : one(i) \in Single
            BY <3>2 DEF Single, Expand
        <3>4. Expand(c) = [i \in DOMAIN c.value.items |-> one(i)]
            BY <2>1 DEF Expand, one
        <3>5. DOMAIN c.value.items = 1 .. Len(c.value.items) /\ Len(c.value.items) \in Nat
            BY <3>1
        <3> QED
            BY <3>3, <3>4, <3>5
    <2>2. CASE ~(c.action = "add_skill" /\ IsList(c.value) /\ c.value.items # <<>>)
        <3>1. Expand(c) = <<c>>
            BY <2>2 DEF Expand
        <3> QED
            BY <3>1 DEF Single
    <2> QED
        BY <2>1, <2>2
<1>2. seqs \in Seq(Seq(Single))
    <2>1. DOMAIN changes = 1 .. Len(changes) /\ Len(changes) \in Nat
        OBVIOUS
    <2>2. \A i \in DOMAIN changes : Expand(changes[i]) \in Seq(Single)
        BY <1>1
    <2> QED
        BY <2>1, <2>2
<1>3. FlattenSeq(seqs) \in Seq(Single)
    <2> HIDE DEF seqs
    <2> QED
        BY <1>2, FlattenSeqMembers
<1> QED
    BY <1>3 DEF ExpandAll

\* and expanding it again changes nothing.
LEMMA SinglesStay ==
    ASSUME NEW s \in Seq(Single)
    PROVE  ExpandAll(s) = s
<1>1. \A i \in DOMAIN s : Expand(s[i]) = <<s[i]>>
    BY DEF Single
<1>2. [i \in DOMAIN s |-> Expand(s[i])] = [i \in DOMAIN s |-> <<s[i]>>]
    BY <1>1
<1>3. FlattenSeq([i \in DOMAIN s |-> <<s[i]>>]) = s
    BY FlattenSeqOfSingles
<1> QED
    BY <1>2, <1>3 DEF ExpandAll

\* One more change is one more step.
LEMMA ApplyAllAppend ==
    ASSUME NEW D, NEW doc \in [D -> Value], NEW s \in Seq(Single), NEW c \in Single,
           NEW level, NEW skills
    PROVE  ApplyAll(doc, Append(s, c), level, skills)
               = ApplyStep(ApplyAll(doc, s, level, skills), c, level, skills)
<1> DEFINE longer == Append(s, c)
           n == Len(s)
<1>1. /\ s \in Seq(Change) /\ longer \in Seq(Change) /\ longer \in Seq(Single)
      /\ n \in Nat /\ Len(longer) = n + 1
      /\ \A i \in 1 .. n : longer[i] = s[i]
      /\ longer[n + 1] = c
    BY DEF Single
<1>2. ExpandAll(s) = s /\ ExpandAll(longer) = longer
    BY <1>1, SinglesStay
<1> HIDE DEF longer, n
<1>3. PICK g : /\ ApplyingRun(g, doc, s, level, skills)
               /\ ApplyAll(doc, s, level, skills) = g[n]
    BY <1>1, <1>2, ApplyAllRuns DEF n
<1>4. PICK h : /\ ApplyingRun(h, doc, longer, level, skills)
               /\ ApplyAll(doc, longer, level, skills) = h[n + 1]
    BY <1>1, <1>2, ApplyAllRuns
<1>5. g[0] = h[0] /\ \A i \in 1 .. n : g[i - 1] = h[i - 1] => g[i] = h[i]
    <2>1. Len(s) = n
        BY DEF n
    <2> QED
        BY <1>1, <1>3, <1>4, <2>1 DEF ApplyingRun
<1>6. g[n] = h[n]
    BY <1>1, <1>5, RunsAgree
<1>7. h[n + 1] = ApplyStep(h[n], c, level, skills)
    <2>1. n + 1 \in 1 .. (n + 1) /\ (n + 1) - 1 = n
        BY <1>1
    <2> QED
        BY <1>1, <1>4, <2>1 DEF ApplyingRun
<1> QED
    BY <1>3, <1>4, <1>6, <1>7 DEF longer

\* The changes refused in two passes.
LEMMA ChangesOfJoins ==
    ASSUME NEW s \in Seq(Rejections), NEW t \in Seq(Rejections)
    PROVE  ChangesOf(s \o t) = ChangesOf(s) \o ChangesOf(t) /\ ChangesOf(s) \in Seq(Change)
<1> DEFINE A == ChangesOf(s)
           B == ChangesOf(t)
           J == ChangesOf(s \o t)
<1>1. \A r \in Seq(Rejections) :
          /\ DOMAIN ChangesOf(r) = DOMAIN r
          /\ \A i \in DOMAIN r : ChangesOf(r)[i] = r[i].change
          /\ ChangesOf(r) \in Seq(Change)
          /\ Len(ChangesOf(r)) = Len(r)
    <2> TAKE r \in Seq(Rejections)
    <2>1. \A i \in DOMAIN r : r[i].change \in Change
        <3>1. \A x \in Rejections : x.change \in Change
            BY DEF Rejections
        <3>2. \A i \in DOMAIN r : r[i] \in Rejections
            OBVIOUS
        <3> QED
            BY <3>1, <3>2
    <2>2. DOMAIN r = 1 .. Len(r) /\ Len(r) \in Nat
        OBVIOUS
    <2>3. ChangesOf(r) \in Seq(Change)
        BY <2>1, <2>2 DEF ChangesOf
    <2>4. DOMAIN ChangesOf(r) = 1 .. Len(r)
        BY <2>2 DEF ChangesOf
    <2>5. Len(ChangesOf(r)) = Len(r)
        BY <2>2, <2>3, <2>4
    <2> QED
        BY <2>2, <2>3, <2>4, <2>5 DEF ChangesOf
<1>2. s \o t \in Seq(Rejections)
    OBVIOUS
<1>3. /\ A \in Seq(Change) /\ B \in Seq(Change) /\ J \in Seq(Change)
      /\ Len(A) = Len(s) /\ Len(B) = Len(t) /\ Len(J) = Len(s \o t)
      /\ \A i \in DOMAIN s : A[i] = s[i].change
      /\ \A i \in DOMAIN t : B[i] = t[i].change
      /\ \A i \in DOMAIN (s \o t) : J[i] = (s \o t)[i].change
    BY <1>1, <1>2
<1> HIDE DEF A, B, J
<1>4. /\ s \o t \in Seq(Rejections) /\ Len(s \o t) = Len(s) + Len(t)
      /\ \A i \in DOMAIN (s \o t) : (s \o t)[i] = IF i <= Len(s) THEN s[i] ELSE t[i - Len(s)]
    BY JoinedItems
<1>5. /\ A \o B \in Seq(Change) /\ Len(A \o B) = Len(A) + Len(B)
      /\ \A i \in DOMAIN (A \o B) : (A \o B)[i] = IF i <= Len(A) THEN A[i] ELSE B[i - Len(A)]
    <2>1. A \in Seq(Change) /\ B \in Seq(Change)
        BY <1>3
    <2> QED
        BY <2>1, JoinedItems
<1> DEFINE n == Len(s) + Len(t)
<1>6. /\ DOMAIN J = 1 .. n /\ DOMAIN (A \o B) = 1 .. n /\ DOMAIN (s \o t) = 1 .. n
      /\ n \in Nat /\ Len(s) \in Nat /\ DOMAIN s = 1 .. Len(s) /\ DOMAIN t = 1 .. (n - Len(s))
    BY <1>3, <1>4, <1>5
<1> HIDE DEF n
<1>7. \A i \in 1 .. n : J[i] = (A \o B)[i]
    <2> TAKE i \in 1 .. n
    <2>1. J[i] = (s \o t)[i].change /\ i \in DOMAIN (A \o B) /\ i \in DOMAIN (s \o t)
        BY <1>3, <1>6
    <2>2. CASE i <= Len(s)
        <3>1. i \in DOMAIN s
            BY <1>6, <2>2
        <3> QED
            BY <1>3, <1>4, <1>5, <2>1, <2>2, <3>1
    <2>3. CASE i > Len(s)
        <3>1. i - Len(s) \in DOMAIN t /\ ~(i <= Len(s))
            BY <1>6, <2>3
        <3> QED
            BY <1>3, <1>4, <1>5, <2>1, <3>1
    <2> QED
        BY <1>6, <2>2, <2>3
<1>8. J = A \o B
    <2> DEFINE K == A \o B
    <2>1. /\ J \in Seq(Change) /\ K \in Seq(Change)
          /\ DOMAIN J = 1 .. n /\ DOMAIN K = 1 .. n
        BY <1>3, <1>5, <1>6
    <2>2. \A i \in 1 .. n : J[i] = K[i]
        BY <1>7
    <2> HIDE DEF K
    <2>3. J = [i \in 1 .. n |-> J[i]] /\ K = [i \in 1 .. n |-> K[i]]
        BY <2>1
    <2>4. J = K
        BY <2>2, <2>3, Zenon
    <2> QED
        BY <2>4 DEF K
<1> QED
    BY <1>3, <1>8 DEF A, B, J

\* How often a change is refused.
LEMMA ChangesOfAppend ==
    ASSUME NEW s \in Seq(Rejections), NEW e \in Rejections, NEW K
    PROVE  HowMany(ChangesOf(Append(s, e)), K)
               = HowMany(ChangesOf(s), K) + (IF e.change \in K THEN 1 ELSE 0)
<1>1. <<e>> \in Seq(Rejections) /\ Append(s, e) = s \o <<e>>
    OBVIOUS
<1>2. ChangesOf(<<e>>) = <<e.change>> /\ e.change \in Change
    BY DEF ChangesOf, Rejections
<1>3. ChangesOf(s) \in Seq(Change) /\ ChangesOf(Append(s, e)) = ChangesOf(s) \o <<e.change>>
    BY <1>1, <1>2, ChangesOfJoins
<1>4. ChangesOf(s) \o <<e.change>> = Append(ChangesOf(s), e.change)
    BY <1>2, <1>3
<1>5. HowMany(Append(ChangesOf(s), e.change), K)
          = HowMany(ChangesOf(s), K) + (IF e.change \in K THEN 1 ELSE 0)
    BY <1>2, <1>3, HowManyAppend
<1> QED
    BY <1>3, <1>4, <1>5

\* No change leaves the resume alone.
LEMMA ApplyAllOfNone ==
    ASSUME NEW D, NEW doc \in [D -> Value], NEW level, NEW skills
    PROVE  ApplyAll(doc, <<>>, level, skills) = [doc |-> doc, applied |-> <<>>, rejected |-> <<>>]
<1> DEFINE none == <<>>
<1>1. none \in Seq(Single) /\ none \in Seq(Change) /\ Len(none) = 0
    OBVIOUS
<1> HIDE DEF none
<1>2. ExpandAll(none) = none
    BY <1>1, SinglesStay
<1>3. PICK g : /\ ApplyingRun(g, doc, ExpandAll(none), level, skills)
               /\ ApplyAll(doc, none, level, skills) = g[Len(ExpandAll(none))]
    <2>1. none \in Seq(Change)
        BY <1>1
    <2>2. \E g : /\ ApplyingRun(g, doc, ExpandAll(none), level, skills)
                 /\ \A i \in 0 .. Len(ExpandAll(none)) : g[i] \in Passes(D)
                 /\ ApplyAll(doc, none, level, skills) = g[Len(ExpandAll(none))]
        <3>1. ASSUME NEW cs \in Seq(Change)
              PROVE  \E g : /\ ApplyingRun(g, doc, ExpandAll(cs), level, skills)
                            /\ \A i \in 0 .. Len(ExpandAll(cs)) : g[i] \in Passes(D)
                            /\ ApplyAll(doc, cs, level, skills) = g[Len(ExpandAll(cs))]
            BY ApplyAllRuns
        <3> QED
            BY <2>1, <3>1
    <2> QED
        BY <2>2
<1> QED
    BY <1>1, <1>2, <1>3 DEF ApplyingRun, none

\* Every change apply_diffs comes to is applied or refused, as often as it comes;
\* and the applied ones, applied alone, are all applied again and make the same
\* resume.
LEMMA AppliedStandsAlone ==
    ASSUME NEW D, NEW doc \in [D -> Value], NEW changes \in Seq(Change), NEW level, NEW skills
    PROVE  LET out == ApplyAll(doc, changes, level, skills)
           IN  /\ out \in Passes(D)
               /\ out.applied \in Seq(Single)
               /\ \A K : HowMany(out.applied, K) + HowMany(ChangesOf(out.rejected), K)
                             = HowMany(ExpandAll(changes), K)
               /\ ApplyAll(doc, out.applied, level, skills)
                      = [doc |-> out.doc, applied |-> out.applied, rejected |-> <<>>]
<1> DEFINE cs == ExpandAll(changes)
           n == Len(cs)
           Counts(st, i) == \A K : HowMany(st.applied, K) + HowMany(ChangesOf(st.rejected), K)
                                       + HowManyAfter(cs, i, K) = HowMany(cs, K)
           Replays(st) == ApplyAll(doc, st.applied, level, skills)
                              = [doc |-> st.doc, applied |-> st.applied, rejected |-> <<>>]
<1>1. cs \in Seq(Single)
    BY ExpandedAreSingle
<1>2. PICK h : /\ ApplyingRun(h, doc, cs, level, skills)
               /\ \A i \in 0 .. n : h[i] \in Passes(D)
               /\ ApplyAll(doc, changes, level, skills) = h[n]
    BY ApplyAllRuns
<1> HIDE DEF cs
<1>3. /\ n \in Nat /\ DOMAIN cs = 1 .. n
      /\ \A i \in 1 .. n : cs[i] \in Single /\ cs[i] \in Change
    BY <1>1 DEF Single
<1>4. \A K : /\ HowMany(cs, K) \in Nat
             /\ HowManyAfter(cs, 0, K) = HowMany(cs, K)
             /\ HowManyAfter(cs, n, K) = 0
             /\ \A i \in 0 .. n : HowManyAfter(cs, i, K) \in Nat
             /\ \A i \in 1 .. n : HowManyAfter(cs, i - 1, K)
                                      = HowManyAfter(cs, i, K) + (IF cs[i] \in K THEN 1 ELSE 0)
    <2> TAKE K
    <2>1. HowMany(cs, K) \in Nat
        BY <1>1, HowManyType
    <2> QED
        BY <1>1, <2>1, HowManyAfterSteps
<1>5. \A i \in 0 .. n : \A K :
          HowMany(h[i].applied, K) \in Nat /\ HowMany(ChangesOf(h[i].rejected), K) \in Nat
    <2> TAKE i \in 0 .. n
    <2>1. h[i].applied \in Seq(Change) /\ h[i].rejected \in Seq(Rejections)
        BY <1>2 DEF Passes
    <2>2. ChangesOf(h[i].rejected) \in Seq(Change)
        BY <2>1, ChangesOfJoins
    <2> QED
        BY <2>1, <2>2, HowManyType
<1> HIDE DEF n, Counts, Replays
<1> DEFINE good == {i \in 0 .. n : /\ h[i].applied \in Seq(Single)
                                   /\ Counts(h[i], i)
                                   /\ Replays(h[i])}
<1>6. 0 \in good
    <2>1. /\ h[0] = [doc |-> doc, applied |-> <<>>, rejected |-> <<>>]
          /\ 0 \in 0 .. n
          /\ <<>> \in Seq(Single)
          /\ <<>> \in Seq(Change)
        BY <1>2, <1>3 DEF ApplyingRun
    <2>2. ChangesOf(<<>>) = <<>>
        BY DEF ChangesOf
    <2>3. \A K : HowMany(<<>>, K) = 0
        <3> TAKE K
        <3>1. \A i \in DOMAIN <<>> : <<>>[i] \notin K
            OBVIOUS
        <3> QED
            BY <2>1, <3>1, HowManyType
    <2>4. Counts(h[0], 0)
        BY <1>4, <2>1, <2>2, <2>3 DEF Counts
    <2>5. Replays(h[0])
        <3>1. h[0].applied = <<>> /\ h[0].doc = doc
            BY <2>1
        <3> QED
            BY <3>1, ApplyAllOfNone DEF Replays
    <2>6. h[0].applied \in Seq(Single)
        BY <2>1
    <2> QED
        BY <2>1, <2>4, <2>5, <2>6
<1>7. \A i \in 1 .. n : i - 1 \in good => i \in good
    <2> SUFFICES ASSUME NEW i \in 1 .. n, i - 1 \in good PROVE i \in good
        OBVIOUS
    <2> DEFINE st == h[i - 1]
               c == cs[i]
               r == ApplyChange(st.doc, c, level, skills)
    <2>1. i \in 0 .. n /\ i - 1 \in 0 .. n /\ c \in Single /\ c \in Change
        BY <1>3
    <2>2. /\ st \in Passes(D) /\ st.applied \in Seq(Single) /\ st.applied \in Seq(Change)
          /\ st.rejected \in Seq(Rejections)
          /\ st.doc \in [D -> Value]
          /\ Counts(st, i - 1) /\ Replays(st)
        BY <1>2, <2>1 DEF Passes
    <2>3. h[i] = ApplyStep(st, c, level, skills) /\ h[i] \in Passes(D)
        BY <1>2, <2>1 DEF ApplyingRun, n
    <2> HIDE DEF st, c, good
    <2> DEFINE e == [change |-> c, reason |-> r.reason]
    <2>11. /\ r.reason = "allowed" => h[i] = [doc |-> r.doc, applied |-> Append(st.applied, c),
                                              rejected |-> st.rejected]
           /\ r.reason # "allowed" => h[i] = [doc |-> st.doc, applied |-> st.applied,
                                              rejected |-> Append(st.rejected, e)]
        BY <2>1, <2>2, <2>3, ApplyStepForms
    <2>12. e \in Rejections /\ e.change = c
        <3>1. ChangeOutcome(st.doc, c, level, skills, r)
            BY <2>1, <2>2, ApplyChangeEdits
        <3>2. r.reason \in RejectionReason
            BY <3>1 DEF ChangeOutcome, Reason, RejectionReason
        <3> QED
            BY <2>1, <3>2 DEF Rejections
    <2> DEFINE alone == [doc |-> st.doc, applied |-> st.applied, rejected |-> <<>>]
    <2>13. alone \in Passes(D) /\ alone.doc = st.doc /\ alone.applied = st.applied
               /\ alone.rejected = <<>>
        BY <2>2 DEF Passes
    <2> HIDE DEF alone
    <2>14. r.reason = "allowed" =>
               ApplyStep(alone, c, level, skills)
                   = [doc |-> r.doc, applied |-> Append(st.applied, c), rejected |-> <<>>]
        BY DEF ApplyStep, alone, r
    <2> HIDE DEF r, e
    <2>4. CASE r.reason = "allowed"
        <3>1. h[i] = [doc |-> r.doc, applied |-> Append(st.applied, c), rejected |-> st.rejected]
            BY <2>4, <2>11
        <3>2. h[i].applied \in Seq(Single)
            BY <2>1, <2>2, <3>1
        <3>3. Counts(h[i], i)
            <4> SUFFICES ASSUME NEW K
                         PROVE  HowMany(h[i].applied, K) + HowMany(ChangesOf(h[i].rejected), K)
                                    + HowManyAfter(cs, i, K) = HowMany(cs, K)
                BY DEF Counts
            <4>1. HowMany(st.applied, K) + HowMany(ChangesOf(st.rejected), K)
                      + HowManyAfter(cs, i - 1, K) = HowMany(cs, K)
                BY <2>2 DEF Counts
            <4>2. HowMany(h[i].applied, K) = HowMany(st.applied, K) + (IF c \in K THEN 1 ELSE 0)
                BY <2>1, <2>2, <3>1, HowManyAppend
            <4>3. HowManyAfter(cs, i - 1, K) = HowManyAfter(cs, i, K) + (IF c \in K THEN 1 ELSE 0)
                BY <1>4 DEF c
            <4>4. /\ HowMany(st.applied, K) \in Nat /\ HowMany(ChangesOf(st.rejected), K) \in Nat
                  /\ HowManyAfter(cs, i, K) \in Nat /\ HowMany(cs, K) \in Nat
                BY <1>4, <1>5, <2>1 DEF st
            <4>5. h[i].rejected = st.rejected
                BY <3>1
            <4> QED
                BY <4>1, <4>2, <4>3, <4>4, <4>5
        <3>4. Replays(h[i])
            <4>1. ApplyAll(doc, Append(st.applied, c), level, skills)
                      = ApplyStep(ApplyAll(doc, st.applied, level, skills), c, level, skills)
                BY <2>1, <2>2, ApplyAllAppend
            <4>2. ApplyAll(doc, st.applied, level, skills) = alone
                BY <2>2 DEF Replays, alone
            <4>3. ApplyAll(doc, Append(st.applied, c), level, skills)
                      = [doc |-> r.doc, applied |-> Append(st.applied, c), rejected |-> <<>>]
                BY <2>4, <2>14, <4>1, <4>2
            <4>4. h[i].doc = r.doc /\ h[i].applied = Append(st.applied, c)
                BY <3>1
            <4> QED
                BY <4>3, <4>4, Zenon DEF Replays
        <3> QED
            BY <2>1, <3>2, <3>3, <3>4 DEF good
    <2>5. CASE r.reason # "allowed"
        <3>1. h[i] = [doc |-> st.doc, applied |-> st.applied, rejected |-> Append(st.rejected, e)]
            BY <2>5, <2>11
        <3>3. Counts(h[i], i)
            <4> SUFFICES ASSUME NEW K
                         PROVE  HowMany(h[i].applied, K) + HowMany(ChangesOf(h[i].rejected), K)
                                    + HowManyAfter(cs, i, K) = HowMany(cs, K)
                BY DEF Counts
            <4>1. HowMany(st.applied, K) + HowMany(ChangesOf(st.rejected), K)
                      + HowManyAfter(cs, i - 1, K) = HowMany(cs, K)
                BY <2>2 DEF Counts
            <4>2. HowMany(ChangesOf(h[i].rejected), K)
                      = HowMany(ChangesOf(st.rejected), K) + (IF c \in K THEN 1 ELSE 0)
                BY <2>2, <2>12, <3>1, ChangesOfAppend
            <4>3. HowManyAfter(cs, i - 1, K) = HowManyAfter(cs, i, K) + (IF c \in K THEN 1 ELSE 0)
                BY <1>4 DEF c
            <4>4. /\ HowMany(st.applied, K) \in Nat /\ HowMany(ChangesOf(st.rejected), K) \in Nat
                  /\ HowManyAfter(cs, i, K) \in Nat /\ HowMany(cs, K) \in Nat
                BY <1>4, <1>5, <2>1 DEF st
            <4>5. h[i].applied = st.applied
                BY <3>1
            <4> QED
                BY <4>1, <4>2, <4>3, <4>4, <4>5
        <3>4. h[i].applied = st.applied /\ h[i].doc = st.doc
            BY <3>1
        <3>5. Replays(h[i])
            <4>1. [doc |-> h[i].doc, applied |-> h[i].applied, rejected |-> <<>>]
                      = [doc |-> st.doc, applied |-> st.applied, rejected |-> <<>>]
                BY <3>4
            <4>2. ApplyAll(doc, h[i].applied, level, skills) = ApplyAll(doc, st.applied, level, skills)
                BY <3>4
            <4> QED
                BY <2>2, <4>1, <4>2 DEF Replays
        <3> QED
            BY <2>1, <2>2, <3>3, <3>4, <3>5 DEF good
    <2> QED
        BY <2>4, <2>5
<1>8. n \in good
    <2> HIDE DEF good
    <2> QED
        BY <1>3, <1>6, <1>7, StepsUp
<1>9. /\ h[n] \in Passes(D) /\ h[n].applied \in Seq(Single) /\ Counts(h[n], n) /\ Replays(h[n])
    BY <1>2, <1>3, <1>8
<1>10. \A K : HowMany(h[n].applied, K) + HowMany(ChangesOf(h[n].rejected), K) = HowMany(cs, K)
    <2> TAKE K
    <2>1. HowMany(h[n].applied, K) \in Nat /\ HowMany(ChangesOf(h[n].rejected), K) \in Nat
        <3>1. n \in 0 .. n
            BY <1>3
        <3> QED
            BY <1>5, <3>1
    <2>3. HowManyAfter(cs, n, K) = 0
        BY <1>4
    <2>2. HowMany(h[n].applied, K) + HowMany(ChangesOf(h[n].rejected), K)
              + HowManyAfter(cs, n, K) = HowMany(cs, K)
        BY <1>9 DEF Counts
    <2> QED
        BY <2>1, <2>2, <2>3
<1> QED
    BY <1>2, <1>9, <1>10 DEF cs, Replays

-----------------------------------------------------------------------------
(* What the result lists.                                                   *)

\* The length of a sequence counts all its items.
LEMMA HowManyAll ==
    ASSUME NEW X, NEW s \in Seq(X)
    PROVE  HowMany(s, X) = Len(s)
<1>1. DOMAIN s = 1 .. Len(s) /\ Len(s) \in Nat
    OBVIOUS
<1>3. {i \in DOMAIN s : s[i] \in X} = DOMAIN s
    <2>1. \A i \in DOMAIN s : s[i] \in X
        OBVIOUS
    <2> QED
        BY <2>1, Zenon
<1>2. Cardinality(1 .. Len(s)) = Len(s)
    <2>1. 1 \in Int /\ Len(s) \in Int
        BY <1>1
    <2>2. Cardinality(1 .. Len(s)) = IF 1 > Len(s) THEN 0 ELSE Len(s) - 1 + 1
        BY <2>1, FS_Interval
    <2> QED
        BY <1>1, <2>2
<1> QED
    BY <1>1, <1>2, <1>3 DEF HowMany

\* Two sequences with every item equally often are one bag.
LEMMA SameBag ==
    ASSUME NEW X, NEW s \in Seq(X), NEW t \in Seq(X),
           \A x \in X : HowMany(s, {x}) = HowMany(t, {x})
    PROVE  Bag(s) = Bag(t)
<1>1. \A x \in X : /\ HowMany(s, {x}) = 0 <=> x \notin ToSet(s)
                   /\ HowMany(t, {x}) = 0 <=> x \notin ToSet(t)
    <2> TAKE x \in X
    <2>1. HowMany(s, {x}) = 0 <=> \A i \in DOMAIN s : s[i] \notin {x}
        BY HowManyType
    <2>2. HowMany(t, {x}) = 0 <=> \A i \in DOMAIN t : t[i] \notin {x}
        BY HowManyType
    <2> QED
        BY <2>1, <2>2 DEF ToSet
<1>2. ToSet(s) \subseteq X /\ ToSet(t) \subseteq X
    BY DEF ToSet
<1>3. ToSet(s) = ToSet(t)
    BY <1>1, <1>2
<1>4. \A x : /\ {i \in DOMAIN s : s[i] = x} = {i \in DOMAIN s : s[i] \in {x}}
             /\ {i \in DOMAIN t : t[i] = x} = {i \in DOMAIN t : t[i] \in {x}}
    OBVIOUS
<1>5. \A x \in ToSet(s) : Cardinality({i \in DOMAIN s : s[i] = x})
                              = Cardinality({i \in DOMAIN t : t[i] = x})
    BY <1>2, <1>4 DEF HowMany
<1> QED
    BY <1>3, <1>5 DEF Bag

\* Every change of a list is among the applied or the rejected ones, as often.
Accounts(pass, cs) ==
    /\ pass.applied \in Seq(Single)
    /\ pass.rejected \in Seq(Rejections)
    /\ \A K \in SUBSET Change :
           HowMany(pass.applied, K) + HowMany(ChangesOf(pass.rejected), K) = HowMany(cs, K)

\* The applied changes alone make the document of the pass.
Replays(pass, doc, level, skills) ==
    /\ ApplyAll(doc, pass.applied, level, skills)
           = [doc |-> pass.raw, applied |-> pass.applied, rejected |-> <<>>]
    /\ pass.doc = ValidateResume(pass.raw)

LEMMA VerifiedPass ==
    ASSUME NEW D, NEW doc \in [D -> Value], NEW changes \in Seq(Change), NEW level, NEW skills
    PROVE  LET pass == ApplyVerifyDiff(doc, changes, level, skills)
           IN  /\ Accounts(pass, ExpandAll(changes))
               /\ Replays(pass, doc, level, skills)
               /\ pass.raw \in [D -> Value]
<1> DEFINE run == ApplyAll(doc, changes, level, skills)
           pass == ApplyVerifyDiff(doc, changes, level, skills)
<1>1. /\ run \in Passes(D)
      /\ run.applied \in Seq(Single)
      /\ \A K : HowMany(run.applied, K) + HowMany(ChangesOf(run.rejected), K)
                    = HowMany(ExpandAll(changes), K)
      /\ ApplyAll(doc, run.applied, level, skills)
             = [doc |-> run.doc, applied |-> run.applied, rejected |-> <<>>]
    BY AppliedStandsAlone
<1>2. /\ pass.raw = run.doc
      /\ pass.doc = ValidateResume(run.doc)
      /\ pass.applied = run.applied
      /\ pass.rejected = run.rejected
    BY DEF ApplyVerifyDiff
<1> HIDE DEF run, pass
<1>3. run.rejected \in Seq(Rejections) /\ run.doc \in [D -> Value]
    BY <1>1 DEF Passes
<1>4. Accounts(pass, ExpandAll(changes))
    BY <1>1, <1>2, <1>3 DEF Accounts
<1>5. Replays(pass, doc, level, skills)
    BY <1>1, <1>2, Zenon DEF Replays
<1> QED
    BY <1>2, <1>3, <1>4, <1>5 DEF pass

\* Stripping moves changes from the applied to the rejected ones and loses none.
LEMMA StrippedPass ==
    ASSUME NEW D, NEW doc \in [D -> Value], NEW level, NEW skills, NEW pass, NEW cs, NEW claims,
           Accounts(pass, cs)
    PROVE  LET out == Stripped(doc, pass, claims, level, skills)
           IN  /\ Accounts(out, cs)
               /\ Replays(out, doc, level, skills)
               /\ out.raw \in [D -> Value]
<1> DEFINE J     == Ungrounded(pass.applied, claims)
           I     == DOMAIN pass.applied \ J
           kept  == ItemsAt(pass.applied, I)
           gone  == ItemsAt(pass.applied, J)
           again == ApplyVerifyDiff(doc, kept, level, skills)
           named == [i \in DOMAIN gone |-> [change |-> gone[i], reason |-> "truth_validation_failed"]]
           out   == Stripped(doc, pass, claims, level, skills)
<1>1. /\ out.rejected = pass.rejected \o again.rejected \o named
      /\ out.applied = again.applied
      /\ out.raw = again.raw
      /\ out.doc = again.doc
    BY DEF Stripped, ApplyVerifyDiff
<1>2. pass.applied \in Seq(Single) /\ pass.rejected \in Seq(Rejections)
    BY DEF Accounts
<1>3. kept \in Seq(Single) /\ gone \in Seq(Single)
    <2> HIDE DEF I, J
    <2> QED
        BY <1>2, ItemsAtMembers
<1>4. \A K : HowMany(kept, K) + HowMany(gone, K) = HowMany(pass.applied, K)
    <2>1. I \cap J = {} /\ DOMAIN pass.applied \subseteq I \cup J
        OBVIOUS
    <2> HIDE DEF I, J
    <2> QED
        BY <1>2, <2>1, ItemsAtSplits
<1> HIDE DEF I, J, kept, gone, out
<1>5. Single \subseteq Change
    BY DEF Single
<1>6. kept \in Seq(Change) /\ gone \in Seq(Change) /\ ExpandAll(kept) = kept
    BY <1>3, <1>5, SinglesStay
<1>7. Accounts(again, kept) /\ Replays(again, doc, level, skills) /\ again.raw \in [D -> Value]
    BY <1>6, VerifiedPass
<1>8. named \in Seq(Rejections) /\ ChangesOf(named) = gone
    <2>1. DOMAIN gone = 1 .. Len(gone) /\ Len(gone) \in Nat /\ \A i \in DOMAIN gone : gone[i] \in Change
        BY <1>6
    <2>2. \A i \in DOMAIN gone : named[i] \in Rejections /\ named[i].change = gone[i]
        BY <2>1 DEF Rejections, RejectionReason
    <2>3. named \in Seq(Rejections)
        BY <2>1, <2>2
    <2>4. ChangesOf(named) = [i \in DOMAIN gone |-> gone[i]]
        BY <2>2 DEF ChangesOf
    <2>5. gone = [i \in DOMAIN gone |-> gone[i]]
        BY <1>6
    <2> QED
        BY <2>3, <2>4, <2>5, Zenon
<1> HIDE DEF again, named
<1>9. again.applied \in Seq(Single) /\ again.rejected \in Seq(Rejections)
    BY <1>7 DEF Accounts
<1>10. out.rejected \in Seq(Rejections)
    BY <1>1, <1>2, <1>8, <1>9
<1>11. ASSUME NEW K \in SUBSET Change
       PROVE  HowMany(out.applied, K) + HowMany(ChangesOf(out.rejected), K) = HowMany(cs, K)
    <2> DEFINE a == ChangesOf(pass.rejected)
               b == ChangesOf(again.rejected)
    <2>1. a \in Seq(Change) /\ b \in Seq(Change)
        BY <1>2, <1>9, ChangesOfJoins
    <2>2. ChangesOf(out.rejected) = a \o b \o gone
        <3>1. pass.rejected \o again.rejected \in Seq(Rejections)
            BY <1>2, <1>9
        <3>2. ChangesOf(pass.rejected \o again.rejected) = a \o b
            BY <1>2, <1>9, ChangesOfJoins
        <3>3. ChangesOf((pass.rejected \o again.rejected) \o named)
                  = ChangesOf(pass.rejected \o again.rejected) \o ChangesOf(named)
            BY <1>8, <3>1, ChangesOfJoins
        <3> QED
            BY <1>1, <1>8, <3>2, <3>3
    <2> HIDE DEF a, b
    <2>3. HowMany((a \o b) \o gone, K) = HowMany(a, K) + HowMany(b, K) + HowMany(gone, K)
        <3>1. a \o b \in Seq(Change)
            BY <2>1
        <3>2. HowMany((a \o b) \o gone, K) = HowMany(a \o b, K) + HowMany(gone, K)
            BY <1>6, <3>1, HowManyConcat
        <3>3. HowMany(a \o b, K) = HowMany(a, K) + HowMany(b, K)
            BY <2>1, HowManyConcat
        <3> QED
            BY <3>2, <3>3
    <2>4. /\ HowMany(a, K) \in Nat /\ HowMany(b, K) \in Nat /\ HowMany(gone, K) \in Nat
          /\ HowMany(kept, K) \in Nat /\ HowMany(again.applied, K) \in Nat
          /\ HowMany(pass.applied, K) \in Nat
        BY <1>2, <1>6, <1>9, <2>1, HowManyType
    <2>5. HowMany(again.applied, K) + HowMany(b, K) = HowMany(kept, K)
        BY <1>7 DEF Accounts, b
    <2>6. HowMany(pass.applied, K) + HowMany(a, K) = HowMany(cs, K)
        BY DEF Accounts, a
    <2>7. HowMany(kept, K) + HowMany(gone, K) = HowMany(pass.applied, K)
        BY <1>4
    <2>8. HowMany(out.applied, K) = HowMany(again.applied, K)
        BY <1>1
    <2>9. HowMany(ChangesOf(out.rejected), K) = HowMany(a, K) + HowMany(b, K) + HowMany(gone, K)
        BY <2>2, <2>3
    <2> QED
        BY <2>4, <2>5, <2>6, <2>7, <2>8, <2>9
<1>12. Accounts(out, cs)
    BY <1>1, <1>9, <1>10, <1>11 DEF Accounts
<1>13. Replays(out, doc, level, skills)
    BY <1>1, <1>7 DEF Replays
<1> QED
    BY <1>1, <1>7, <1>12, <1>13 DEF out

\* Every entry of an answer is a change or a warning.
LEMMA ParsedEntries ==
    ASSUME NEW r \in ChangeResponses
    PROVE  LET parsed == ParseProposals(r)
           IN  /\ parsed.changes \in Seq(Change)
               /\ r.outcome = "answered" =>
                      Len(parsed.changes) + Len(parsed.warnings) = Len(r.entries)
<1> DEFINE X == Change \cup {Malformed}
           s == r.entries
           J == {i \in DOMAIN s : s[i] = Malformed}
           I == DOMAIN s \ J
           bad == ItemsAt(s, J)
           good == ItemsAt(s, I)
           parsed == ParseProposals(r)
<1>1. /\ r.outcome \in {"failed", "missing", "not_list", "answered"}
      /\ s \in Seq(X)
      /\ Malformed \notin Change
    BY AlignAssumption
<1>2. CASE r.outcome # "answered"
    <2>1. parsed.changes = <<>>
        BY <1>1, <1>2 DEF ParseProposals, NoChanges
    <2> QED
        BY <1>2, <2>1
<1>3. CASE r.outcome = "answered"
    <2>1. /\ parsed.changes = good
          /\ parsed.warnings = [i \in DOMAIN bad |-> "provider_malformed_change"]
        BY <1>1, <1>3 DEF ParseProposals
    <2>2. I \cap J = {} /\ DOMAIN s \subseteq I \cup J /\ {s[i] : i \in DOMAIN s \cap I} \subseteq Change
        BY <1>1
    <2> HIDE DEF I, J, X, s
    <2>3. bad \in Seq(X) /\ good \in Seq(X) /\ ToSet(good) \subseteq Change
        BY <1>1, <2>2, ItemsAtMembers
    <2>4. HowMany(good, X) + HowMany(bad, X) = HowMany(s, X)
        BY <1>1, <2>2, ItemsAtSplits
    <2> HIDE DEF good, bad
    <2>5. good \in Seq(Change)
        BY <2>3 DEF ToSet
    <2>6. Len(good) + Len(bad) = Len(s)
        <3>1. HowMany(good, X) = Len(good) /\ HowMany(bad, X) = Len(bad) /\ HowMany(s, X) = Len(s)
            BY <1>1, <2>3, HowManyAll
        <3> QED
            BY <2>4, <3>1
    <2>7. Len(parsed.warnings) = Len(bad)
        <3>1. DOMAIN bad = 1 .. Len(bad) /\ Len(bad) \in Nat
            BY <2>3
        <3> QED
            BY <2>1, <3>1
    <2> QED
        BY <2>1, <2>5, <2>6, <2>7 DEF s
<1> QED
    BY <1>2, <1>3

Passed == stage \in {"truth", "resolve", "review", "done"}

\* The resume is one of the schema, the answer is read whole, and the pass
\* accounts for every proposal and stands on its applied changes.
PassInv ==
    /\ original \in [DOMAIN original -> Value]
    /\ proposed.changes \in Seq(Change)
    /\ response.outcome = "answered" =>
           Len(proposed.changes) + Len(proposed.warnings) = Len(response.entries)
    /\ Passed => /\ Accounts(passed, ExpandAll(proposed.changes))
                 /\ Replays(passed, original, ClampFreedom(call.freedom), AllowedSkillKeys(plan))
                 /\ passed.raw \in [DOMAIN original -> Value]

LEMMA InitPassInv == Init => PassInv
<1> SUFFICES ASSUME Init PROVE PassInv
    OBVIOUS
<1>1. original \in [DOMAIN original -> Value]
    BY AlignAssumption DEF Init
<1>2. proposed.changes = <<>> /\ response.outcome = "none" /\ stage = "plan"
    BY DEF Init, NoChanges
<1>3. proposed.changes \in Seq(Change)
    BY <1>2
<1> QED
    BY <1>1, <1>2, <1>3 DEF PassInv, Passed

LEMMA NextPassInv == PassInv /\ [Next]_vars => PassInv'
<1> SUFFICES ASSUME PassInv, [Next]_vars PROVE PassInv'
    OBVIOUS
<1> USE DEF PassInv, Passed
<1>1. CASE PlanTargets
    BY <1>1 DEF PlanTargets
<1>2. CASE Generate
    <2>1. CASE UNCHANGED <<response, proposed>>
        BY <1>2, <2>1 DEF Generate
    <2>2. ASSUME NEW r \in ChangeResponses, response' = r, proposed' = ParseProposals(r)
          PROVE  PassInv'
        <3>1. /\ proposed'.changes \in Seq(Change)
              /\ response'.outcome = "answered" =>
                     Len(proposed'.changes) + Len(proposed'.warnings) = Len(response'.entries)
            BY <2>2, ParsedEntries
        <3>2. stage' = "apply" /\ original' = original
            BY <1>2 DEF Generate
        <3> QED
            BY <3>1, <3>2
    <2> QED
        BY <1>2, <2>1, <2>2 DEF Generate
<1>3. CASE Apply
    <2>1. passed' = ApplyVerifyDiff(original, proposed.changes, ClampFreedom(call.freedom),
                                    AllowedSkillKeys(plan))
        BY <1>3 DEF Apply
    <2>2. /\ Accounts(passed', ExpandAll(proposed.changes))
          /\ Replays(passed', original, ClampFreedom(call.freedom), AllowedSkillKeys(plan))
          /\ passed'.raw \in [DOMAIN original -> Value]
        BY <2>1, VerifiedPass
    <2> QED
        BY <1>3, <2>2 DEF Apply
<1>4. CASE ValidateTruth
    BY <1>4 DEF ValidateTruth
<1>5. CASE DeferToHuman
    BY <1>5 DEF DeferToHuman
<1>6. CASE StripUngrounded
    <2>1. /\ passed' = Stripped(original, passed, failing, ClampFreedom(call.freedom),
                                AllowedSkillKeys(plan))
          /\ Accounts(passed, ExpandAll(proposed.changes))
        BY <1>6 DEF StripUngrounded
    <2>2. /\ Accounts(passed', ExpandAll(proposed.changes))
          /\ Replays(passed', original, ClampFreedom(call.freedom), AllowedSkillKeys(plan))
          /\ passed'.raw \in [DOMAIN original -> Value]
        BY <2>1, StrippedPass
    <2> QED
        BY <1>6, <2>2 DEF StripUngrounded
<1>7. CASE BuildReview
    BY <1>7 DEF BuildReview
<1>8. CASE AcceptTerminology
    BY <1>8 DEF AcceptTerminology
<1>9. CASE UNCHANGED vars
    BY <1>9 DEF vars
<1> QED
    BY <1>1, <1>2, <1>3, <1>4, <1>5, <1>6, <1>7, <1>8, <1>9 DEF Next

LEMMA SpecPassInv == Spec => []PassInv
    BY InitPassInv, NextPassInv, PTL DEF Spec

\* Every entry of a provider's answer is applied, rejected or skipped, exactly
\* once, whatever was stripped and applied again.
THEOREM SpecEveryProposalAccounted == Spec => []EveryProposalAccounted
<1>1. PassInv => EveryProposalAccounted
    <2> SUFFICES ASSUME PassInv, stage = "done", response.outcome = "answered"
                 PROVE  /\ Bag(passed.applied \o RejectedChanges) = Bag(ExpandAll(proposed.changes))
                        /\ Len(proposed.changes) + Len(proposed.warnings) = Len(response.entries)
        BY DEF EveryProposalAccounted
    <2> DEFINE cs == ExpandAll(proposed.changes)
               rejected == ChangesOf(passed.rejected)
    <2>1. Accounts(passed, cs) /\ cs \in Seq(Change)
        BY ExpandAllProposes DEF PassInv, Passed
    <2>2. RejectedChanges = rejected
        BY DEF RejectedChanges, ChangesOf
    <2>3. passed.applied \in Seq(Change) /\ passed.rejected \in Seq(Rejections)
        BY <2>1 DEF Accounts, Single
    <2>4. rejected \in Seq(Change)
        BY <2>3, ChangesOfJoins
    <2> HIDE DEF cs, rejected
    <2>5. \A x \in Change : HowMany(passed.applied \o rejected, {x}) = HowMany(cs, {x})
        <3> TAKE x \in Change
        <3>1. HowMany(passed.applied \o rejected, {x})
                  = HowMany(passed.applied, {x}) + HowMany(rejected, {x})
            BY <2>3, <2>4, HowManyConcat
        <3>2. HowMany(passed.applied, {x}) + HowMany(rejected, {x}) = HowMany(cs, {x})
            BY <2>1 DEF Accounts, rejected
        <3> QED
            BY <3>1, <3>2
    <2>6. passed.applied \o rejected \in Seq(Change)
        BY <2>3, <2>4
    <2>7. Bag(passed.applied \o rejected) = Bag(cs)
        BY <2>1, <2>5, <2>6, SameBag
    <2> QED
        BY <2>2, <2>7 DEF cs, PassInv
<1> QED
    BY <1>1, SpecPassInv, PTL

\* The applied changes of a result, and they alone, make the returned resume.
THEOREM SpecAppliedReproducesResult == Spec => []AppliedReproducesResult
<1>1. PassInv => AppliedReproducesResult
    <2> SUFFICES ASSUME PassInv, stage = "done"
                 PROVE  LET replay == ApplyAll(original, passed.applied, ClampFreedom(call.freedom),
                                               AllowedSkillKeys(plan))
                        IN  replay.rejected = <<>> /\ ValidateResume(replay.doc) = passed.doc
        BY DEF AppliedReproducesResult
    <2>1. Replays(passed, original, ClampFreedom(call.freedom), AllowedSkillKeys(plan))
        BY DEF PassInv, Passed
    <2> QED
        BY <2>1 DEF Replays
<1> QED
    BY <1>1, SpecPassInv, PTL

-----------------------------------------------------------------------------
(* Accepting a terminology suggestion.                                      *)

\* Applying one change is one step.
LEMMA ApplyAllOfOne ==
    ASSUME NEW D, NEW doc \in [D -> Value], NEW c \in Single, NEW level, NEW skills
    PROVE  ApplyAll(doc, <<c>>, level, skills)
               = ApplyStep([doc |-> doc, applied |-> <<>>, rejected |-> <<>>], c, level, skills)
<1> DEFINE none == <<>>
<1>1. none \in Seq(Single) /\ Append(none, c) = <<c>>
    OBVIOUS
<1> HIDE DEF none
<1>2. ApplyAll(doc, Append(none, c), level, skills)
          = ApplyStep(ApplyAll(doc, none, level, skills), c, level, skills)
    <2>1. ASSUME NEW s \in Seq(Single)
          PROVE  ApplyAll(doc, Append(s, c), level, skills)
                     = ApplyStep(ApplyAll(doc, s, level, skills), c, level, skills)
        BY ApplyAllAppend
    <2> QED
        BY <1>1, <2>1
<1>3. ApplyAll(doc, none, level, skills) = [doc |-> doc, applied |-> <<>>, rejected |-> <<>>]
    BY ApplyAllOfNone DEF none
<1> QED
    BY <1>1, <1>2, <1>3

\* Swapping a wording makes a text.
LEMMA SwapTermMakesText ==
    ASSUME NEW words \in Seq(Word), NEW current, NEW keyword \in Seq(Word)
    PROVE  SwapTerm(words, current, keyword) \in Seq(Word)
<1> DEFINE part(i) == IF Fold(<<words[i]>>) = Fold(current) THEN keyword ELSE <<words[i]>>
           parts   == [i \in DOMAIN words |-> part(i)]
<1>1. DOMAIN words = 1 .. Len(words) /\ Len(words) \in Nat /\ \A i \in DOMAIN words : words[i] \in Word
    OBVIOUS
<1>2. \A i \in DOMAIN words : part(i) \in Seq(Word)
    BY <1>1
<1> HIDE DEF part
<1>3. parts \in Seq(Seq(Word))
    BY <1>1, <1>2
<1> HIDE DEF parts
<1>4. FlattenSeq(parts) \in Seq(Word)
    BY <1>3, FlattenSeqMembers
<1> QED
    BY <1>4 DEF SwapTerm, parts, part

\* What an accepted change proposes, and what replacing a text by itself does.
LEMMA SwapOutcome ==
    ASSUME NEW D, NEW doc \in [D -> Value], ValidateResume(doc) = doc, NEW s \in Suggestions
    PROVE  LET out == AcceptSuggestion(doc, s)
           IN  /\ out.doc \in [D -> Value]
               /\ ValidateResume(out.doc) = out.doc
               /\ out.swapped => /\ FailingClaims(out.doc) = {}
                                 /\ \A f \in D : f # s.location.field => out.doc[f] = doc[f]
               /\ ~out.swapped => out.doc = doc
<1> DEFINE path  == s.location
           words == FieldText(doc, path)
           c     == TerminologyChange(doc, s)
           level == MinimalFreedom(path)
           r     == ApplyChange(doc, c, level, {})
           pass  == ApplyAll(doc, <<c>>, level, {})
           new   == ValidateResume(pass.doc)
           changed == pass.applied # <<>> /\ Resolves(doc, path) /\ c.original # c.value
           out   == AcceptSuggestion(doc, s)
<1>1. path \in [field : Field, index : Nat] /\ s.keyword \in Seq(Word)
    BY AlignAssumption
<1>2. Resolves(doc, path) => ValueAt(doc, path) \in Value
    <2> SUFFICES ASSUME Resolves(doc, path) PROVE ValueAt(doc, path) \in Value
        OBVIOUS
    <2>1. path.field \in D /\ doc[path.field] \in Value
        BY DEF Resolves
    <2>2. CASE path.index = 0
        BY <2>1, <2>2 DEF ValueAt
    <2>3. CASE path.index # 0
        <3>1. IsList(doc[path.field]) /\ path.index \in DOMAIN doc[path.field].items
            BY <2>3 DEF Resolves
        <3>2. doc[path.field].items \in Seq(Seq(Word))
            BY <2>1, <3>1, ValueForms
        <3>3. doc[path.field].items[path.index] \in Seq(Word)
            BY <3>1, <3>2
        <3> QED
            BY <2>3, <3>3, ValuesMade DEF ValueAt
    <2> QED
        BY <2>2, <2>3
<1>3. words \in Seq(Word)
    BY <1>2, ValueForms DEF FieldText, WordsOf
<1>4. /\ c \in Single
      /\ c.path = path
      /\ c.action = "replace"
      /\ c.original = Text(words)
      /\ IsText(c.value) /\ c.value \in Value
    <2> DEFINE swapped == SwapTerm(words, s.current, s.keyword)
    <2>1. swapped \in Seq(Word)
        BY <1>1, <1>3, SwapTermMakesText
    <2>2. c = [path |-> path, action |-> "replace", original |-> Text(words),
               value |-> Text(swapped), terminology |-> TRUE]
        BY DEF TerminologyChange
    <2> HIDE DEF swapped, words, path
    <2>3. Text(words) \in Value /\ Text(swapped) \in Value /\ IsText(Text(swapped))
        BY <1>3, <2>1, ValuesMade
    <2>4. c \in Change /\ c.action = "replace"
        BY <1>1, <2>2, <2>3 DEF Change, Action
    <2>5. Expand(c) = <<c>>
        BY <2>4 DEF Expand
    <2> HIDE DEF c
    <2> QED
        BY <2>2, <2>3, <2>4, <2>5 DEF Single
<1> HIDE DEF c, level
<1>5. /\ pass.doc = IF r.reason = "allowed" THEN r.doc ELSE doc
      /\ pass.applied = IF r.reason = "allowed" THEN <<c>> ELSE <<>>
    <2> DEFINE st == [doc |-> doc, applied |-> <<>>, rejected |-> <<>>]
    <2>1. pass = ApplyStep(st, c, level, {})
        BY <1>4, ApplyAllOfOne
    <2> HIDE DEF pass
    <2>2. st.doc = doc
        OBVIOUS
    <2>3. pass = IF r.reason = "allowed" THEN [st EXCEPT !.doc = r.doc, !.applied = Append(@, c)]
                 ELSE [st EXCEPT !.rejected = Append(@, [change |-> c, reason |-> r.reason])]
        BY <2>1, <2>2 DEF ApplyStep
    <2> HIDE DEF r
    <2>4. CASE r.reason = "allowed"
        BY <2>3, <2>4
    <2>5. CASE r.reason # "allowed"
        BY <2>3, <2>5
    <2> QED
        BY <2>4, <2>5
<1>6. r.reason = "allowed" => /\ Resolves(doc, path)
                              /\ OriginalMatches(ValueAt(doc, path), c.original)
                              /\ r.doc = SetAt(doc, path, c.value)
    BY <1>4 DEF ApplyChange, Replace, Applied, Rejected
<1> HIDE DEF r, pass, words
<1>7. ASSUME r.reason = "allowed"
      PROVE  /\ r.doc \in [D -> Value]
             /\ \A f \in D : f # path.field => r.doc[f] = doc[f]
             /\ c.original = c.value => r.doc = doc
    <2> DEFINE f == path.field
    <2>1. Resolves(doc, path) /\ OriginalMatches(ValueAt(doc, path), c.original)
          /\ r.doc = SetAt(doc, path, c.value)
        BY <1>6, <1>7
    <2>2. f \in D /\ doc[f] \in Value
        BY <2>1 DEF Resolves
    <2>3. c.value.words \in Seq(Word) /\ Text(words).words = words
        BY <1>3, <1>4, ValueForms, ValuesMade
    <2>4. CASE path.index = 0
        <3>1. r.doc = [doc EXCEPT ![f] = c.value]
            BY <2>1, <2>4 DEF SetAt
        <3>2. IsText(doc[f])
            <4>1. ValueAt(doc, path) = doc[f]
                BY <2>4 DEF ValueAt
            <4>2. c.original # Null
                BY <1>3, <1>4, ValueForms, ValuesMade
            <4> QED
                BY <2>1, <4>1, <4>2 DEF OriginalMatches
        <3>3. c.original = doc[f]
            <4>1. words = doc[f].words
                BY <2>1, <2>4, <3>2 DEF words, FieldText, WordsOf, ValueAt
            <4>2. doc[f] = Text(doc[f].words)
                BY <2>2, <3>2 DEF Value, IsText, Text, Null
            <4> QED
                BY <1>4, <4>1, <4>2
        <3> HIDE DEF f
        <3> QED
            BY <1>4, <2>2, <3>1, <3>3 DEF f
    <2>5. CASE path.index # 0
        <3> DEFINE items == doc[f].items
                   i     == path.index
        <3>1. IsList(doc[f]) /\ i \in DOMAIN items
            BY <2>1, <2>5 DEF Resolves
        <3>2. doc[f] = List(items) /\ items \in Seq(Seq(Word))
            BY <2>2, <3>1 DEF Value, IsList, List, Null
        <3>3. r.doc = [doc EXCEPT ![f].items[i] = c.value.words]
            BY <2>1, <2>5 DEF SetAt
        <3>4. words = items[i]
            <4>1. ValueAt(doc, path) = Text(items[i])
                BY <2>5 DEF ValueAt
            <4>2. items[i] \in Seq(Word)
                BY <3>1, <3>2
            <4> QED
                BY <2>1, <4>1, <4>2, ValuesMade DEF words, FieldText, WordsOf
        <3> DEFINE its == [items EXCEPT ![i] = c.value.words]
        <3>5. its \in Seq(Seq(Word))
            BY <2>3, <3>1, <3>2
        <3>6. c.value.words = items[i] => its = items
            BY <3>1, <3>2
        <3>7. r.doc = [doc EXCEPT ![f] = [doc[f] EXCEPT !.items = its]]
            BY <3>3
        <3>8. [doc[f] EXCEPT !.items = its] = List(its)
            <4> HIDE DEF its, items
            <4>1. [List(items) EXCEPT !.items = its] = List(its)
                BY DEF List
            <4> QED
                BY <3>2, <4>1
        <3> HIDE DEF its, items, f
        <3>9. List(its) \in Value
            BY <3>5, ValuesMade
        <3>10. r.doc = [doc EXCEPT ![f] = List(its)]
            BY <3>7, <3>8
        <3>11. c.original = c.value => its = items
            BY <1>4, <2>3, <3>4, <3>6
        <3>12. c.original = c.value => List(its) = doc[f]
            BY <3>2, <3>11
        <3> QED
            BY <2>2, <3>9, <3>10, <3>12 DEF f
    <2> QED
        BY <2>4, <2>5
<1>8. /\ pass.doc \in [D -> Value]
      /\ \A f \in D : f # path.field => pass.doc[f] = doc[f]
      /\ ~changed => pass.doc = doc
    <2>1. CASE r.reason = "allowed"
        <3>1. pass.applied # <<>> /\ Resolves(doc, path)
            BY <1>5, <1>6, <2>1
        <3> HIDE DEF path
        <3> QED
            BY <1>5, <1>7, <2>1, <3>1
    <2>2. CASE r.reason # "allowed"
        BY <1>5, <2>2
    <2> QED
        BY <2>1, <2>2
<1>9. /\ new \in [D -> Value]
      /\ ValidateResume(new) = new
      /\ \A f \in D : f # path.field => new[f] = doc[f]
      /\ ~changed => new = doc
    <2>1. new \in [D -> Value] /\ ValidateResume(new) = new
        BY <1>8, ValidateAddsNothing, ValidateTwice
    <2>2. ~changed => new = doc
        BY <1>8
    <2>3. ASSUME NEW f \in D, f # path.field
          PROVE  new[f] = doc[f]
        <3>1. ValidateResume(doc)[f] = Coerce(f, doc[f]) /\ new[f] = Coerce(f, pass.doc[f])
            BY <1>8 DEF ValidateResume
        <3> QED
            BY <1>8, <2>3, <3>1
    <2> HIDE DEF new, changed
    <2> QED
        BY <2>1, <2>2, <2>3
<1>10. out = IF changed /\ FailingClaims(new) # {} THEN NoSwap(doc)
             ELSE [applied |-> pass.applied, doc |-> new, swapped |-> changed]
    BY DEF AcceptSuggestion, c, level, pass
<1> HIDE DEF out, changed, new, path
<1>11. CASE changed /\ FailingClaims(new) # {}
    <2>1. out.doc = doc /\ out.swapped = FALSE
        BY <1>10, <1>11 DEF NoSwap
    <2> QED
        BY <2>1 DEF out
<1>12. CASE ~(changed /\ FailingClaims(new) # {})
    <2>1. out.doc = new /\ out.swapped = changed
        BY <1>10, <1>12
    <2> QED
        BY <1>9, <1>12, <2>1 DEF out, path
<1> QED
    BY <1>11, <1>12

\* The resume suggestions are accepted into is a validated one.
SwapInv ==
    stage = "done" => /\ swap.doc \in [DOMAIN original -> Value]
                      /\ ValidateResume(swap.doc) = swap.doc

LEMMA NextSwapInv == PassInv /\ SwapInv /\ [Next]_vars => SwapInv'
<1> SUFFICES ASSUME PassInv, SwapInv, [Next]_vars PROVE SwapInv'
    OBVIOUS
<1>1. CASE BuildReview
    <2>1. passed.raw \in [DOMAIN original -> Value] /\ passed.doc = ValidateResume(passed.raw)
        BY <1>1 DEF PassInv, Passed, BuildReview, Replays
    <2>2. passed.doc \in [DOMAIN original -> Value] /\ ValidateResume(passed.doc) = passed.doc
        BY <2>1, ValidateAddsNothing, ValidateTwice
    <2>3. swap'.doc = passed.doc /\ original' = original
        BY <1>1 DEF BuildReview, NoSwap
    <2> QED
        BY <2>2, <2>3 DEF SwapInv
<1>2. CASE AcceptTerminology
    <2>1. PICK s \in Suggestions : swap' = AcceptSuggestion(swap.doc, s)
        BY <1>2 DEF AcceptTerminology
    <2>2. swap.doc \in [DOMAIN original -> Value] /\ ValidateResume(swap.doc) = swap.doc
        BY <1>2 DEF AcceptTerminology, SwapInv
    <2>3. swap'.doc \in [DOMAIN original -> Value] /\ ValidateResume(swap'.doc) = swap'.doc
        BY <2>1, <2>2, SwapOutcome
    <2> QED
        BY <1>2, <2>3 DEF AcceptTerminology, SwapInv
<1>3. CASE UNCHANGED vars
    BY <1>3 DEF vars, SwapInv
<1>4. CASE \/ PlanTargets
           \/ Generate
           \/ Apply
           \/ ValidateTruth
           \/ DeferToHuman
           \/ StripUngrounded
    <2>1. stage' # "done"
        BY <1>4 DEF PlanTargets, Generate, Apply, ValidateTruth, DeferToHuman, StripUngrounded
    <2> QED
        BY <2>1 DEF SwapInv
<1> QED
    BY <1>1, <1>2, <1>3, <1>4 DEF Next

LEMMA SpecSwapInv == Spec => [](PassInv /\ SwapInv)
<1>1. Init => SwapInv
    BY DEF Init, SwapInv
<1> QED
    BY <1>1, InitPassInv, NextPassInv, NextSwapInv, PTL DEF Spec

\* An accepted terminology suggestion leaves no ungrounded claim and touches nothing
\* but its own location; a refused one, or one that swaps nothing, changes nothing.
THEOREM SpecSwapIsSafe == Spec => SwapIsSafe
<1> DEFINE Safe == stage = "done" =>
              /\ swap'.swapped =>
                    /\ FailingClaims(swap'.doc) = {}
                    /\ \E s \in Suggestions : \A f \in DOMAIN original :
                          f # s.location.field => swap'.doc[f] = swap.doc[f]
              /\ ~swap'.swapped => swap'.doc = swap.doc
<1>1. PassInv /\ SwapInv /\ [Next]_vars => [Safe]_swap
    <2> SUFFICES ASSUME PassInv, SwapInv, [Next]_vars, stage = "done", swap' # swap
                 PROVE  Safe
        OBVIOUS
    <2>1. AcceptTerminology
        BY DEF Next, PlanTargets, Generate, Apply, ValidateTruth, DeferToHuman, StripUngrounded,
               BuildReview, vars
    <2>2. PICK s \in Suggestions : swap' = AcceptSuggestion(swap.doc, s)
        BY <2>1 DEF AcceptTerminology
    <2>3. swap.doc \in [DOMAIN original -> Value] /\ ValidateResume(swap.doc) = swap.doc
        BY DEF SwapInv
    <2>4. /\ swap'.swapped => /\ FailingClaims(swap'.doc) = {}
                              /\ \A f \in DOMAIN original :
                                    f # s.location.field => swap'.doc[f] = swap.doc[f]
          /\ ~swap'.swapped => swap'.doc = swap.doc
        BY <2>2, <2>3, SwapOutcome
    <2> QED
        BY <2>4
<1> QED
    BY <1>1, SpecSwapInv, PTL DEF Spec, SwapIsSafe

-----------------------------------------------------------------------------
(* What the planner of skills accepts.                                      *)

\* A block of a text is mentioned in it, under every spelling.
LEMMA BlocksAreMentioned ==
    ASSUME NEW w \in Seq(Word), NEW text \in Seq(Word), Inside(w, text),
           NEW words \in Seq(Word), words # <<>>, Fold(words) = Fold(w)
    PROVE  Mentioned(words, text)
<1>1. Len(w) \in Nat /\ Len(text) \in Nat /\ Len(words) \in Nat
    OBVIOUS
<1>2. Len(words) = Len(w)
    <2>1. DOMAIN words = 1 .. Len(words) /\ DOMAIN w = 1 .. Len(w)
        OBVIOUS
    <2>2. DOMAIN words = DOMAIN w
        BY DEF Fold
    <2>3. Len(words) <= Len(w)
        <3>1. Len(words) > Len(w) => Len(words) \in DOMAIN words /\ Len(words) \notin DOMAIN w
            BY <1>1, <2>1
        <3> QED
            BY <1>1, <2>2, <3>1
    <2>4. Len(w) <= Len(words)
        <3>1. Len(w) > Len(words) => Len(w) \in DOMAIN w /\ Len(w) \notin DOMAIN words
            BY <1>1, <2>1
        <3> QED
            BY <1>1, <2>2, <3>1
    <2> QED
        BY <1>1, <2>3, <2>4
<1>3. PICK p \in Nat : p + Len(w) <= Len(text) /\ \A k \in 1 .. Len(w) : text[p + k] = w[k]
    BY DEF Inside
<1>4. p \in 0 .. Len(text) - Len(words)
    BY <1>1, <1>2, <1>3
<1> DEFINE part == SubSeq(text, p + 1, p + Len(words))
<1>5. part = w
    <2>1. /\ part \in Seq(Word)
          /\ Len(part) = Len(w)
          /\ \A k \in 1 .. Len(w) : part[k] = text[(p + 1) + k - 1]
        BY <1>1, <1>2, <1>3
    <2>2. \A k \in 1 .. Len(w) : part[k] = w[k]
        <3> TAKE k \in 1 .. Len(w)
        <3>1. (p + 1) + k - 1 = p + k
            BY <1>3
        <3> HIDE DEF part
        <3> QED
            BY <1>3, <2>1, <3>1
    <2> HIDE DEF part
    <2>3. part \in Seq(Word) /\ Len(part) = Len(w)
        BY <2>1
    <2> QED
        BY <2>2, <2>3
<1>6. Fold(part) = Fold(words)
    BY <1>5, Zenon
<1> QED
    BY <1>4, <1>6 DEF Mentioned

\* The fields a resume has, in the order of the document.
LEMMA FieldsOfResume ==
    ASSUME NEW doc
    PROVE  /\ FieldsOf(doc) \in Seq(Field)
           /\ ToSet(FieldsOf(doc)) = Field \cap DOMAIN doc
<1> DEFINE I == {i \in DOMAIN FieldOrder : FieldOrder[i] \in DOMAIN doc}
<1>1. FieldOrder \in Seq(Field) /\ Field = {FieldOrder[i] : i \in DOMAIN FieldOrder}
    BY EvidenceAssumption DEF ToSet
<1>2. ItemsAt(FieldOrder, I) \in Seq(Field)
      /\ ToSet(ItemsAt(FieldOrder, I)) = {FieldOrder[i] : i \in DOMAIN FieldOrder \cap I}
    <2> HIDE DEF I
    <2> QED
        BY <1>1, ItemsAtMembers
<1>3. {FieldOrder[i] : i \in DOMAIN FieldOrder \cap I} = Field \cap DOMAIN doc
    BY <1>1
<1> QED
    BY <1>2, <1>3 DEF FieldsOf

\* The items of a list field are those of the list that are not blank.
LEMMA ItemsOfValue ==
    ASSUME NEW v \in Value
    PROVE  /\ ItemsOf(v) \in Seq(Seq(Word))
           /\ IsList(v) => ToSet(ItemsOf(v)) = {w \in ToSet(v.items) : w # <<>>}
           /\ ~IsList(v) => ItemsOf(v) = <<>>
<1>1. CASE IsList(v)
    <2> DEFINE s == v.items
               I == {i \in DOMAIN s : s[i] # <<>>}
    <2>1. s \in Seq(Seq(Word)) /\ ItemsOf(v) = ItemsAt(s, I)
        BY <1>1, ValueForms DEF ItemsOf, NonEmptyItems
    <2>2. {s[i] : i \in DOMAIN s \cap I} = {w \in ToSet(s) : w # <<>>}
        BY DEF ToSet
    <2> HIDE DEF s, I
    <2>3. ItemsAt(s, I) \in Seq(Seq(Word)) /\ ToSet(ItemsAt(s, I)) = {s[i] : i \in DOMAIN s \cap I}
        BY <2>1, ItemsAtMembers
    <2> QED
        BY <1>1, <2>1, <2>2, <2>3 DEF s
<1>2. CASE ~IsList(v)
    BY <1>2 DEF ItemsOf
<1> QED
    BY <1>1, <1>2

\* An item of the resume stands in the text of the whole resume.
LEMMA ItemsInWholeText ==
    ASSUME NEW D \in SUBSET Field, NEW doc \in [D -> Value],
           NEW f \in D, IsList(doc[f]), NEW w \in ToSet(doc[f].items)
    PROVE  WholeText(doc) \in Seq(Word) /\ Inside(w, WholeText(doc))
<1> DEFINE TextOf(g) == IF IsText(doc[g]) THEN doc[g].words
                        ELSE IF IsList(doc[g]) THEN FlattenSeq(doc[g].items) ELSE <<>>
           fs   == FieldsOf(doc)
           seqs == [i \in DOMAIN fs |-> TextOf(fs[i])]
<1>1. fs \in Seq(Field) /\ ToSet(fs) = D
    BY FieldsOfResume
<1>2. WholeText(doc) = FlattenSeq(seqs)
    BY DEF WholeText
<1> HIDE DEF fs
<1>3. ASSUME NEW g \in D PROVE TextOf(g) \in Seq(Word)
    <2>1. CASE IsText(doc[g])
        BY <2>1, ValueForms
    <2>2. CASE IsList(doc[g])
        <3>1. doc[g].items \in Seq(Seq(Word)) /\ ~IsText(doc[g])
            BY <2>2, ValueForms
        <3>2. FlattenSeq(doc[g].items) \in Seq(Word)
            BY <3>1, FlattenSeqMembers
        <3> QED
            BY <2>2, <3>1, <3>2
    <2>3. CASE ~IsText(doc[g]) /\ ~IsList(doc[g])
        BY <2>3
    <2> QED
        BY <2>1, <2>2, <2>3
<1>4. doc[f].items \in Seq(Seq(Word)) /\ TextOf(f) = FlattenSeq(doc[f].items)
    BY ValueForms
<1> HIDE DEF TextOf
<1>5. DOMAIN fs = 1 .. Len(fs) /\ Len(fs) \in Nat /\ \A i \in DOMAIN fs : fs[i] \in D
    BY <1>1 DEF ToSet
<1>6. seqs \in Seq(Seq(Word)) /\ DOMAIN seqs = DOMAIN fs
    BY <1>3, <1>5
<1>7. PICK j \in DOMAIN fs : fs[j] = f
    BY <1>1 DEF ToSet
<1>8. seqs[j] = TextOf(f)
    BY <1>7
<1> HIDE DEF seqs
<1>9. Inside(TextOf(f), FlattenSeq(seqs)) /\ FlattenSeq(seqs) \in Seq(Word)
    <2>1. j \in DOMAIN seqs
        BY <1>6, <1>7
    <2>2. Inside(seqs[j], FlattenSeq(seqs))
        BY <1>6, <2>1, FlattenSeqBlocks
    <2>3. FlattenSeq(seqs) \in Seq(Word)
        BY <1>6, FlattenSeqMembers
    <2> QED
        BY <1>8, <2>2, <2>3
<1>10. w \in Seq(Word) /\ Inside(w, TextOf(f))
    <2>1. PICK k \in DOMAIN doc[f].items : doc[f].items[k] = w
        BY DEF ToSet
    <2>2. Inside(doc[f].items[k], FlattenSeq(doc[f].items))
        BY <1>4, FlattenSeqBlocks
    <2> QED
        BY <1>4, <2>1, <2>2
<1>11. Inside(w, FlattenSeq(seqs))
    <2>1. TextOf(f) \in Seq(Word)
        BY <1>3
    <2> QED
        BY <1>9, <1>10, <2>1, InsideIsTransitive
<1> QED
    BY <1>2, <1>9, <1>11

\* A skill the resume lists, or mentions, the job asks for or the evidence backs.
HasASource(words, doc, aim, records) ==
    \/ Fold(words) \in JobSkillKeys(aim)
    \/ Mentioned(words, WholeText(doc))
    \/ \E ev \in records : Mentioned(words, ev.content)

LEMMA SourcesAreReal ==
    ASSUME NEW D \in SUBSET Field, NEW doc \in [D -> Value], NEW aim, NEW records,
           NEW words \in Seq(Word), words # <<>>,
           TargetSource(words, doc, aim, records) # "unsupported"
    PROVE  HasASource(words, doc, aim, records)
<1>1. CASE Fold(words) \in ItemKeys(doc, SkillFields)
    <2>1. PICK f \in SkillFields \cap D : \E w \in ToSet(ItemsOf(doc[f])) : Fold(words) = Fold(w)
        BY <1>1 DEF ItemKeys
    <2>2. PICK w \in ToSet(ItemsOf(doc[f])) : Fold(words) = Fold(w)
        BY <2>1
    <2>3. doc[f] \in Value /\ f \in D
        BY <2>1
    <2>4. IsList(doc[f]) /\ w \in ToSet(doc[f].items)
        <3>1. ToSet(<<>>) = {}
            BY DEF ToSet
        <3> QED
            BY <2>2, <2>3, <3>1, ItemsOfValue
    <2>5. WholeText(doc) \in Seq(Word) /\ Inside(w, WholeText(doc))
        BY <2>3, <2>4, ItemsInWholeText
    <2>6. w \in Seq(Word)
        BY <2>3, <2>4, ValueForms DEF ToSet
    <2>7. Mentioned(words, WholeText(doc))
        BY <2>2, <2>5, <2>6, BlocksAreMentioned
    <2> QED
        BY <2>7 DEF HasASource
<1>2. CASE Fold(words) \notin ItemKeys(doc, SkillFields)
    BY <1>2 DEF TargetSource, HasASource, EvidenceBacks
<1> QED
    BY <1>1, <1>2

\* One target of the planner.
JudgeStep(st, words, doc, aim, records) ==
    LET source == TargetSource(words, doc, aim, records)
    IN  IF words = <<>> THEN st
        ELSE IF Fold(words) \in st.seen
        THEN [st EXCEPT !.plan.rejected = Append(@, Rejection(words, "duplicate_skill"))]
        ELSE [seen |-> st.seen \cup {Fold(words)},
              plan |-> IF source = "unsupported"
                       THEN [st.plan EXCEPT !.rejected =
                                Append(@, Rejection(words, "unsupported_skill"))]
                       ELSE [st.plan EXCEPT !.accepted = Append(@, Target(words, source))]]

Sourced(doc, aim, records) == {w \in Seq(Word) : HasASource(w, doc, aim, records)}

Plans(doc, aim, records) ==
    [accepted : Seq([words : Sourced(doc, aim, records),
                     source : {"existing", "jd_added", "supported_by_resume", "evidence_backed"}]),
     rejected : Seq([words : Seq(Word), reason : {"duplicate_skill", "unsupported_skill"}])]

Judged(doc, aim, records) ==
    [seen : SUBSET {Fold(w) : w \in Seq(Word)}, plan : Plans(doc, aim, records)]

LEMMA JudgeStepType ==
    ASSUME NEW D \in SUBSET Field, NEW doc \in [D -> Value], NEW aim, NEW records,
           NEW st \in Judged(doc, aim, records), NEW words \in Seq(Word)
    PROVE  JudgeStep(st, words, doc, aim, records) \in Judged(doc, aim, records)
<1> DEFINE source == TargetSource(words, doc, aim, records)
           good   == Sourced(doc, aim, records)
           P      == Plans(doc, aim, records)
           A      == [words : good,
                      source : {"existing", "jd_added", "supported_by_resume", "evidence_backed"}]
           R      == [words : Seq(Word), reason : {"duplicate_skill", "unsupported_skill"}]
           keys   == {Fold(w) : w \in Seq(Word)}
<1>1. st = [seen |-> st.seen, plan |-> st.plan] /\ st.seen \in SUBSET keys /\ st.plan \in P
    BY DEF Judged
<1>2. /\ st.plan = [accepted |-> st.plan.accepted, rejected |-> st.plan.rejected]
      /\ st.plan.accepted \in Seq(A)
      /\ st.plan.rejected \in Seq(R)
    BY <1>1 DEF Plans
<1>3. ASSUME NEW a \in Seq(A), NEW r \in Seq(R)
      PROVE  [accepted |-> a, rejected |-> r] \in P
    BY <1>3 DEF Plans
<1>4. ASSUME NEW s \in SUBSET keys, NEW p \in P
      PROVE  [seen |-> s, plan |-> p] \in Judged(doc, aim, records)
    BY <1>4 DEF Judged
<1>5. Fold(words) \in keys
    OBVIOUS
<1>6. /\ Append(st.plan.rejected, Rejection(words, "duplicate_skill")) \in Seq(R)
      /\ Append(st.plan.rejected, Rejection(words, "unsupported_skill")) \in Seq(R)
    <2>1. Rejection(words, "duplicate_skill") \in R /\ Rejection(words, "unsupported_skill") \in R
        BY DEF Rejection
    <2> HIDE DEF R
    <2> QED
        BY <1>2, <2>1
<1>7. words # <<>> /\ source # "unsupported" =>
          Append(st.plan.accepted, Target(words, source)) \in Seq(A)
    <2> SUFFICES ASSUME words # <<>>, source # "unsupported"
                 PROVE  Append(st.plan.accepted, Target(words, source)) \in Seq(A)
        OBVIOUS
    <2>1. words \in good
        BY SourcesAreReal DEF Sourced
    <2>2. source \in {"existing", "jd_added", "supported_by_resume", "evidence_backed"}
        BY DEF TargetSource
    <2> HIDE DEF source, good
    <2>3. Target(words, source) \in A
        BY <2>1, <2>2 DEF Target
    <2> HIDE DEF A
    <2> QED
        BY <1>2, <2>3
<1> HIDE DEF keys, A, R, P, good
<1> DEFINE acc == st.plan.accepted
           rej == st.plan.rejected
<1>13. st = [seen |-> st.seen, plan |-> [accepted |-> acc, rejected |-> rej]]
       /\ st.plan = [accepted |-> acc, rejected |-> rej]
    <2>1. st.plan = [accepted |-> acc, rejected |-> rej]
        BY <1>2
    <2> QED
        BY <1>1, <2>1, Zenon
<1> HIDE DEF acc, rej
<1>8. JudgeStep(st, words, doc, aim, records) =
        IF words = <<>> THEN st
        ELSE IF Fold(words) \in st.seen
        THEN [st EXCEPT !.plan.rejected = Append(@, Rejection(words, "duplicate_skill"))]
        ELSE [seen |-> st.seen \cup {Fold(words)},
              plan |-> IF source = "unsupported"
                       THEN [st.plan EXCEPT !.rejected =
                                Append(@, Rejection(words, "unsupported_skill"))]
                       ELSE [st.plan EXCEPT !.accepted = Append(@, Target(words, source))]]
    BY DEF JudgeStep
<1> HIDE DEF source
<1>9. CASE words = <<>>
    BY <1>8, <1>9
<1>10. CASE words # <<>> /\ Fold(words) \in st.seen
    <2> DEFINE x == Append(rej, Rejection(words, "duplicate_skill"))
    <2>1. JudgeStep(st, words, doc, aim, records) = [st EXCEPT !.plan.rejected = x]
        BY <1>8, <1>10 DEF rej
    <2>2. x \in Seq(R) /\ acc \in Seq(A)
        BY <1>2, <1>6 DEF acc, rej
    <2> HIDE DEF x
    <2>3. [st EXCEPT !.plan.rejected = x]
              = [seen |-> st.seen, plan |-> [accepted |-> acc, rejected |-> x]]
        <3>1. [[seen |-> st.seen, plan |-> [accepted |-> acc, rejected |-> rej]] EXCEPT !.plan.rejected = x]
                  = [seen |-> st.seen, plan |-> [accepted |-> acc, rejected |-> x]]
            OBVIOUS
        <3> QED
            BY <1>13, <3>1, Zenon
    <2>4. [accepted |-> acc, rejected |-> x] \in P
        BY <1>3, <2>2
    <2> DEFINE q == [accepted |-> acc, rejected |-> x]
    <2>5. JudgeStep(st, words, doc, aim, records) = [seen |-> st.seen, plan |-> q]
        BY <2>1, <2>3
    <2> HIDE DEF q
    <2>6. q \in P
        BY <2>4 DEF q
    <2> QED
        BY <1>1, <1>4, <2>5, <2>6
<1>11. CASE words # <<>> /\ Fold(words) \notin st.seen /\ source = "unsupported"
    <2> DEFINE x == Append(rej, Rejection(words, "unsupported_skill"))
               p == [st.plan EXCEPT !.rejected = x]
    <2>1. JudgeStep(st, words, doc, aim, records) = [seen |-> st.seen \cup {Fold(words)}, plan |-> p]
        BY <1>8, <1>11 DEF rej
    <2>2. x \in Seq(R) /\ acc \in Seq(A)
        BY <1>2, <1>6 DEF acc, rej
    <2> HIDE DEF x
    <2>3. p = [accepted |-> acc, rejected |-> x]
        <3>1. [[accepted |-> acc, rejected |-> rej] EXCEPT !.rejected = x] = [accepted |-> acc, rejected |-> x]
            OBVIOUS
        <3> QED
            BY <1>13, <3>1, Zenon
    <2> HIDE DEF p
    <2>4. p \in P
        BY <1>3, <2>2, <2>3
    <2>5. st.seen \cup {Fold(words)} \in SUBSET keys
        BY <1>1, <1>5
    <2> QED
        BY <1>4, <2>1, <2>4, <2>5
<1>12. CASE words # <<>> /\ Fold(words) \notin st.seen /\ source # "unsupported"
    <2> DEFINE x == Append(acc, Target(words, source))
               p == [st.plan EXCEPT !.accepted = x]
    <2>1. JudgeStep(st, words, doc, aim, records) = [seen |-> st.seen \cup {Fold(words)}, plan |-> p]
        BY <1>8, <1>12 DEF acc
    <2>2. x \in Seq(A) /\ rej \in Seq(R)
        BY <1>2, <1>7, <1>12 DEF acc, rej
    <2> HIDE DEF x
    <2>3. p = [accepted |-> x, rejected |-> rej]
        <3>1. [[accepted |-> acc, rejected |-> rej] EXCEPT !.accepted = x] = [accepted |-> x, rejected |-> rej]
            OBVIOUS
        <3> QED
            BY <1>13, <3>1, Zenon
    <2> HIDE DEF p
    <2>4. p \in P
        BY <1>3, <2>2, <2>3
    <2>5. st.seen \cup {Fold(words)} \in SUBSET keys
        BY <1>1, <1>5
    <2> QED
        BY <1>4, <2>1, <2>4, <2>5
<1> QED
    BY <1>9, <1>10, <1>11, <1>12

\* The planner accepts only skills with a source, whatever a provider names.
LEMMA PlannedAreSourced ==
    ASSUME NEW D \in SUBSET Field, NEW doc \in [D -> Value], NEW aim, NEW records,
           NEW raw \in Seq(Seq(Word))
    PROVE  VerifySkillTargetPlan(raw, doc, aim, records) \in Plans(doc, aim, records)
<1> DEFINE n == Len(raw)
           X == Judged(doc, aim, records)
           base == [seen |-> {}, plan |-> NoPlan]
           F == [p \in X \X (1 .. n) |-> JudgeStep(p[1], raw[p[2]], doc, aim, records)]
           Folds(f) == f = [S \in SUBSET DOMAIN raw |->
                            IF S = {} THEN base
                            ELSE JudgeStep(f[S \ {Max(S)}], raw[Max(S)], doc, aim, records)]
           C == CHOOSE f : Folds(f)
           h == [i \in 0 .. n |-> C[1 .. i]]
<1>1. n \in Nat /\ DOMAIN raw = 1 .. n /\ \A i \in 1 .. n : raw[i] \in Seq(Word)
    OBVIOUS
<1> HIDE DEF n
<1>2. base \in X
    BY DEF Judged, Plans, NoPlan
<1>3. PICK f : RecursesOver(f, n, X, base, F)
    <2>1. F \in [X \X (1 .. n) -> X]
        BY <1>1, JudgeStepType
    <2> HIDE DEF F, X, base
    <2> QED
        BY <1>1, <1>2, <2>1, FoldRecursion
<1>4. Folds(f)
    <2> HIDE DEF X, base
    <2>1. \A S \in SUBSET (1 .. n) :
              f[S] = IF S = {} THEN base
                     ELSE JudgeStep(f[S \ {Max(S)}], raw[Max(S)], doc, aim, records)
        <3> TAKE S \in SUBSET (1 .. n)
        <3>1. CASE S = {}
            BY <1>3, <3>1 DEF RecursesOver
        <3>2. CASE S # {}
            <4>1. Max(S) \in 1 .. n
                BY <1>1, <3>2, MaxOfIndexes
            <4>2. f[S \ {Max(S)}] \in X /\ f[S] = F[<<f[S \ {Max(S)}], Max(S)>>]
                <5> HIDE DEF F
                <5> QED
                    BY <1>3, <3>2 DEF RecursesOver
            <4> QED
                BY <3>2, <4>1, <4>2
        <3> QED
            BY <3>1, <3>2
    <2>2. f = [S \in SUBSET (1 .. n) |-> f[S]]
        <3> HIDE DEF F
        <3> QED
            BY <1>3 DEF RecursesOver
    <2> QED
        BY <1>1, <2>1, <2>2
<1>5. Folds(C)
    <2> HIDE DEF Folds
    <2> QED
        BY <1>4
<1>6. h[0] = base /\ \A i \in 1 .. n : h[i] = JudgeStep(h[i - 1], raw[i], doc, aim, records)
    <2> HIDE DEF C, base
    <2>1. 1 .. 0 = {} /\ 0 \in 0 .. n
        BY <1>1
    <2>2. \A i \in 1 .. n : C[1 .. i] = JudgeStep(C[1 .. (i - 1)], raw[i], doc, aim, records)
        <3> TAKE i \in 1 .. n
        <3>1. /\ 1 .. i \in SUBSET DOMAIN raw
              /\ 1 .. i # {}
              /\ Max(1 .. i) = i
              /\ (1 .. i) \ {Max(1 .. i)} = 1 .. (i - 1)
            BY <1>1, UpTo
        <3> QED
            BY <1>5, <3>1
    <2>3. \A i \in 1 .. n : i \in 0 .. n /\ i - 1 \in 0 .. n
        BY <1>1
    <2> QED
        BY <1>1, <1>5, <2>1, <2>2, <2>3
<1>7. VerifySkillTargetPlan(raw, doc, aim, records) = h[n].plan
    <2>1. VerifySkillTargetPlan(raw, doc, aim, records) = C[DOMAIN raw].plan
        BY DEF VerifySkillTargetPlan, FoldLeft, MapThenFoldSet, JudgeStep
    <2>2. n \in 0 .. n
        BY <1>1
    <2> HIDE DEF C
    <2> QED
        BY <1>1, <2>1, <2>2
<1> HIDE DEF h
<1>8. \A i \in 0 .. n : h[i] \in X
    <2>1. h[0] \in X
        BY <1>2, <1>6
    <2>2. \A i \in 1 .. n : h[i - 1] \in X => h[i] \in X
        BY <1>1, <1>6, JudgeStepType
    <2> HIDE DEF X
    <2> QED
        BY <1>1, <2>1, <2>2, RunStays
<1>9. h[n] \in X
    BY <1>1, <1>8
<1> QED
    BY <1>7, <1>9 DEF Judged

\* The plan of a call is one the planner makes of its resume, job and evidence.
PlanInv ==
    /\ DOMAIN original \subseteq Field
    /\ original \in [DOMAIN original -> Value]
    /\ plan \in Plans(original, job, EvidenceSet)

LEMMA InitPlanInv == Init => PlanInv
<1> SUFFICES ASSUME Init PROVE PlanInv
    OBVIOUS
<1>1. DOMAIN original \subseteq Field /\ original \in [DOMAIN original -> Value]
    BY AlignAssumption DEF Init
<1>2. plan = NoPlan
    BY DEF Init
<1> QED
    BY <1>1, <1>2 DEF PlanInv, Plans, NoPlan

LEMMA NextPlanInv == PlanInv /\ [Next]_vars => PlanInv'
<1> SUFFICES ASSUME PlanInv, [Next]_vars PROVE PlanInv'
    OBVIOUS
<1>1. original' = original /\ job' = job /\ EvidenceSet' = EvidenceSet
    BY DEF Next, PlanTargets, Generate, Apply, ValidateTruth, DeferToHuman, StripUngrounded,
           BuildReview, AcceptTerminology, vars, EvidenceSet
<1>2. plan' \in Plans(original, job, EvidenceSet)
    <2>1. CASE PlanTargets
        <3>1. CASE plan' = NoPlan
            BY <3>1 DEF Plans, NoPlan
        <3>2. ASSUME NEW r \in PlanResponses, plan' = SkillTargetPlan(r, original, job, EvidenceSet)
              PROVE  plan' \in Plans(original, job, EvidenceSet)
            <4> DEFINE raw == IF r.outcome = "answered" THEN r.targets ELSE <<>>
            <4>1. raw \in Seq(Seq(Word))
                BY AlignAssumption
            <4>2. plan' = VerifySkillTargetPlan(raw, original, job, EvidenceSet)
                BY <3>2 DEF SkillTargetPlan
            <4> HIDE DEF raw
            <4> QED
                BY <4>1, <4>2, PlannedAreSourced DEF PlanInv
        <3> QED
            BY <2>1, <3>1, <3>2 DEF PlanTargets
    <2>2. CASE ~PlanTargets
        <3>1. plan' = plan
            BY <2>2 DEF Next, Generate, Apply, ValidateTruth, DeferToHuman, StripUngrounded,
                        BuildReview, AcceptTerminology, vars
        <3> QED
            BY <3>1 DEF PlanInv
    <2> QED
        BY <2>1, <2>2
<1> QED
    BY <1>1, <1>2 DEF PlanInv

\* A skill the planner let the engine add is one the job asks for, or the resume or
\* the evidence speaks of; a provider alone brings none in.
THEOREM SpecPlannedSkillsHaveASource == Spec => []PlannedSkillsHaveASource
<1>1. PlanInv => PlannedSkillsHaveASource
    <2> SUFFICES ASSUME PlanInv, NEW i \in DOMAIN plan.accepted
                 PROVE  HasASource(plan.accepted[i].words, original, job, EvidenceSet)
        BY DEF PlannedSkillsHaveASource, HasASource
    <2> DEFINE A == [words : Sourced(original, job, EvidenceSet),
                     source : {"existing", "jd_added", "supported_by_resume", "evidence_backed"}]
    <2>2. plan.accepted \in Seq(A)
        BY DEF PlanInv, Plans
    <2>3. plan.accepted[i] \in A
        <3> HIDE DEF A
        <3> QED
            BY <2>2
    <2>1. plan.accepted[i].words \in Sourced(original, job, EvidenceSet)
        BY <2>3
    <2> QED
        BY <2>1 DEF Sourced
<1>2. Spec => []PlanInv
    BY InitPlanInv, NextPlanInv, PTL DEF Spec
<1> QED
    BY <1>1, <1>2, PTL

-----------------------------------------------------------------------------
(* Taking out fabrications.                                                 *)

\* A validated list field holds a list.
LEMMA ValidatedLists ==
    ASSUME NEW D, NEW doc \in [D -> Value], NEW f \in D, IsListField(f)
    PROVE  IsList(ValidateResume(doc)[f])
<1>1. doc[f] \in Value /\ ValidateResume(doc)[f] = Coerce(f, doc[f])
    BY DEF ValidateResume
<1>2. IsText(doc[f]) \/ IsList(doc[f]) \/ doc[f] = Null
    BY <1>1 DEF Value, IsText, IsList
<1>3. \E s : Coerce(f, doc[f]) = List(s)
    BY <1>1, <1>2, ValueForms DEF Coerce
<1>4. \A s : IsList(List(s))
    BY DEF IsList, List
<1> QED
    BY <1>1, <1>3, <1>4

\* What is left of a list after some items are taken out.
LEMMA CleanedItems ==
    ASSUME NEW items \in Seq(Seq(Word)), NEW I, NEW w \in ToSet(ItemsOf(List(ItemsAt(items, I))))
    PROVE  w # <<>> /\ w \in {items[i] : i \in DOMAIN items \cap I}
<1> DEFINE kept == ItemsAt(items, I)
<1>1. kept \in Seq(Seq(Word)) /\ ToSet(kept) = {items[i] : i \in DOMAIN items \cap I}
    BY ItemsAtMembers
<1> HIDE DEF kept
<1>2. List(kept) \in Value /\ IsList(List(kept)) /\ List(kept).items = kept
    BY <1>1, ValuesMade
<1>3. ToSet(ItemsOf(List(kept))) = {x \in ToSet(kept) : x # <<>>}
    BY <1>2, ItemsOfValue
<1> QED
    BY <1>1, <1>3 DEF kept

\* The fixer takes out every skill, certification and employer that the comparison
\* with the master finds fabricated, whatever else the two resumes hold.
LEMMA FixIsClean ==
    ASSUME NEW D, NEW doc \in [D -> Value],
           \A f \in D \cap (SkillFields \cup CertFields) : IsList(doc[f]),
           NEW master, NEW skills
    PROVE  Critical(AlignmentViolations(FixAlignment(doc, AlignmentViolations(doc, master, skills)),
                                        master, skills)) = {}
<1> DEFINE mine == ItemKeys(master, SkillFields)
           Variant(k) == \/ \E m \in mine : m # <<>> /\ (Mentioned(k, m) \/ Mentioned(m, k))
                         \/ Mentioned(k, AllText(master))
           Violation(type, key, critical) == [type |-> type, key |-> key, critical |-> critical]
           Of(d) == {Violation("skill", k, ~Variant(k)) : k \in (ItemKeys(d, SkillFields) \ mine) \ skills}
                    \cup {Violation("cert", k, TRUE) :
                        k \in ItemKeys(d, CertFields) \ ItemKeys(master, CertFields)}
                    \cup {Violation("company", k, TRUE) :
                        k \in (Companies(d) \ Companies(master)) \ {<<>>}}
           found == AlignmentViolations(doc, master, skills)
           fixed == FixAlignment(doc, found)
           gone  == {FieldEntry[f] : f \in {g \in CompanyFields(doc) :
                        Fold(WordsOf(doc[g])) \in Dropped(found, "company")}}
           Kept(items, type) == {i \in DOMAIN items : Fold(items[i]) \notin Dropped(found, type)}
<1>1. \A d : AlignmentViolations(d, master, skills) = Of(d)
    BY DEF AlignmentViolations
<1>2. /\ DOMAIN fixed = {g \in D : FieldEntry[g] \notin gone}
      /\ \A f \in DOMAIN fixed :
            /\ f \in SkillFields =>
                   fixed[f] = List(ItemsAt(doc[f].items, Kept(doc[f].items, "skill")))
            /\ f \notin SkillFields /\ f \in CertFields =>
                   fixed[f] = List(ItemsAt(doc[f].items, Kept(doc[f].items, "cert")))
            /\ f \notin SkillFields /\ f \notin CertFields => fixed[f] = doc[f]
    BY DEF FixAlignment
<1>3. SkillFields \cap CertFields = {}
    BY DEF SkillFields, CertFields
<1>4. found = Of(doc)
    BY <1>1
<1>5. Dropped(found, "skill") = {v.key : v \in {x \in Critical(found) : x.type = "skill"}}
      /\ Dropped(found, "cert") = {v.key : v \in {x \in Critical(found) : x.type = "cert"}}
      /\ Dropped(found, "company") = {v.key : v \in {x \in Critical(found) : x.type = "company"}}
    BY DEF Dropped
<1> HIDE DEF Variant, mine
<1>6. \A k \in (ItemKeys(doc, SkillFields) \ mine) \ skills : ~Variant(k) => k \in Dropped(found, "skill")
    <2> TAKE k \in (ItemKeys(doc, SkillFields) \ mine) \ skills
    <2>1. ~Variant(k) => Violation("skill", k, TRUE) \in found
        BY <1>4
    <2> HIDE DEF found
    <2> QED
        BY <1>5, <2>1 DEF Critical
<1>7. \A k \in ItemKeys(doc, CertFields) \ ItemKeys(master, CertFields) : k \in Dropped(found, "cert")
    <2> TAKE k \in ItemKeys(doc, CertFields) \ ItemKeys(master, CertFields)
    <2>1. Violation("cert", k, TRUE) \in found
        BY <1>4
    <2> HIDE DEF found
    <2> QED
        BY <1>5, <2>1 DEF Critical
<1>8. \A k \in (Companies(doc) \ Companies(master)) \ {<<>>} : k \in Dropped(found, "company")
    <2> TAKE k \in (Companies(doc) \ Companies(master)) \ {<<>>}
    <2>1. Violation("company", k, TRUE) \in found
        BY <1>4
    <2> HIDE DEF found
    <2> QED
        BY <1>5, <2>1 DEF Critical
<1> HIDE DEF found, fixed, gone
\* A list that was cleaned holds nothing that was dropped, and nothing new.
<1>9. ASSUME NEW items \in Seq(Seq(Word)), NEW type,
             NEW w \in ToSet(ItemsOf(List(ItemsAt(items, Kept(items, type)))))
      PROVE  w # <<>> /\ w \in ToSet(items) /\ Fold(w) \notin Dropped(found, type)
    <2> DEFINE I == Kept(items, type)
    <2>1. w # <<>> /\ w \in {items[i] : i \in DOMAIN items \cap I}
        <3> HIDE DEF I
        <3>1. w \in ToSet(ItemsOf(List(ItemsAt(items, I))))
            BY <1>9 DEF I
        <3> QED
            BY <3>1, CleanedItems
    <2> QED
        BY <2>1 DEF ToSet
<1>10. ASSUME NEW f \in D \cap (SkillFields \cup CertFields)
       PROVE  /\ doc[f].items \in Seq(Seq(Word))
              /\ ToSet(ItemsOf(doc[f])) = {w \in ToSet(doc[f].items) : w # <<>>}
    BY ValueForms, ItemsOfValue
<1>11. ASSUME NEW k \in ItemKeys(fixed, SkillFields)
       PROVE  k \in ItemKeys(doc, SkillFields) /\ k \notin Dropped(found, "skill")
    <2>1. PICK f \in SkillFields \cap DOMAIN fixed : \E w \in ToSet(ItemsOf(fixed[f])) : k = Fold(w)
        BY DEF ItemKeys
    <2>2. PICK w \in ToSet(ItemsOf(fixed[f])) : k = Fold(w)
        BY <2>1
    <2>3. f \in D /\ fixed[f] = List(ItemsAt(doc[f].items, Kept(doc[f].items, "skill")))
        BY <1>2, <2>1
    <2> HIDE DEF Kept
    <2>4. w # <<>> /\ w \in ToSet(doc[f].items) /\ Fold(w) \notin Dropped(found, "skill")
        BY <1>9, <1>10, <2>1, <2>2, <2>3
    <2>5. w \in ToSet(ItemsOf(doc[f]))
        BY <1>10, <2>1, <2>3, <2>4
    <2> QED
        BY <2>1, <2>2, <2>3, <2>4, <2>5 DEF ItemKeys
<1>12. ASSUME NEW k \in ItemKeys(fixed, CertFields)
       PROVE  k \in ItemKeys(doc, CertFields) /\ k \notin Dropped(found, "cert")
    <2>1. PICK f \in CertFields \cap DOMAIN fixed : \E w \in ToSet(ItemsOf(fixed[f])) : k = Fold(w)
        BY DEF ItemKeys
    <2>2. PICK w \in ToSet(ItemsOf(fixed[f])) : k = Fold(w)
        BY <2>1
    <2>3. f \in D /\ fixed[f] = List(ItemsAt(doc[f].items, Kept(doc[f].items, "cert")))
        BY <1>2, <1>3, <2>1
    <2> HIDE DEF Kept
    <2>4. w # <<>> /\ w \in ToSet(doc[f].items) /\ Fold(w) \notin Dropped(found, "cert")
        BY <1>9, <1>10, <2>1, <2>2, <2>3
    <2>5. w \in ToSet(ItemsOf(doc[f]))
        BY <1>10, <2>1, <2>3, <2>4
    <2> QED
        BY <2>1, <2>2, <2>3, <2>4, <2>5 DEF ItemKeys
<1> HIDE DEF Kept
<1>13. ASSUME NEW k \in Companies(fixed), k # <<>>
       PROVE  k \in Companies(doc) /\ k \notin Dropped(found, "company")
    <2>1. PICK f \in CompanyFields(fixed) : k = Fold(WordsOf(fixed[f]))
        BY DEF Companies
    <2>2. f \in DOMAIN fixed /\ f \in D /\ FieldEntry[f] \notin gone /\ f \in CompanyFields(doc)
        BY <1>2, <2>1 DEF CompanyFields
    <2>3. \A s : WordsOf(List(s)) = <<>>
        BY ValuesMade DEF WordsOf
    <2>4. Fold(<<>>) = <<>>
        BY DEF Fold
    <2>5. f \notin SkillFields /\ f \notin CertFields
        BY <1>2, <1>13, <2>1, <2>2, <2>3, <2>4
    <2>6. fixed[f] = doc[f]
        BY <1>2, <2>2, <2>5
    <2>7. k = Fold(WordsOf(doc[f]))
        BY <2>1, <2>6
    <2>8. k \notin Dropped(found, "company")
        BY <2>2, <2>7 DEF gone
    <2> QED
        BY <2>2, <2>7, <2>8 DEF Companies
<1>14. ASSUME NEW v \in Of(fixed), v.critical
       PROVE  FALSE
    <2>1. CASE v \in {Violation("skill", k, ~Variant(k)) : k \in (ItemKeys(fixed, SkillFields) \ mine) \ skills}
        <3>1. PICK k \in (ItemKeys(fixed, SkillFields) \ mine) \ skills : v = Violation("skill", k, ~Variant(k))
            BY <2>1
        <3>2. ~Variant(k)
            BY <1>14, <3>1
        <3>3. k \in ItemKeys(doc, SkillFields) /\ k \notin Dropped(found, "skill")
            BY <1>11, <3>1
        <3> QED
            BY <1>6, <3>1, <3>2, <3>3
    <2>2. CASE v \in {Violation("cert", k, TRUE) :
                        k \in ItemKeys(fixed, CertFields) \ ItemKeys(master, CertFields)}
        BY <1>7, <1>12, <2>2
    <2>3. CASE v \in {Violation("company", k, TRUE) :
                        k \in (Companies(fixed) \ Companies(master)) \ {<<>>}}
        BY <1>8, <1>13, <2>3
    <2> QED
        BY <1>14, <2>1, <2>2, <2>3
<1>15. AlignmentViolations(fixed, master, skills) = Of(fixed)
    BY <1>1
<1> HIDE DEF Of
<1>16. Critical(AlignmentViolations(fixed, master, skills)) = {}
    BY <1>14, <1>15 DEF Critical
<1> QED
    BY <1>16 DEF fixed, found

LEMMA DoneIsFixable == PassInv => FixRemovesFabrications
<1> SUFFICES ASSUME PassInv, stage = "done"
             PROVE  Critical(AlignmentViolations(
                        FixAlignment(passed.doc,
                            AlignmentViolations(passed.doc, original, AllowedSkillKeys(plan))),
                        original, AllowedSkillKeys(plan))) = {}
    BY DEF FixRemovesFabrications
<1>1. passed.raw \in [DOMAIN original -> Value] /\ passed.doc = ValidateResume(passed.raw)
    BY DEF PassInv, Passed, Replays
<1>2. passed.doc \in [DOMAIN original -> Value]
    BY <1>1, ValidateAddsNothing
<1>3. \A f \in DOMAIN original \cap (SkillFields \cup CertFields) : IsList(passed.doc[f])
    <2> TAKE f \in DOMAIN original \cap (SkillFields \cup CertFields)
    <2>1. IsListField(f)
        BY DEF SkillFields, CertFields, IsListField
    <2> QED
        BY <1>1, <2>1, ValidatedLists
<1> QED
    BY <1>2, <1>3, FixIsClean

\* Taking out of an aligned resume what the comparison with its original finds
\* fabricated leaves no fabrication.
THEOREM SpecFixRemovesFabrications == Spec => []FixRemovesFabrications
    BY DoneIsFixable, SpecPassInv, PTL

-----------------------------------------------------------------------------
(* A resume against the evidence derived from it.                           *)

EvidenceKinds == {"master_resume", "work_history", "project", "education", "skill",
                  "certification", "other", "source_custom"}

TagsOf(doc) == Seq(Word) \cup {Owner(doc, FieldEntry[f]) : f \in Field}

\* The records a resume can give rise to.
Derivable(doc) ==
    [kind : EvidenceKinds, content : Seq(Word), tags : SUBSET TagsOf(doc), refuting : {FALSE},
     refuted : {{}}, confirmed : {FALSE}, grounds : SUBSET {"summary", "workExperience", "additional"}]

\* One record of the text, or none if it is blank.
Records(recs, doc, kind, words, tags) ==
    /\ recs \in Seq(Derivable(doc))
    /\ \A ev \in ToSet(recs) : /\ ev.content = words
                              /\ words # <<>>
                              /\ ev.grounds = Grounds(kind, tags \ {<<>>})
    /\ words # <<>> => \E ev \in ToSet(recs) : ev.content = words

LEMMA RecordForms ==
    ASSUME NEW doc, NEW kind \in EvidenceKinds, NEW words \in Seq(Word), NEW tags \in SUBSET TagsOf(doc)
    PROVE  Records(Record(kind, words, tags, FALSE), doc, kind, words, tags)
<1> DEFINE ev == [kind |-> kind, content |-> words, tags |-> tags \ {<<>>}, refuting |-> FALSE,
                  refuted |-> {}, confirmed |-> FALSE, grounds |-> Grounds(kind, tags \ {<<>>})]
<1>1. Record(kind, words, tags, FALSE) = IF words = <<>> THEN <<>> ELSE <<ev>>
    BY DEF Record
<1>2. ev \in Derivable(doc)
    <2>1. Grounds(kind, tags \ {<<>>}) \in SUBSET {"summary", "workExperience", "additional"}
        BY DEF Grounds, EvidenceKinds
    <2>2. tags \ {<<>>} \in SUBSET TagsOf(doc)
        OBVIOUS
    <2> QED
        BY <2>1, <2>2 DEF Derivable
<1>3. ev.content = words /\ ev.grounds = Grounds(kind, tags \ {<<>>})
    OBVIOUS
<1> HIDE DEF ev
<1>4. ToSet(<<ev>>) = {ev} /\ ToSet(<<>>) = {}
    BY DEF ToSet
<1>5. <<ev>> \in Seq(Derivable(doc)) /\ <<>> \in Seq(Derivable(doc))
    BY <1>2
<1> QED
    BY <1>1, <1>3, <1>4, <1>5 DEF Records

\* A resume of the schema: its headings are whole, and made of texts.
Whole(doc) ==
    \A e \in DOMAIN Heading : \A f \in ToSet(Heading[e]) \cap DOMAIN doc :
        ToSet(Heading[e]) \subseteq DOMAIN doc /\ ~IsList(doc[f])

\* A field with a text that is not blank.
Spoken(v) == \E w \in TextsOf(v) : w # <<>>

LEMMA KindIsKind == \A f : EvidenceKind(f) \in EvidenceKinds
    BY DEF EvidenceKind, EvidenceKinds

\* The section a record stands for is the section of its field.
LEMMA GroundsItsSection ==
    ASSUME NEW f \in Field, NEW tags, NEW s \in Grounds(EvidenceKind(f), tags)
    PROVE  FieldSection[f] = s
<1>1. EvidenceKind(f) = "master_resume" => FieldClass[f] = "summary"
    BY DEF EvidenceKind
<1>2. EvidenceKind(f) = "work_history" => FieldSection[f] = "workExperience"
    BY DEF EvidenceKind
<1>3. EvidenceKind(f) = "skill" => FieldClass[f] = "skills"
    BY DEF EvidenceKind
<1>4. EvidenceKind(f) = "certification" => FieldClass[f] = "lists" /\ f \in ClaimFields
    BY DEF EvidenceKind
<1>5. CASE EvidenceKind(f) = "master_resume"
    BY <1>1, <1>5, EvidenceAssumption DEF Grounds
<1>6. CASE EvidenceKind(f) = "work_history"
    BY <1>2, <1>6 DEF Grounds
<1>7. CASE EvidenceKind(f) \in {"skill", "certification"}
    BY <1>3, <1>4, <1>7, EvidenceAssumption DEF Grounds
<1>8. CASE EvidenceKind(f) \notin {"master_resume", "work_history", "skill", "certification"}
    BY <1>8 DEF Grounds
<1> QED
    BY <1>5, <1>6, <1>7, <1>8

\* The parts of a heading.
LEMMA HeadingPartsForms ==
    ASSUME NEW D \in SUBSET Field, NEW doc \in [D -> Value], NEW e \in DOMAIN Heading,
           ToSet(Heading[e]) \subseteq D
    PROVE  /\ HeadingParts(doc, e) \in Seq(Seq(Word))
           /\ ToSet(HeadingParts(doc, e))
                  = {WordsOf(doc[f]) : f \in {g \in ToSet(Heading[e]) : WordsOf(doc[g]) # <<>>}}
<1> DEFINE parts == [i \in DOMAIN Heading[e] |-> WordsOf(doc[Heading[e][i]])]
           I == {i \in DOMAIN parts : parts[i] # <<>>}
<1>1. Heading[e] \in Seq(Field)
    BY EvidenceAssumption
<1>2. \A f \in D : WordsOf(doc[f]) \in Seq(Word)
    BY ValueForms DEF WordsOf
<1>3. DOMAIN Heading[e] = 1 .. Len(Heading[e]) /\ Len(Heading[e]) \in Nat
    BY <1>1
<1>4. \A i \in DOMAIN Heading[e] : Heading[e][i] \in D
    BY DEF ToSet
<1>5. parts \in Seq(Seq(Word))
    BY <1>2, <1>3, <1>4
<1>6. HeadingParts(doc, e) = ItemsAt(parts, I)
    BY DEF HeadingParts, NonEmptyItems
<1>7. {parts[i] : i \in DOMAIN parts \cap I}
          = {WordsOf(doc[f]) : f \in {g \in ToSet(Heading[e]) : WordsOf(doc[g]) # <<>>}}
    BY DEF ToSet
<1> HIDE DEF parts, I
<1>8. ItemsAt(parts, I) \in Seq(Seq(Word))
      /\ ToSet(ItemsAt(parts, I)) = {parts[i] : i \in DOMAIN parts \cap I}
    BY <1>5, ItemsAtMembers
<1> QED
    BY <1>6, <1>7, <1>8

\* The records of a field are derived from it: none refutes anything, and what one
\* stands for is a section the resume speaks in.
LEMMA RecordsOfForms ==
    ASSUME NEW D \in SUBSET Field, NEW doc \in [D -> Value], Whole(doc), NEW f \in D
    PROVE  /\ RecordsOf(doc, f) \in Seq(Derivable(doc))
           /\ \A ev \in ToSet(RecordsOf(doc, f)) : \A s \in ev.grounds :
                 \E g \in D : FieldSection[g] = s /\ Spoken(doc[g])
<1> DEFINE e     == FieldEntry[f]
           kind  == EvidenceKind(f)
           texts == IF IsText(doc[f]) THEN <<doc[f].words>> ELSE ItemsOf(doc[f])
           Tags(w) == IF IsDescription(f) THEN {Owner(doc, e)}
                      ELSE IF FieldSection[f] = "additional" THEN {w} ELSE {}
           recs == RecordsOf(doc, f)
<1>1. kind \in EvidenceKinds
    BY KindIsKind
<1>2. CASE e \in DOMAIN Heading /\ f = Heading[e][1]
    <2> DEFINE parts == HeadingParts(doc, e)
               content == FlattenSeq(parts)
               tags == ToSet(parts)
    <2>1. recs = Record(kind, content, tags, FALSE)
        BY <1>2 DEF RecordsOf
    <2>2. f \in ToSet(Heading[e])
        <3>1. Heading[e] \in Seq(Field) \ {<<>>}
            BY <1>2, EvidenceAssumption
        <3>2. 1 \in DOMAIN Heading[e]
            BY <3>1
        <3> QED
            BY <1>2, <3>2 DEF ToSet
    <2>3. ToSet(Heading[e]) \subseteq D
        BY <1>2, <2>2 DEF Whole
    <2>4. /\ parts \in Seq(Seq(Word))
          /\ tags = {WordsOf(doc[g]) : g \in {x \in ToSet(Heading[e]) : WordsOf(doc[x]) # <<>>}}
        BY <1>2, <2>3, HeadingPartsForms
    <2> HIDE DEF parts, kind, recs
    <2>5. content \in Seq(Word) /\ \A i \in DOMAIN content : \E j \in DOMAIN parts : content[i] \in ToSet(parts[j])
        BY <2>4, FlattenSeqMembers
    <2>6. tags \in SUBSET TagsOf(doc)
        BY <2>4 DEF TagsOf, ToSet
    <2> HIDE DEF content, tags
    <2>7. recs \in Seq(Derivable(doc))
          /\ \A ev \in ToSet(recs) : content # <<>> /\ ev.grounds = Grounds(kind, tags \ {<<>>})
        <3>1. Records(recs, doc, kind, content, tags)
            BY <1>1, <2>1, <2>5, <2>6, RecordForms
        <3> QED
            BY <3>1 DEF Records
    <2>8. ASSUME NEW ev \in ToSet(recs), NEW s \in ev.grounds
          PROVE  \E g \in D : FieldSection[g] = s /\ Spoken(doc[g])
        <3>1. content # <<>> /\ s \in Grounds(kind, tags \ {<<>>})
            BY <2>7, <2>8
        <3>2. FieldSection[f] = s
            BY <3>1, GroundsItsSection DEF kind
        <3>3. 1 \in DOMAIN content
            BY <2>5, <3>1
        <3>4. PICK j \in DOMAIN parts : content[1] \in ToSet(parts[j])
            BY <2>5, <3>3
        <3>5. parts[j] \in tags
            BY <3>4 DEF tags, ToSet
        <3>6. PICK g \in ToSet(Heading[e]) : WordsOf(doc[g]) # <<>>
            BY <2>4, <3>5
        <3>7. FieldSection[g] = FieldSection[f]
            BY <1>2, <3>6, EvidenceAssumption
        <3>8. g \in D
            BY <2>3, <3>6
        <3>9. Spoken(doc[g])
            BY <3>6 DEF WordsOf, Spoken, TextsOf
        <3> QED
            BY <3>2, <3>7, <3>8, <3>9
    <2> QED
        BY <2>7, <2>8 DEF recs
<1>3. CASE ~(e \in DOMAIN Heading /\ f = Heading[e][1]) /\ Mined(f)
    <2> DEFINE part(i) == Record(kind, texts[i], Tags(texts[i]), FALSE)
               parts == [i \in DOMAIN texts |-> part(i)]
    <2>1. recs = FlattenSeq(parts)
        BY <1>3 DEF RecordsOf
    <2>2. texts \in Seq(Seq(Word)) /\ ToSet(texts) \subseteq TextsOf(doc[f])
        <3>1. doc[f] \in Value
            OBVIOUS
        <3>2. CASE IsText(doc[f])
            <4>1. doc[f].words \in Seq(Word)
                BY <3>1, <3>2, ValueForms
            <4>2. texts = <<doc[f].words>>
                BY <3>2
            <4> QED
                BY <3>2, <4>1, <4>2 DEF TextsOf, ToSet
        <3>3. CASE ~IsText(doc[f])
            <4>1. texts = ItemsOf(doc[f])
                BY <3>3
            <4>2. ToSet(<<>>) = {}
                BY DEF ToSet
            <4> HIDE DEF texts
            <4> QED
                BY <3>1, <3>3, <4>1, <4>2, ItemsOfValue DEF TextsOf
        <3> QED
            BY <3>2, <3>3
    <2>3. \A w \in Seq(Word) : Tags(w) \in SUBSET TagsOf(doc)
        BY DEF TagsOf
    <2> HIDE DEF texts, Tags, kind, recs
    <2>4. DOMAIN texts = 1 .. Len(texts) /\ Len(texts) \in Nat /\ \A i \in DOMAIN texts : texts[i] \in Seq(Word)
        BY <2>2
    <2>5. \A i \in DOMAIN texts : Records(part(i), doc, kind, texts[i], Tags(texts[i]))
        BY <1>1, <2>3, <2>4, RecordForms
    <2> HIDE DEF part
    <2>10. \A i \in DOMAIN texts : part(i) \in Seq(Derivable(doc))
        BY <2>5 DEF Records
    <2>6. parts \in Seq(Seq(Derivable(doc))) /\ DOMAIN parts = DOMAIN texts
        BY <2>4, <2>10
    <2>7. \A i \in DOMAIN texts : parts[i] = part(i)
        OBVIOUS
    <2> HIDE DEF parts
    <2>8. recs \in Seq(Derivable(doc))
          /\ \A i \in DOMAIN recs : \E j \in DOMAIN parts : recs[i] \in ToSet(parts[j])
        BY <2>1, <2>6, FlattenSeqMembers
    <2>9. ASSUME NEW ev \in ToSet(recs), NEW s \in ev.grounds
          PROVE  \E g \in D : FieldSection[g] = s /\ Spoken(doc[g])
        <3>1. PICK j \in DOMAIN texts : ev \in ToSet(part(j))
            BY <2>6, <2>7, <2>8 DEF ToSet
        <3>2. texts[j] # <<>> /\ s \in Grounds(kind, Tags(texts[j]) \ {<<>>})
            BY <2>5, <2>9, <3>1 DEF Records
        <3>3. FieldSection[f] = s
            BY <3>2, GroundsItsSection DEF kind
        <3>4. Spoken(doc[f])
            BY <2>2, <3>2 DEF Spoken, ToSet
        <3> QED
            BY <3>3, <3>4
    <2> QED
        BY <2>8, <2>9 DEF recs
<1>4. CASE ~(e \in DOMAIN Heading /\ f = Heading[e][1]) /\ ~Mined(f)
    <2>1. recs = <<>>
        BY <1>4 DEF RecordsOf
    <2>3. ToSet(<<>>) = {}
        BY DEF ToSet
    <2>2. <<>> \in Seq(Derivable(doc))
        OBVIOUS
    <2> QED
        BY <2>1, <2>2, <2>3
<1> QED
    BY <1>2, <1>3, <1>4

LEMMA InsideMembers ==
    ASSUME NEW X, NEW w \in Seq(X), NEW s \in Seq(X), Inside(w, s)
    PROVE  ToSet(w) \subseteq ToSet(s)
<1>1. PICK p \in Nat : p + Len(w) <= Len(s) /\ \A k \in 1 .. Len(w) : s[p + k] = w[k]
    BY DEF Inside
<1>2. \A k \in DOMAIN w : p + k \in DOMAIN s /\ s[p + k] = w[k]
    BY <1>1
<1> QED
    BY <1>2 DEF ToSet

\* The tokens of a text are those of the items of any text with its key.
LEMMA TokensOfFold ==
    ASSUME NEW v \in Seq(Word), NEW w \in Seq(Word), Fold(v) = Fold(w)
    PROVE  Tokens(v) = Tokens(w)
<1>1. \A u : DOMAIN Fold(u) = DOMAIN u /\ \A i \in DOMAIN u : Fold(u)[i] = Surface[u[i]]
    BY DEF Fold
<1>2. \A u : Tokens(u) = {Fold(u)[i] : i \in DOMAIN Fold(u)}
    BY <1>1 DEF Tokens
<1> QED
    BY <1>2, Zenon

LEMMA TokensInside ==
    ASSUME NEW w \in Seq(Word), NEW s \in Seq(Word), Inside(w, s)
    PROVE  Tokens(w) \subseteq Tokens(s)
<1>1. ToSet(w) \subseteq ToSet(s)
    BY InsideMembers
<1>2. \A u : Tokens(u) = {Surface[x] : x \in ToSet(u)}
    BY DEF Tokens, ToSet
<1> QED
    BY <1>1, <1>2

\* Every text a claim is made of is spoken of by a record of the resume.
LEMMA ClaimsAreRecorded ==
    ASSUME NEW D \in SUBSET Field, NEW doc \in [D -> Value], Whole(doc),
           NEW f \in D \cap ClaimFields, NEW w \in TextsOf(doc[f]), w # <<>>
    PROVE  \E g \in D : \E ev \in ToSet(RecordsOf(doc, g)) : Tokens(w) \subseteq Tokens(ev.content)
<1>1. doc[f] \in Value
    OBVIOUS
<1>2. CASE f \in HeadingFields
    <2>1. PICK e \in DOMAIN Heading : f \in ToSet(Heading[e])
        BY <1>2 DEF HeadingFields
    <2> DEFINE g == Heading[e][1]
               parts == HeadingParts(doc, e)
               content == FlattenSeq(parts)
               kind == EvidenceKind(g)
               tags == ToSet(parts)
    <2>2. ToSet(Heading[e]) \subseteq D /\ ~IsList(doc[f])
        BY <2>1 DEF Whole
    <2>3. g \in ToSet(Heading[e])
        <3>1. Heading[e] \in Seq(Field) \ {<<>>}
            BY EvidenceAssumption
        <3>2. 1 \in DOMAIN Heading[e]
            BY <3>1
        <3> QED
            BY <3>2 DEF ToSet
    <2>4. FieldEntry[g] = e
        BY <2>3, EvidenceAssumption
    <2>5. w = WordsOf(doc[f]) /\ w \in Seq(Word)
        BY <1>1, <2>2, ValueForms DEF TextsOf, WordsOf
    <2>6. RecordsOf(doc, g) = Record(kind, content, tags, FALSE)
        BY <2>4 DEF RecordsOf
    <2>7. /\ parts \in Seq(Seq(Word))
          /\ tags = {WordsOf(doc[x]) : x \in {y \in ToSet(Heading[e]) : WordsOf(doc[y]) # <<>>}}
        BY <2>2, HeadingPartsForms
    <2>8. w \in tags
        BY <2>1, <2>5, <2>7
    <2>9. kind \in EvidenceKinds /\ tags \in SUBSET TagsOf(doc)
        BY <2>7, KindIsKind DEF TagsOf, ToSet
    <2> HIDE DEF parts, kind, g
    <2>10. PICK j \in DOMAIN parts : parts[j] = w
        BY <2>8 DEF ToSet
    <2>11. content \in Seq(Word) /\ Inside(parts[j], content)
        BY <2>7, FlattenSeqMembers, FlattenSeqBlocks
    <2> HIDE DEF content, tags
    <2>12. Tokens(w) \subseteq Tokens(content)
        BY <2>5, <2>10, <2>11, TokensInside
    <2>13. content # <<>>
        <3>1. ToSet(w) \subseteq ToSet(content)
            BY <2>5, <2>10, <2>11, InsideMembers
        <3>2. 1 \in DOMAIN w
            BY <2>5
        <3>3. w[1] \in ToSet(w)
            BY <3>2 DEF ToSet
        <3>4. ToSet(<<>>) = {}
            BY DEF ToSet
        <3> QED
            BY <3>1, <3>3, <3>4
    <2>14. Records(RecordsOf(doc, g), doc, kind, content, tags)
        BY <2>6, <2>9, <2>11, RecordForms
    <2>15. PICK ev \in ToSet(RecordsOf(doc, g)) : ev.content = content
        BY <2>13, <2>14 DEF Records
    <2>16. g \in D
        BY <2>2, <2>3
    <2> QED
        BY <2>12, <2>15, <2>16
<1>3. CASE f \notin HeadingFields
    <2> DEFINE e     == FieldEntry[f]
               kind  == EvidenceKind(f)
               texts == IF IsText(doc[f]) THEN <<doc[f].words>> ELSE ItemsOf(doc[f])
               Tags(x) == IF IsDescription(f) THEN {Owner(doc, e)}
                          ELSE IF FieldSection[f] = "additional" THEN {x} ELSE {}
               part(i) == Record(kind, texts[i], Tags(texts[i]), FALSE)
               parts == [i \in DOMAIN texts |-> part(i)]
    <2>1. Mined(f)
        BY <1>3, EvidenceAssumption
    <2>2. ~(e \in DOMAIN Heading /\ f = Heading[e][1])
        <3> SUFFICES ASSUME e \in DOMAIN Heading, f = Heading[e][1] PROVE FALSE
            OBVIOUS
        <3> HIDE DEF e
        <3>1. Heading[e] \in Seq(Field) \ {<<>>}
            BY EvidenceAssumption
        <3>2. 1 \in DOMAIN Heading[e]
            BY <3>1
        <3>3. f \in ToSet(Heading[e])
            BY <3>2 DEF ToSet
        <3> QED
            BY <1>3, <3>3 DEF HeadingFields
    <2>3. RecordsOf(doc, f) = FlattenSeq(parts)
        BY <2>1, <2>2 DEF RecordsOf
    <2>4. texts \in Seq(Seq(Word)) /\ w \in ToSet(texts)
        <3>1. CASE IsText(doc[f])
            <4>1. doc[f].words \in Seq(Word)
                BY <1>1, <3>1, ValueForms
            <4>2. texts = <<doc[f].words>> /\ w = doc[f].words
                BY <3>1 DEF TextsOf
            <4>3. ToSet(<<w>>) = {w}
                BY DEF ToSet
            <4> HIDE DEF texts
            <4> QED
                BY <4>1, <4>2, <4>3
        <3>2. CASE ~IsText(doc[f])
            <4>1. texts = ItemsOf(doc[f]) /\ IsList(doc[f]) /\ w \in ToSet(doc[f].items)
                BY <3>2 DEF TextsOf
            <4> HIDE DEF texts
            <4> QED
                BY <1>1, <4>1, ItemsOfValue
        <3> QED
            BY <3>1, <3>2
    <2>5. \A x \in Seq(Word) : Tags(x) \in SUBSET TagsOf(doc)
        BY DEF TagsOf
    <2>6. kind \in EvidenceKinds
        BY KindIsKind
    <2> HIDE DEF texts, Tags, kind
    <2>7. DOMAIN texts = 1 .. Len(texts) /\ Len(texts) \in Nat /\ \A i \in DOMAIN texts : texts[i] \in Seq(Word)
        BY <2>4
    <2>8. \A i \in DOMAIN texts : Records(part(i), doc, kind, texts[i], Tags(texts[i]))
        BY <2>5, <2>6, <2>7, RecordForms
    <2>9. PICK j \in DOMAIN texts : texts[j] = w
        BY <2>4 DEF ToSet
    <2>10. parts[j] = part(j)
        BY <2>9
    <2> HIDE DEF part
    <2>11. \A i \in DOMAIN texts : part(i) \in Seq(Derivable(doc))
        BY <2>8 DEF Records
    <2>12. parts \in Seq(Seq(Derivable(doc))) /\ DOMAIN parts = DOMAIN texts
        BY <2>7, <2>11
    <2> HIDE DEF parts
    <2>13. PICK ev \in ToSet(part(j)) : ev.content = w
        BY <2>8, <2>9 DEF Records
    <2>14. ToSet(parts[j]) \subseteq ToSet(FlattenSeq(parts))
        <3>1. parts[j] \in Seq(Derivable(doc)) /\ FlattenSeq(parts) \in Seq(Derivable(doc))
            BY <2>9, <2>12, FlattenSeqMembers
        <3>2. Inside(parts[j], FlattenSeq(parts))
            BY <2>9, <2>12, FlattenSeqBlocks
        <3> QED
            BY <3>1, <3>2, InsideMembers
    <2>15. ev \in ToSet(RecordsOf(doc, f))
        BY <2>3, <2>10, <2>13, <2>14
    <2> QED
        BY <2>13, <2>15
<1> QED
    BY <1>2, <1>3

\* One record of the deduplication.
KeepFirst(kept, ev) ==
    IF \E i \in DOMAIN kept : EvidenceId(kept[i]) = EvidenceId(ev) THEN kept ELSE Append(kept, ev)

\* Dropping repeated records loses no id and brings in nothing.
LEMMA FirstByIdKeeps ==
    ASSUME NEW X, NEW s \in Seq(X)
    PROVE  /\ FirstById(s) \in Seq(X)
           /\ ToSet(FirstById(s)) \subseteq ToSet(s)
           /\ \A ev \in ToSet(s) : \E k \in ToSet(FirstById(s)) : EvidenceId(k) = EvidenceId(ev)
<1> DEFINE n == Len(s)
           F == [p \in Seq(X) \X (1 .. n) |-> KeepFirst(p[1], s[p[2]])]
           Folds(f) == f = [S \in SUBSET DOMAIN s |->
                            IF S = {} THEN <<>> ELSE KeepFirst(f[S \ {Max(S)}], s[Max(S)])]
           C == CHOOSE f : Folds(f)
           h == [i \in 0 .. n |-> C[1 .. i]]
<1>1. n \in Nat /\ DOMAIN s = 1 .. n /\ \A i \in 1 .. n : s[i] \in X
    OBVIOUS
<1> HIDE DEF n
<1>2. \A k \in Seq(X), x \in X : KeepFirst(k, x) \in Seq(X)
    BY DEF KeepFirst
<1>3. PICK f : RecursesOver(f, n, Seq(X), <<>>, F)
    <2>1. F \in [Seq(X) \X (1 .. n) -> Seq(X)]
        BY <1>1, <1>2
    <2>2. <<>> \in Seq(X)
        OBVIOUS
    <2> HIDE DEF F
    <2> QED
        BY <1>1, <2>1, <2>2, FoldRecursion
<1>4. Folds(f)
    <2>1. \A S \in SUBSET (1 .. n) :
              f[S] = IF S = {} THEN <<>> ELSE KeepFirst(f[S \ {Max(S)}], s[Max(S)])
        <3> TAKE S \in SUBSET (1 .. n)
        <3>1. CASE S = {}
            BY <1>3, <3>1 DEF RecursesOver
        <3>2. CASE S # {}
            <4>1. Max(S) \in 1 .. n
                BY <1>1, <3>2, MaxOfIndexes
            <4>2. f[S \ {Max(S)}] \in Seq(X) /\ f[S] = F[<<f[S \ {Max(S)}], Max(S)>>]
                <5> HIDE DEF F
                <5> QED
                    BY <1>3, <3>2 DEF RecursesOver
            <4> QED
                BY <3>2, <4>1, <4>2
        <3> QED
            BY <3>1, <3>2
    <2>2. f = [S \in SUBSET (1 .. n) |-> f[S]]
        <3> HIDE DEF F
        <3> QED
            BY <1>3 DEF RecursesOver
    <2> QED
        BY <1>1, <2>1, <2>2
<1>5. Folds(C)
    <2> HIDE DEF Folds
    <2> QED
        BY <1>4
<1>6. h[0] = <<>> /\ \A i \in 1 .. n : h[i] = KeepFirst(h[i - 1], s[i])
    <2> HIDE DEF C
    <2>1. 1 .. 0 = {} /\ 0 \in 0 .. n
        BY <1>1
    <2>2. \A i \in 1 .. n : C[1 .. i] = KeepFirst(C[1 .. (i - 1)], s[i])
        <3> TAKE i \in 1 .. n
        <3>1. /\ 1 .. i \in SUBSET DOMAIN s
              /\ 1 .. i # {}
              /\ Max(1 .. i) = i
              /\ (1 .. i) \ {Max(1 .. i)} = 1 .. (i - 1)
            BY <1>1, UpTo
        <3> QED
            BY <1>5, <3>1
    <2>3. \A i \in 1 .. n : i \in 0 .. n /\ i - 1 \in 0 .. n
        BY <1>1
    <2> QED
        BY <1>1, <1>5, <2>1, <2>2, <2>3
<1>7. FirstById(s) = h[n]
    <2>1. FirstById(s) = C[DOMAIN s]
        BY DEF FirstById, FoldLeft, MapThenFoldSet, KeepFirst
    <2>2. n \in 0 .. n
        BY <1>1
    <2> HIDE DEF C
    <2> QED
        BY <1>1, <2>1, <2>2
<1> HIDE DEF h
<1> DEFINE good == {i \in 0 .. n :
                      /\ h[i] \in Seq(X)
                      /\ ToSet(h[i]) \subseteq ToSet(s)
                      /\ \A j \in 1 .. i : \E k \in ToSet(h[i]) : EvidenceId(k) = EvidenceId(s[j])}
<1>8. 0 \in good
    <2>1. h[0] = <<>> /\ 0 \in 0 .. n /\ 1 .. 0 = {}
        BY <1>1, <1>6
    <2>2. h[0] \in Seq(X) /\ ToSet(h[0]) = {}
        BY <2>1 DEF ToSet
    <2> QED
        BY <2>1, <2>2
<1>9. \A i \in 1 .. n : i - 1 \in good => i \in good
    <2> SUFFICES ASSUME NEW i \in 1 .. n, i - 1 \in good PROVE i \in good
        OBVIOUS
    <2>1. /\ h[i - 1] \in Seq(X)
          /\ ToSet(h[i - 1]) \subseteq ToSet(s)
          /\ \A j \in 1 .. i - 1 : \E k \in ToSet(h[i - 1]) : EvidenceId(k) = EvidenceId(s[j])
        OBVIOUS
    <2>2. h[i] = KeepFirst(h[i - 1], s[i]) /\ s[i] \in X /\ i \in 0 .. n
        BY <1>1, <1>6
    <2>3. h[i] \in Seq(X)
        BY <1>2, <2>1, <2>2
    <2>4. /\ ToSet(h[i - 1]) \subseteq ToSet(h[i])
          /\ ToSet(h[i]) \subseteq ToSet(h[i - 1]) \cup {s[i]}
          /\ \E k \in ToSet(h[i]) : EvidenceId(k) = EvidenceId(s[i])
        <3>1. CASE \E k \in DOMAIN h[i - 1] : EvidenceId(h[i - 1][k]) = EvidenceId(s[i])
            <4>1. h[i] = h[i - 1]
                BY <2>2, <3>1 DEF KeepFirst
            <4> QED
                BY <3>1, <4>1 DEF ToSet
        <3>2. CASE ~\E k \in DOMAIN h[i - 1] : EvidenceId(h[i - 1][k]) = EvidenceId(s[i])
            <4>1. h[i] = Append(h[i - 1], s[i])
                BY <2>2, <3>2 DEF KeepFirst
            <4>2. ToSet(Append(h[i - 1], s[i])) = ToSet(h[i - 1]) \cup {s[i]}
                BY <2>1, <2>2, AppendAdds
            <4> QED
                BY <4>1, <4>2
        <3> QED
            BY <3>1, <3>2
    <2>5. s[i] \in ToSet(s)
        BY <1>1 DEF ToSet
    <2>6. \A j \in 1 .. i : \E k \in ToSet(h[i]) : EvidenceId(k) = EvidenceId(s[j])
        <3> TAKE j \in 1 .. i
        <3>1. CASE j = i
            BY <2>4, <3>1
        <3>2. CASE j # i
            <4>1. j \in 1 .. i - 1
                BY <3>2
            <4> QED
                BY <2>1, <2>4, <4>1
        <3> QED
            BY <3>1, <3>2
    <2>7. ToSet(h[i]) \subseteq ToSet(s)
        BY <2>1, <2>4, <2>5
    <2> QED
        BY <2>2, <2>3, <2>6, <2>7
<1>10. n \in good
    <2> HIDE DEF good
    <2> QED
        BY <1>1, <1>8, <1>9, StepsUp
<1>11. \A ev \in ToSet(s) : \E j \in 1 .. n : ev = s[j]
    BY <1>1 DEF ToSet
<1> QED
    BY <1>7, <1>10, <1>11

\* The evidence derived from a resume: it refutes nothing, speaks of every claim of
\* the resume, and stands for no section the resume is silent in.
Derives(records, doc, D) ==
    /\ \A ev \in records : ev \in Derivable(doc)
    /\ \A f \in D \cap ClaimFields : \A w \in TextsOf(doc[f]) :
          w # <<>> => \E ev \in records : Tokens(w) \subseteq Tokens(ev.content)
    /\ \A ev \in records : \A s \in ev.grounds : \E g \in D : FieldSection[g] = s /\ Spoken(doc[g])

LEMMA BuiltEvidenceDerives ==
    ASSUME NEW D \in SUBSET Field, NEW doc \in [D -> Value], Whole(doc)
    PROVE  Derives(ToSet(BuildCandidateEvidence(doc, <<>>)), doc, D)
<1> DEFINE fs   == FieldsOf(doc)
           seqs == [i \in DOMAIN fs |-> RecordsOf(doc, fs[i])]
           all  == FlattenSeq(seqs)
           kept == FirstById(all)
           none == [i \in DOMAIN <<>> |-> ApprovedRecord(<<>>[i])]
<1>1. fs \in Seq(Field) /\ ToSet(fs) = D
    BY FieldsOfResume
<1>2. \A g \in D : RecordsOf(doc, g) \in Seq(Derivable(doc))
    BY RecordsOfForms
<1>3. BuildCandidateEvidence(doc, <<>>) = FirstById(all \o FlattenSeq(none))
    BY DEF BuildCandidateEvidence
<1> HIDE DEF fs
<1>4. DOMAIN fs = 1 .. Len(fs) /\ Len(fs) \in Nat /\ \A i \in DOMAIN fs : fs[i] \in D
    BY <1>1 DEF ToSet
<1>5. /\ seqs \in Seq(Seq(Derivable(doc)))
      /\ DOMAIN seqs = DOMAIN fs
      /\ \A i \in DOMAIN fs : seqs[i] = RecordsOf(doc, fs[i])
    BY <1>2, <1>4
<1> HIDE DEF seqs
<1>6. /\ all \in Seq(Derivable(doc))
      /\ \A i \in DOMAIN all : \E j \in DOMAIN seqs : all[i] \in ToSet(seqs[j])
    BY <1>5, FlattenSeqMembers
<1>7. \A j \in DOMAIN seqs : ToSet(seqs[j]) \subseteq ToSet(all)
    <2> TAKE j \in DOMAIN seqs
    <2>1. seqs[j] \in Seq(Derivable(doc)) /\ Inside(seqs[j], all)
        BY <1>5, FlattenSeqBlocks
    <2> QED
        BY <1>6, <2>1, InsideMembers
<1>8. BuildCandidateEvidence(doc, <<>>) = kept
    <2>1. none = <<>>
        OBVIOUS
    <2>2. FlattenSeq(<<>>) = <<>>
        BY DEF FlattenSeq
    <2> HIDE DEF all, none
    <2>3. all \o <<>> = all
        BY <1>6
    <2> QED
        BY <1>3, <2>1, <2>2, <2>3
<1> HIDE DEF all
<1>9. /\ kept \in Seq(Derivable(doc))
      /\ ToSet(kept) \subseteq ToSet(all)
      /\ \A ev \in ToSet(all) : \E k \in ToSet(kept) : EvidenceId(k) = EvidenceId(ev)
    BY <1>6, FirstByIdKeeps
<1> HIDE DEF kept
<1>10. \A ev \in ToSet(kept) : ev \in Derivable(doc)
    BY <1>9 DEF ToSet
<1>11. \A ev \in ToSet(all) : ev \in Derivable(doc)
    BY <1>6 DEF ToSet
<1>12. ASSUME NEW f \in D \cap ClaimFields, NEW w \in TextsOf(doc[f]), w # <<>>
       PROVE  \E ev \in ToSet(kept) : Tokens(w) \subseteq Tokens(ev.content)
    <2>1. PICK g \in D : \E ev \in ToSet(RecordsOf(doc, g)) : Tokens(w) \subseteq Tokens(ev.content)
        BY <1>12, ClaimsAreRecorded
    <2>2. PICK ev \in ToSet(RecordsOf(doc, g)) : Tokens(w) \subseteq Tokens(ev.content)
        BY <2>1
    <2>3. PICK j \in DOMAIN fs : fs[j] = g
        BY <1>1 DEF ToSet
    <2>4. ev \in ToSet(all)
        BY <1>5, <1>7, <2>2, <2>3
    <2>5. PICK k \in ToSet(kept) : EvidenceId(k) = EvidenceId(ev)
        BY <1>9, <2>4
    <2>6. Fold(k.content) = Fold(ev.content)
        BY <2>5 DEF EvidenceId
    <2>7. k.content \in Seq(Word) /\ ev.content \in Seq(Word)
        BY <1>10, <1>11, <2>4, <2>5 DEF Derivable
    <2>8. Tokens(k.content) = Tokens(ev.content)
        BY <2>6, <2>7, TokensOfFold
    <2> QED
        BY <2>2, <2>5, <2>8
<1>13. ASSUME NEW ev \in ToSet(kept), NEW s \in ev.grounds
       PROVE  \E g \in D : FieldSection[g] = s /\ Spoken(doc[g])
    <2>1. PICK j \in DOMAIN seqs : ev \in ToSet(seqs[j])
        BY ZenonT(60), <1>6, <1>9 DEF ToSet
    <2>2. fs[j] \in D /\ ev \in ToSet(RecordsOf(doc, fs[j]))
        BY <1>4, <1>5, <2>1
    <2>3. ASSUME NEW h \in D
          PROVE  \A r \in ToSet(RecordsOf(doc, h)) : \A t \in r.grounds :
                    \E g \in D : FieldSection[g] = t /\ Spoken(doc[g])
        BY <2>3, RecordsOfForms
    <2>4. \A r \in ToSet(RecordsOf(doc, fs[j])) : \A t \in r.grounds :
              \E g \in D : FieldSection[g] = t /\ Spoken(doc[g])
        BY <2>2, <2>3
    <2> QED
        BY <1>13, <2>2, <2>4
<1> QED
    BY <1>8, <1>10, <1>12, <1>13 DEF Derives

\* What a resume says it still says once validated.
LEMMA SpokenStays ==
    ASSUME NEW D, NEW doc \in [D -> Value], NEW f \in D, Spoken(doc[f])
    PROVE  Populated(ValidateResume(doc)[f])
<1> DEFINE v == doc[f]
<1>1. v \in Value /\ ValidateResume(doc)[f] = Coerce(f, v)
    BY DEF ValidateResume
<1>2. PICK w \in TextsOf(v) : w # <<>>
    BY DEF Spoken
<1> HIDE DEF v
<1>3. ASSUME NEW s \in Seq(Seq(Word)), w \in ToSet(s)
      PROVE  Populated(List(NonEmptyItems(s)))
    <2>1. List(s) \in Value /\ IsList(List(s)) /\ List(s).items = s
        BY ValuesMade
    <2>2. ItemsOf(List(s)) = NonEmptyItems(s)
        BY <2>1 DEF ItemsOf
    <2>3. NonEmptyItems(s) \in Seq(Seq(Word)) /\ w \in ToSet(NonEmptyItems(s))
        BY <1>2, <1>3, <2>1, <2>2, ItemsOfValue
    <2>4. NonEmptyItems(s) # <<>>
        <3>1. ToSet(<<>>) = {}
            BY DEF ToSet
        <3> QED
            BY <2>3, <3>1
    <2>5. IsList(List(NonEmptyItems(s))) /\ List(NonEmptyItems(s)).items = NonEmptyItems(s)
        BY <2>3, ValuesMade
    <2> QED
        BY <2>4, <2>5 DEF Populated
<1>4. CASE IsText(v)
    <2>1. v.words = w /\ w \in Seq(Word)
        BY <1>1, <1>2, <1>4, ValueForms DEF TextsOf
    <2>2. CASE IsListField(f)
        <3>1. Coerce(f, v) = List(NonEmptyItems(<<w>>))
            BY <1>1, <1>4, <2>1, <2>2, ValueForms DEF Coerce
        <3>2. <<w>> \in Seq(Seq(Word)) /\ w \in ToSet(<<w>>)
            BY <2>1 DEF ToSet
        <3> QED
            BY <1>1, <1>3, <3>1, <3>2
    <2>3. CASE ~IsListField(f)
        <3>1. v # Text(<<>>)
            BY <1>2, <2>1 DEF Text
        <3>2. Coerce(f, v) = v
            BY <2>3, <3>1 DEF Coerce
        <3> QED
            BY <1>1, <1>2, <1>4, <2>1, <3>2 DEF Populated
    <2> QED
        BY <2>2, <2>3
<1>5. CASE IsList(v)
    <2>1. v.items \in Seq(Seq(Word)) /\ ~IsText(v) /\ v # Null /\ w \in ToSet(v.items)
        BY <1>1, <1>2, <1>5, ValueForms DEF TextsOf
    <2>2. CASE IsListField(f)
        <3>1. Coerce(f, v) = List(NonEmptyItems(v.items))
            BY <1>5, <2>1, <2>2 DEF Coerce
        <3> QED
            BY <1>1, <1>3, <2>1, <3>1
    <2>3. CASE ~IsListField(f)
        <3>1. v # Text(<<>>)
            <4>1. ~IsList(Text(<<>>))
                BY ValuesMade
            <4> QED
                BY <1>5, <4>1
        <3>2. Coerce(f, v) = v
            BY <2>3, <3>1 DEF Coerce
        <3>3. ToSet(<<>>) = {}
            BY DEF ToSet
        <3> QED
            BY <1>1, <1>5, <2>1, <3>2, <3>3 DEF Populated
    <2> QED
        BY <2>2, <2>3
<1> QED
    BY <1>2, <1>4, <1>5 DEF TextsOf

\* A claim whose tokens some evidence has, and that none refutes, is grounded.
LEMMA CoveredIsGrounded ==
    ASSUME NEW words \in Seq(Word), NEW records, NEW index, NEW ev \in records,
           Tokens(words) \subseteq Tokens(ev.content),
           \A r \in records : r.refuting = FALSE /\ r.refuted = {}
    PROVE  Classify(words, records, index) \notin {"unsupported", "contradicted"}
<1> DEFINE exact   == {r \in records : MatchesEvidence(words, r, index)}
           partial == records \ exact
           size    == Cardinality(Tokens(words))
           Reaches(evs, tenths) == \E r \in evs : 10 * Overlap(words, r) >= tenths * size
           Confirmed(evs) == {r \in evs : r.confirmed}
           status  == Classify(words, records, index)
<1>1. ~Refuted(words, records, index)
    BY DEF Refuted
<1>2. status = IF Confirmed(exact) # {} THEN "verified"
               ELSE IF exact # {} THEN "supported"
               ELSE IF Reaches(Confirmed(partial), 8) THEN "user_confirmed"
               ELSE IF Reaches(partial, 6) THEN "partially_supported"
               ELSE IF \E r \in partial : Overlap(words, r) > 0 THEN "ambiguous"
               ELSE "unsupported"
    BY <1>1 DEF Classify
<1>3. size \in Nat
    <2> DEFINE I == 1 .. Len(words)
               g == [i \in I |-> Surface[words[i]]]
    <2>1. IsFiniteSet(I)
        BY FS_Interval
    <2>2. Tokens(words) = {Surface[words[i]] : i \in I}
        BY DEF Tokens
    <2>3. g \in Surjection(I, Tokens(words))
        BY <2>2 DEF Surjection
    <2> HIDE DEF g, I
    <2>4. IsFiniteSet(Tokens(words))
        BY <2>1, <2>3, FS_Surjection
    <2> QED
        BY <2>4, FS_CardinalityType
<1>4. Overlap(words, ev) = size
    <2>1. Tokens(words) \cap Tokens(ev.content) = Tokens(words)
        OBVIOUS
    <2> QED
        BY <2>1 DEF Overlap
<1>5. exact = {} => Reaches(partial, 6)
    <2> SUFFICES ASSUME exact = {} PROVE Reaches(partial, 6)
        OBVIOUS
    <2>1. ev \in partial
        OBVIOUS
    <2>2. 10 * Overlap(words, ev) >= 6 * size
        BY <1>3, <1>4
    <2> QED
        BY <2>1, <2>2
<1> HIDE DEF status, Reaches, exact, partial, Confirmed
<1> QED
    BY <1>2, <1>5 DEF status

LEMMA TextsAreWords ==
    ASSUME NEW v \in Value, NEW w \in TextsOf(v)
    PROVE  w \in Seq(Word)
<1>1. CASE IsText(v)
    BY <1>1, ValueForms DEF TextsOf
<1>2. CASE ~IsText(v) /\ IsList(v)
    <2>1. v.items \in Seq(Seq(Word)) /\ w \in ToSet(v.items)
        BY <1>2, ValueForms DEF TextsOf
    <2> QED
        BY <2>1 DEF ToSet
<1>3. CASE ~IsText(v) /\ ~IsList(v)
    BY <1>3 DEF TextsOf
<1> QED
    BY <1>1, <1>2, <1>3

\* A claim is a text of one of the fields the validator reads.
LEMMA ClaimsAreTexts ==
    ASSUME NEW doc, \A g \in DOMAIN doc : doc[g] \in Value, NEW c \in CollectClaims(doc)
    PROVE  \E f \in ClaimFields \cap DOMAIN doc : c.words # <<>> /\ c.words \in TextsOf(doc[f])
<1> DEFINE Of(f) == IF IsText(doc[f])
                    THEN {d \in {Claim(f, 0, doc[f].words)} : d.words # <<>>}
                    ELSE IF IsList(doc[f])
                    THEN {d \in {Claim(f, i, doc[f].items[i]) : i \in DOMAIN doc[f].items} :
                            d.words # <<>>}
                    ELSE {}
<1>1. c \in UNION {Of(f) : f \in ClaimFields \cap DOMAIN doc}
    BY DEF CollectClaims
<1>2. PICK f \in ClaimFields \cap DOMAIN doc : c \in Of(f)
    BY <1>1
<1>3. CASE IsText(doc[f])
    <2>1. c = Claim(f, 0, doc[f].words) /\ c.words # <<>>
        BY <1>2, <1>3
    <2> QED
        BY <1>3, <2>1 DEF Claim, TextsOf
<1>4. CASE ~IsText(doc[f]) /\ IsList(doc[f])
    <2>1. PICK i \in DOMAIN doc[f].items : c = Claim(f, i, doc[f].items[i]) /\ c.words # <<>>
        BY <1>2, <1>4
    <2>2. c.words = doc[f].items[i]
        BY <2>1 DEF Claim
    <2>3. doc[f].items[i] \in ToSet(doc[f].items)
        BY <1>2, <1>4, ValueForms DEF ToSet
    <2> QED
        BY <1>4, <2>1, <2>2, <2>3 DEF TextsOf
<1>5. CASE ~IsText(doc[f]) /\ ~IsList(doc[f])
    BY <1>2, <1>5
<1> QED
    BY <1>3, <1>4, <1>5

\* A resume is grounded in the evidence derived from it.
LEMMA UntouchedHasNoFailure ==
    ASSUME NEW D \in SUBSET Field, NEW doc \in [D -> Value], Whole(doc),
           evidence = BuildCandidateEvidence(doc, <<>>)
    PROVE  FailingClaims(ValidateResume(doc)) = {}
<1> DEFINE valid == ValidateResume(doc)
<1>1. Derives(EvidenceSet, doc, D)
    BY BuiltEvidenceDerives DEF EvidenceSet
<1>2. \A f \in D : TextsOf(valid[f]) \subseteq TextsOf(doc[f]) /\ valid[f] \in Value
    BY ValidateAddsNothing
<1>3. DOMAIN valid = D
    BY DEF ValidateResume
<1>4. SectionsPreserved(valid, EvidenceSet)
    <2> SUFFICES ASSUME NEW ev \in EvidenceSet, NEW s \in ev.grounds
                 PROVE  \E f \in DOMAIN valid : FieldSection[f] = s /\ Populated(valid[f])
        BY DEF SectionsPreserved
    <2>1. PICK g \in D : FieldSection[g] = s /\ Spoken(doc[g])
        BY <1>1 DEF Derives
    <2>2. Populated(valid[g])
        BY <2>1, SpokenStays
    <2> QED
        BY <1>3, <2>1, <2>2
<1>5. \A r \in EvidenceSet : r.refuting = FALSE /\ r.refuted = {}
    BY <1>1 DEF Derives, Derivable
<1> HIDE DEF valid
<1>6. ASSUME NEW c \in CollectClaims(valid)
      PROVE  ClaimStatus(valid, c, EvidenceSet, Seed) \notin {"unsupported", "contradicted"}
    <2>1. PICK f \in ClaimFields \cap D : c.words # <<>> /\ c.words \in TextsOf(valid[f])
        <3>1. \A g \in DOMAIN valid : valid[g] \in Value
            BY <1>2, <1>3
        <3> QED
            BY <1>3, <1>6, <3>1, ClaimsAreTexts
    <2>2. c.words \in TextsOf(doc[f])
        BY <1>2, <2>1
    <2>5. doc[f] \in Value
        BY <2>1
    <2>6. c.words \in Seq(Word)
        BY <2>2, <2>5, TextsAreWords
    <2>3. PICK ev \in EvidenceSet : Tokens(c.words) \subseteq Tokens(ev.content)
        BY <1>1, <2>1, <2>2 DEF Derives
    <2>4. Classify(c.words, EvidenceSet, Seed) \notin {"unsupported", "contradicted"}
        BY <1>5, <2>6, <2>3, CoveredIsGrounded
    <2> QED
        BY <1>4, <2>4 DEF ClaimStatus
<1>7. FailingClaims(valid) = {}
    BY <1>6 DEF FailingClaims
<1> QED
    BY <1>7 DEF valid

\* The resume is one of the schema, failing claims are found by a validation and
\* stay with the document they were found in, and only they force a review.
GuardInv ==
    /\ DOMAIN original \subseteq Field
    /\ original \in [DOMAIN original -> Value]
    /\ Whole(original)
    /\ stage \in {"plan", "generate", "apply", "truth", "resolve", "review", "done"}
    /\ stage = "truth" => RunTruth
    /\ stage = "resolve" => failing # {}
    /\ forced => failing # {}
    /\ failing # {} => /\ stage \in {"resolve", "review", "done"}
                       /\ RunTruth

LEMMA InitGuardInv == Init => GuardInv
<1> SUFFICES ASSUME Init PROVE GuardInv
    OBVIOUS
<1>1. /\ DOMAIN original \subseteq Field
      /\ original \in [DOMAIN original -> Value]
      /\ Whole(original)
    BY AlignAssumption DEF Init, Whole
<1>2. stage = "plan" /\ failing = {} /\ ~forced
    BY DEF Init
<1> QED
    BY <1>1, <1>2 DEF GuardInv

LEMMA NextGuardInv == GuardInv /\ [Next]_vars => GuardInv'
<1> SUFFICES ASSUME GuardInv, [Next]_vars PROVE GuardInv'
    OBVIOUS
<1> USE DEF GuardInv, RunTruth
<1>1. CASE PlanTargets
    BY <1>1 DEF PlanTargets
<1>2. CASE Generate
    BY <1>2 DEF Generate
<1>3. CASE Apply
    <2>1. failing = {} /\ ~forced
        BY <1>3 DEF Apply
    <2>2. /\ failing' = failing /\ forced' = forced /\ original' = original
          /\ stage' \in {"truth", "review"}
          /\ stage' = "truth" => RunTruth'
        BY <1>3 DEF Apply
    <2> QED
        BY <2>1, <2>2
<1>4. CASE ValidateTruth
    BY <1>4 DEF ValidateTruth
<1>5. CASE DeferToHuman
    BY <1>5 DEF DeferToHuman
<1>6. CASE StripUngrounded
    BY <1>6 DEF StripUngrounded
<1>7. CASE BuildReview
    BY <1>7 DEF BuildReview
<1>8. CASE AcceptTerminology
    BY <1>8 DEF AcceptTerminology
<1>9. CASE UNCHANGED vars
    BY <1>9 DEF vars
<1> QED
    BY <1>1, <1>2, <1>3, <1>4, <1>5, <1>6, <1>7, <1>8, <1>9 DEF Next

\* With no change applied, the document at hand is the original, validated.
LEMMA GuardInvUntouched == GuardInv /\ PassInv /\ Inv => UntouchedIsGrounded
<1> SUFFICES ASSUME GuardInv, PassInv, Inv,
                    evidence = BuildCandidateEvidence(original, <<>>), passed.applied = <<>>
             PROVE  failing = {} /\ ~forced
    BY DEF UntouchedIsGrounded
<1> DEFINE level == ClampFreedom(call.freedom)
           skills == AllowedSkillKeys(plan)
<1>1. FailingClaims(ValidateResume(original)) = {}
    BY UntouchedHasNoFailure DEF GuardInv
<1>2. ASSUME failing # {} PROVE FALSE
    <2>1. stage \in {"resolve", "review", "done"} /\ RunTruth
        BY <1>2 DEF GuardInv
    <2>2. failing = FailingClaims(passed.doc)
        BY <2>1 DEF Inv, FailingIsCurrent
    <2>3. Replays(passed, original, level, skills)
        BY <2>1 DEF PassInv, Passed
    <2>4. passed.doc = ValidateResume(ApplyAll(original, <<>>, level, skills).doc)
        BY <2>3 DEF Replays
    <2>5. ApplyAll(original, <<>>, level, skills).doc = original
        <3>1. original \in [DOMAIN original -> Value]
            BY DEF GuardInv
        <3>2. ApplyAll(original, <<>>, level, skills)
                  = [doc |-> original, applied |-> <<>>, rejected |-> <<>>]
            BY <3>1, ApplyAllOfNone
        <3> QED
            BY <3>2
    <2> QED
        BY <1>1, <1>2, <2>2, <2>4, <2>5
<1> QED
    BY <1>2 DEF GuardInv

\* The guard flags nothing in a resume no change was applied to, when the evidence
\* is the one derived from it, and repairing what the comparison with the original
\* flags leaves nothing it flags.
THEOREM SpecGuardIsExact == Spec => []GuardIsExact
<1>1. Spec => []GuardInv
    BY InitGuardInv, NextGuardInv, PTL DEF Spec
<1>2. Spec => []Inv
    BY InitInv, NextInv, PTL DEF Spec
<1>3. GuardInv /\ PassInv /\ Inv => GuardIsExact
    BY GuardInvUntouched, DoneIsFixable DEF GuardIsExact
<1> QED
    BY <1>1, <1>2, <1>3, SpecPassInv, PTL

=============================================================================
