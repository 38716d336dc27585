----------------------------- MODULE DiffEngine -----------------------------
(***************************************************************************)
(* The loop of resume_kit_alignment.apply.apply_diffs as a state machine:  *)
(* one step per change, with the document, the changes still to do and the *)
(* verdict on each change already seen.                                    *)
(***************************************************************************)
EXTENDS ResumeDiffs

CONSTANTS
    Resumes,     \* the documents a call may start from
    Changes,     \* the change proposals a caller may pass
    SkillSets,   \* the sets of verified skill keys a caller may pass
    Freedoms,    \* the freedom levels a caller may pass
    MaxChanges   \* bound on the length of the list of changes

ASSUME EngineAssumption ==
    /\ \A d \in Resumes : DOMAIN d \subseteq Field /\ d \in [DOMAIN d -> Value]
    /\ Changes \subseteq Change
    /\ Freedoms \subseteq Int
    /\ MaxChanges \in Nat

VARIABLES
    original,    \* original_resume, never mutated
    freedom,     \* the freedom argument
    allowed,     \* allowed_skill_keys
    todo,        \* the expanded changes not looked at yet
    doc,         \* result
    verdicts     \* applied and rejected, in the order the changes were seen

vars == <<original, freedom, allowed, todo, doc, verdicts>>

Init ==
    /\ original \in Resumes
    /\ freedom \in Freedoms
    /\ allowed \in SkillSets
    /\ \E n \in 0 .. MaxChanges : \E changes \in [1 .. n -> Changes] :
            todo = ExpandAll(changes)
    /\ doc = original
    /\ verdicts = <<>>

\* One iteration of the loop.
ApplyNext ==
    /\ todo # <<>>
    /\ LET r == ApplyChange(doc, Head(todo), freedom, allowed)
       IN  /\ doc' = r.doc
           /\ verdicts' = Append(verdicts, [change |-> Head(todo), reason |-> r.reason])
    /\ todo' = Tail(todo)
    /\ UNCHANGED <<original, freedom, allowed>>

Next == ApplyNext

Spec == Init /\ [][Next]_vars

-----------------------------------------------------------------------------
(* Properties.                                                             *)

\* The document keeps the fields it came with, and its facts have not moved:
\* whatever the changes and however free the edit, a protected field, a field no
\* level unlocks and the entries of education but its description stay as they
\* were (apply_diffs: "identity facts can never be fabricated").
FactsFrozen ==
    /\ DOMAIN doc = DOMAIN original
    /\ \A f \in DOMAIN doc :
            FieldClass[f] \in {"protected", "unlisted"} => doc[f] = original[f]

\* A field the level does not unlock is not edited.
FreedomRespected ==
    \A f \in DOMAIN doc :
        doc[f] # original[f] =>
            /\ FieldClass[f] \in DOMAIN UnlockLevel
            /\ UnlockLevel[FieldClass[f]] <= ClampFreedom(freedom)

\* What a change may touch: never a fact, and of the rest only what its level unlocks.
PolicyRespected == FactsFrozen /\ FreedomRespected

AppliedChanges == {i \in DOMAIN verdicts : verdicts[i].reason = "allowed"}
Occurrences(s, key) == Cardinality({i \in DOMAIN s : Fold(s[i]) = key})

\* How many items with this key one verdict took out of field f.
Taken(v, f, key) ==
    IF v.reason # "allowed" \/ v.change.path.field # f THEN 0
    ELSE IF v.change.action = "remove" THEN Occurrences(v.change.value.items, key)
    ELSE IF v.change.action = "replace" THEN 1
    ELSE 0

\* How many of them the applied changes took out.
TakenOut(seen, f, key) == FoldLeft(LAMBDA n, v : n + Taken(v, f, key), 0, seen)

WholeListReplaced(f) ==
    \E i \in AppliedChanges : /\ verdicts[i].change.path = [field |-> f, index |-> 0]
                              /\ verdicts[i].change.action = "replace"

\* No list item disappears that no applied change names: reorders, appends and
\* skill additions, repeated and mixed in any order, lose nothing, duplicates
\* included (the salvage of _apply_reorder "is never silently lost").
NothingSilentlyLost ==
    \A f \in DOMAIN original :
        IsList(original[f]) /\ ~WholeListReplaced(f) =>
            \A i \in DOMAIN original[f].items :
                LET key == Fold(original[f].items[i])
                IN  Occurrences(doc[f].items, key) + TakenOut(verdicts, f, key)
                        >= Occurrences(original[f].items, key)

\* A skill that is new in the list was verified, or an applied append wrote it:
\* neither add_skill nor reorder brings in an unverified one.
NewSkillsVerified ==
    \A f \in DOMAIN doc :
        FieldClass[f] = "skills" /\ IsList(doc[f]) /\ IsList(original[f]) =>
            \A i \in DOMAIN doc[f].items :
                \/ Fold(doc[f].items[i]) \in allowed
                \/ Occurrences(original[f].items, Fold(doc[f].items[i])) > 0
                \/ \E j \in AppliedChanges :
                      /\ verdicts[j].change.action = "append"
                      /\ verdicts[j].change.path.field = f
                      /\ verdicts[j].change.value.words = doc[f].items[i]

\* Reorders, appends and skill additions, in any order, neither lose an item of a
\* list nor bring in a skill nobody verified.
ListsKeepTheirItems == NothingSilentlyLost /\ NewSkillsVerified

\* More freedom never turns an accepted list of changes into a refused one, nor
\* changes what it produces.
FreedomMonotone ==
    \A g \in Freedoms :
        /\ g >= freedom
        /\ ApplyDiffs(original, todo, freedom, allowed).rejected = <<>>
        => ApplyDiffs(original, todo, g, allowed) = ApplyDiffs(original, todo, freedom, allowed)
=============================================================================
