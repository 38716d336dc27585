---------------------------- MODULE ResumeDiffs -----------------------------
(***************************************************************************)
(* Change proposals and the engine that applies them to a resume           *)
(* (resume_kit_alignment.apply, resume_kit_policy.path_policy).            *)
(*                                                                         *)
(* A resume is a function from its fields to values.  A field stands for   *)
(* one dotted path without a trailing index ("summary",                    *)
(* "workExperience[0].description"); a path is a field with an index, 0    *)
(* for the whole field and i for its i-th item.  A change is a record      *)
(*     [path, action, original, value, terminology]                        *)
(* where terminology tells whether its reason starts with the prefix of a  *)
(* proposal that mirrors the employer's wording.                           *)
(***************************************************************************)
EXTENDS ResumeText, Integers, FiniteSets

CONSTANTS
    Field,        \* the dotted paths of a resume, without trailing index
    FieldClass,   \* field -> how the path policy classifies it
    FieldSection  \* field -> the top-level section it belongs to

Class == {"skills", "lists", "experience", "summary", "education",
          "protected", "unlisted"}

ASSUME FieldAssumption ==
    /\ FieldClass \in [Field -> Class]
    /\ DOMAIN FieldSection = Field

Action == {"replace", "append", "reorder", "remove", "add_skill"}

\* A change proposal as the schema admits it.
Change == [path : [field : Field, index : Nat], action : Action,
           original : Value, value : Value, terminology : BOOLEAN]

FreedomMin == 0
FreedomMax == 10

-----------------------------------------------------------------------------
(* The path policy.                                                        *)

ClassOf(path) == FieldClass[path.field]
SectionOf(change) == FieldSection[change.path.field]

\* Protected fields, and any path into an education entry but its description.
IsPathBlocked(path) ==
    \/ ClassOf(path) = "protected"
    \/ ClassOf(path) = "education" /\ path.index # 0

IsPathAllowed(path) ==
    \/ ClassOf(path) = "experience"
    \/ ClassOf(path) \in {"skills", "lists", "summary", "education"} /\ path.index = 0

\* The freedom level that unlocks each class of path.
UnlockLevel == [skills |-> 0, lists |-> 2, experience |-> 4, summary |-> 6, education |-> 8]

\* Mutant: a level out of range falls back to the strictest one.
ClampFreedom_Strictest(freedom) ==
    IF freedom \in FreedomMin .. FreedomMax THEN freedom ELSE FreedomMin

ClampFreedom(freedom) ==
    IF freedom < FreedomMin THEN FreedomMin
    ELSE IF freedom > FreedomMax THEN FreedomMax ELSE freedom

\* Mutant: no whitelist, what is not blocked and has no level is allowed.
PolicyReason_NoAllowGate(path, freedom) ==
    CASE IsPathBlocked(path) -> "blocked_field"
      [] ~IsPathBlocked(path) ->
            IF /\ ClassOf(path) \in DOMAIN UnlockLevel
               /\ UnlockLevel[ClassOf(path)] > ClampFreedom(freedom)
            THEN "freedom_too_low" ELSE "allowed"

\* evaluate_change_policy: block gates win over allow gates at every level.
PolicyReason(path, freedom) ==
    CASE IsPathBlocked(path) -> "blocked_field"
      [] ~IsPathBlocked(path) /\ ~IsPathAllowed(path) -> "blocked_path"
      [] ~IsPathBlocked(path) /\ IsPathAllowed(path) ->
            IF UnlockLevel[ClassOf(path)] > ClampFreedom(freedom)
            THEN "freedom_too_low" ELSE "allowed"

-----------------------------------------------------------------------------
(* Reading and writing a path.                                             *)

Resolves(doc, path) ==
    /\ path.field \in DOMAIN doc
    /\ path.index # 0 => /\ IsList(doc[path.field])
                         /\ path.index \in DOMAIN doc[path.field].items

ValueAt(doc, path) ==
    IF path.index = 0 THEN doc[path.field] ELSE Text(doc[path.field].items[path.index])

\* An indexed path only ever receives a text: lists live at whole fields.
SetAt(doc, path, value) ==
    IF path.index = 0
    THEN [doc EXCEPT ![path.field] = value]
    ELSE [doc EXCEPT ![path.field].items[path.index] = value.words]

-----------------------------------------------------------------------------
(* The five actions.  Each returns the new document and a reason code;     *)
(* every reason but "allowed" leaves the document as it was.               *)

Applied(doc)          == [doc |-> doc, reason |-> "allowed"]
Rejected(doc, reason) == [doc |-> doc, reason |-> reason]

NonEmptyText(value) == IsText(value) /\ value.words # <<>>

Replace(doc, c) ==
    IF ~OriginalMatches(ValueAt(doc, c.path), c.original)
    THEN Rejected(doc, "original_mismatch")
    ELSE IF ~IsText(c.value) THEN Rejected(doc, "unsupported_action")
    ELSE Applied(SetAt(doc, c.path, c.value))

AppendItem(doc, c) ==
    IF IsList(ValueAt(doc, c.path)) /\ NonEmptyText(c.value)
    THEN Applied(SetAt(doc, c.path, List(Append(ValueAt(doc, c.path).items, c.value.words))))
    ELSE Rejected(doc, "unsupported_action")

\* Mutant: the items the request omitted are not salvaged.
Reordered_NoSalvage(actual, proposed, isSkills, allowedSkills) ==
    FoldLeft(LAMBDA st, item :
                LET i == SelectInSeq(st.rest, LAMBDA w : Fold(w) = Fold(item))
                IN  IF i = 0 THEN st
                    ELSE [st EXCEPT !.out = Append(@, st.rest[i]), !.rest = RemoveAt(@, i)],
             [rest |-> actual, out |-> <<>>], proposed).out

\* _apply_reorder: place each requested item that is an original (each original
\* once, matched by case fold), insert a requested new skill only when it is a
\* verified target, then append the originals the request omitted.
Reordered(actual, proposed, isSkills, allowedSkills) ==
    LET known == {Fold(actual[i]) : i \in DOMAIN actual}
        Place(st, item) ==
            LET i == SelectInSeq(st.rest, LAMBDA w : Fold(w) = Fold(item))
            IN  IF i # 0
                THEN [st EXCEPT !.out = Append(@, st.rest[i]), !.rest = RemoveAt(@, i)]
                ELSE IF /\ isSkills
                        /\ item # <<>>
                        /\ Fold(item) \notin known \cup st.added
                        /\ Fold(item) \in allowedSkills
                THEN [st EXCEPT !.out = Append(@, item), !.added = @ \cup {Fold(item)}]
                ELSE st
    IN  FoldLeft(Place, [rest |-> actual, out |-> <<>>, added |-> {}], proposed \o actual).out

Reorder(doc, c, allowedSkills) ==
    IF IsList(ValueAt(doc, c.path)) /\ IsList(c.value)
    THEN Applied(SetAt(doc, c.path,
            List(Reordered(ValueAt(doc, c.path).items, c.value.items,
                           ClassOf(c.path) = "skills", allowedSkills))))
    ELSE Rejected(doc, "unsupported_action")

\* Deletes each named item once, by exact equality.
Without(items, named) ==
    FoldLeft(LAMBDA st, w :
                IF st.missing \/ ~Contains(st.items, w)
                THEN [st EXCEPT !.missing = TRUE]
                ELSE [st EXCEPT !.items = RemoveFirst(@, w)],
             [items |-> items, missing |-> FALSE], named)

RemoveItems(doc, c) ==
    IF ~IsList(ValueAt(doc, c.path)) \/ ~IsList(c.value)
    THEN Rejected(doc, "unsupported_action")
    ELSE IF c.original # Null /\ c.original # ValueAt(doc, c.path)
    THEN Rejected(doc, "original_mismatch")
    ELSE LET kept == Without(ValueAt(doc, c.path).items, c.value.items)
         IN  IF kept.missing
             THEN Rejected(doc, "original_mismatch")
             ELSE Applied(SetAt(doc, c.path, List(kept.items)))

AddSkill(doc, c, allowedSkills) ==
    IF \/ ClassOf(c.path) # "skills"
       \/ ~IsList(ValueAt(doc, c.path))
       \/ ~NonEmptyText(c.value)
    THEN Rejected(doc, "unsupported_action")
    ELSE LET items == ValueAt(doc, c.path).items
         IN  IF \E i \in DOMAIN items : Fold(items[i]) = Fold(c.value.words)
             THEN Rejected(doc, "duplicate_skill")
             ELSE IF Fold(c.value.words) \notin allowedSkills
             THEN Rejected(doc, "unsupported_skill")
             ELSE Applied(SetAt(doc, c.path, List(Append(items, c.value.words))))

\* One iteration of the loop of apply_diffs.
ApplyChange(doc, c, freedom, allowedSkills) ==
    IF PolicyReason(c.path, freedom) # "allowed"
    THEN Rejected(doc, PolicyReason(c.path, freedom))
    ELSE IF ~Resolves(doc, c.path) THEN Rejected(doc, "malformed_path")
    ELSE CASE c.action = "replace"   -> Replace(doc, c)
           [] c.action = "append"    -> AppendItem(doc, c)
           [] c.action = "reorder"   -> Reorder(doc, c, allowedSkills)
           [] c.action = "remove"    -> RemoveItems(doc, c)
           [] c.action = "add_skill" -> AddSkill(doc, c, allowedSkills)
           [] OTHER -> Rejected(doc, "unsupported_action")

\* A list-valued add_skill stands for one proposal per skill.
Expand(c) ==
    IF c.action = "add_skill" /\ IsList(c.value) /\ c.value.items # <<>>
    THEN [i \in DOMAIN c.value.items |-> [c EXCEPT !.value = Text(c.value.items[i])]]
    ELSE <<c>>

ExpandAll(changes) == FlattenSeq([i \in DOMAIN changes |-> Expand(changes[i])])

\* apply_diffs over a whole list of changes.
ApplyDiffs(original, changes, freedom, allowedSkills) ==
    FoldLeft(LAMBDA st, c :
                LET r == ApplyChange(st.doc, c, freedom, allowedSkills)
                IN  [doc |-> r.doc,
                     rejected |-> IF r.reason = "allowed" THEN st.rejected
                                  ELSE Append(st.rejected, r.reason)],
             [doc |-> original, rejected |-> <<>>], ExpandAll(changes))

-----------------------------------------------------------------------------
(* ResumeDocument.model_validate: list fields coerce a bare text to a list *)
(* and drop their empty items; an empty education description becomes null.*)

IsListField(f) == FieldClass[f] \in {"skills", "lists", "experience"}

NonEmptyItems(items) == ItemsAt(items, {i \in DOMAIN items : items[i] # <<>>})

Coerce(f, v) ==
    CASE IsListField(f) /\ IsText(v) -> List(NonEmptyItems(<<v.words>>))
      [] IsListField(f) /\ IsList(v) -> List(NonEmptyItems(v.items))
      [] IsListField(f) /\ v = Null  -> List(<<>>)
      [] ~IsListField(f) -> IF FieldClass[f] = "education" /\ v = Text(<<>>) THEN Null ELSE v

ValidateResume(doc) == [f \in DOMAIN doc |-> Coerce(f, doc[f])]
=============================================================================
