-------------------------- MODULE ReviewController --------------------------
(***************************************************************************)
(* The section cursor of a human review (resume_kit_alignment.review) and  *)
(* the keys by which the edit session correlates decisions with changes    *)
(* (resume_kit_facade.edit_session).                                       *)
(*                                                                         *)
(* A review is over a sequence of proposed changes.  The key of a change   *)
(* ("path|action", "path|action#2", ...) is its position in the sequence.  *)
(* Sections are ordered by their first change, so the section list of the  *)
(* code is determined by the sequence and is not stored again.             *)
(***************************************************************************)
EXTENDS ResumeDiffs

CONSTANT NoSection     \* current_section = None

ASSUME NoSectionAssumption == \A f \in Field : FieldSection[f] # NoSection

Terminal  == {"approve", "reject", "edit", "skip"}
Applying  == {"approve", "edit"}
Reopening == {"retry", "reduce_freedom", "increase_freedom"}
ReviewAction == Terminal \cup Reopening

Keys(changes) == DOMAIN changes
KeySection(changes, k) == SectionOf(changes[k])

-----------------------------------------------------------------------------
(* The cursor.                                                             *)

\* k is the first change of its section.
OpensSection(changes, k) ==
    \A j \in Keys(changes) :
        KeySection(changes, j) = KeySection(changes, k) => k <= j

\* The first key of a section: the position of the section in _ordered_sections.
FirstKey(changes, section) ==
    CHOOSE k \in Keys(changes) :
        KeySection(changes, k) = section /\ OpensSection(changes, k)

\* The keys that open a section after the given one.
LaterOpeners(changes, section) ==
    {k \in Keys(changes) : OpensSection(changes, k) /\ k > FirstKey(changes, section)}

Least(S) == CHOOSE m \in S : \A n \in S : m <= n

FirstSection(changes) ==
    IF changes = <<>> THEN NoSection ELSE KeySection(changes, 1)

\* Mutant: after the last section comes the first one again.
NextSection_Wraps(changes, section) ==
    IF LaterOpeners(changes, section) = {} THEN FirstSection(changes)
    ELSE KeySection(changes, Least(LaterOpeners(changes, section)))

\* _next_section
NextSection(changes, section) ==
    IF LaterOpeners(changes, section) = {} THEN NoSection
    ELSE KeySection(changes, Least(LaterOpeners(changes, section)))

\* initialize: positioned at the first section; complete when there is none.
InitialCursor(changes) == FirstSection(changes)

\* apply_decision: a terminal action advances, a reopening one stays.
AdvancedCursor(changes, cursor, action) ==
    IF action \in Terminal THEN NextSection(changes, cursor) ELSE cursor

-----------------------------------------------------------------------------
(* Correlating decisions with changes.                                     *)

SameSlot(c, d) == c.path = d.path /\ c.action = d.action

\* _key_for_change: the first key not excluded whose change is the target, or
\* failing that whose change has its path and action.  The set is empty when no
\* key is left, else it holds that one key.
KeyFor(changes, target, excluded) ==
    LET free  == Keys(changes) \ excluded
        equal == {k \in free : changes[k] = target}
        slot  == {k \in free : SameSlot(changes[k], target)}
    IN  IF equal # {} THEN {Least(equal)}
        ELSE IF slot # {} THEN {Least(slot)} ELSE {}

\* _terminal_decision_keys: each terminal decision, in order, takes the key its
\* change correlates with.
TerminalKeys(changes, decisions) ==
    FoldLeft(LAMBDA keys, d :
                IF d.action \in Terminal THEN keys \cup KeyFor(changes, d.change, keys)
                ELSE keys,
             {}, decisions)

\* _section_has_undecided_change
HasUndecided(changes, logged, section) ==
    \E k \in Keys(changes) : KeySection(changes, k) = section /\ k \notin logged

\* Mutant: one decision finishes a section.
HeldCursor_NoHold(changes, logged, cursor, action) ==
    AdvancedCursor(changes, cursor, action)

\* decide_change: apply_decision, then hold the cursor on the section while one
\* of its changes has no terminal decision.
HeldCursor(changes, logged, cursor, action) ==
    IF action \in Terminal /\ HasUndecided(changes, logged, cursor)
    THEN cursor
    ELSE AdvancedCursor(changes, cursor, action)

-----------------------------------------------------------------------------
(* What a cursor of a review must satisfy.                                  *)

\* Every undecided change lies in the section of the cursor or a later one.
NothingSkipped(changes, logged, cursor) ==
    \A k \in Keys(changes) \ logged :
        /\ cursor # NoSection
        /\ FirstKey(changes, cursor) <= FirstKey(changes, KeySection(changes, k))

\* Every decided change lies in the section of the cursor or an earlier one.
DecidedBehind(changes, logged, cursor) ==
    \A k \in logged :
        cursor # NoSection =>
            FirstKey(changes, KeySection(changes, k)) <= FirstKey(changes, cursor)

\* The section of the cursor has a change to answer.
Answerable(changes, logged, cursor) ==
    cursor # NoSection => HasUndecided(changes, logged, cursor)
=============================================================================
