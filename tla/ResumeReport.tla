---------------------------- MODULE ResumeReport ----------------------------
(***************************************************************************)
(* What a caller is told about an edited resume: the field-level diff of   *)
(* resume_kit_alignment.diff and the structural warnings of                *)
(* resume_kit_alignment.verify.  Both read the document the diff engine    *)
(* produced, before the schema validates it, so a list field may hold a    *)
(* bare text here.                                                         *)
(***************************************************************************)
EXTENDS ResumeDiffs

CONSTANTS
    FieldEntry,  \* field -> the entry of its section it belongs to
    Metric       \* the words that state a metric (_METRIC_RE)

ASSUME ReportAssumption ==
    /\ DOMAIN FieldEntry = Field
    /\ Metric \subseteq Word

WordsOf(v) == IF IsText(v) THEN v.words ELSE <<>>
ItemsOf(v) == IF IsList(v) THEN NonEmptyItems(v.items) ELSE <<>>

NoText == <<>>
Diff(field, kind, old, new) == [field |-> field, kind |-> kind, old |-> old, new |-> new]
Added(field, new)         == Diff(field, "added", NoText, new)
Removed(field, old)       == Diff(field, "removed", old, NoText)
Modified(field, old, new) == Diff(field, "modified", old, new)

\* _append_scalar_description_change
ScalarDiffs(f, old, new) ==
    CASE old = new                -> <<>>
      [] old # new /\ new = <<>>  -> << Removed(f, old) >>
      [] old # new /\ old = <<>>  -> << Added(f, new) >>
      [] OTHER                    -> << Modified(f, old, new) >>

\* _build_string_index: the first spelling of each case-folded item.
FirstSpellings(items) ==
    FoldLeft(LAMBDA kept, w : IF \E i \in DOMAIN kept : Fold(kept[i]) = Fold(w)
                              THEN kept ELSE Append(kept, w), <<>>, items)

\* _append_index_added_removed: order, spelling and repetition are not changes.
IndexDiffs(f, old, new) ==
    LET Missing(here, there) ==
            SelectSeq(FirstSpellings(here),
                      LAMBDA w : \A i \in DOMAIN there : Fold(there[i]) # Fold(w))
        gained == Missing(new, old)
        lost   == Missing(old, new)
    IN  [i \in DOMAIN gained |-> Added(f, gained[i])]
        \o [i \in DOMAIN lost |-> Removed(f, lost[i])]

\* SequenceMatcher.find_longest_match between old[i .. k] and new[j .. l]: the
\* longest common run, the first in old, then the first in new.
LongestRun(old, new, i, k, j, l) ==
    LET runs == {r \in [at : i .. k, to : j .. l, size : 1 .. k - i + 1] :
                    /\ r.at + r.size - 1 <= k
                    /\ r.to + r.size - 1 <= l
                    /\ \A d \in 0 .. r.size - 1 : old[r.at + d] = new[r.to + d]}
        Before(r, s) == \/ r.size > s.size
                        \/ r.size = s.size /\ r.at < s.at
                        \/ r.size = s.size /\ r.at = s.at /\ r.to <= s.to
    IN  {r \in runs : \A s \in runs : Before(r, s)}

\* The pairs of old and new items the matcher leaves in place, in order.
MatchedPairs(old, new) ==
    LET Span == (1 .. Len(old) + 1) \X (0 .. Len(old))
                    \X (1 .. Len(new) + 1) \X (0 .. Len(new))
        M[q \in Span] ==
            LET run == LongestRun(old, new, q[1], q[2], q[3], q[4])
            IN  IF run = {} THEN <<>>
                ELSE LET r == CHOOSE x \in run : TRUE
                     IN  M[<<q[1], r.at - 1, q[3], r.to - 1>>]
                         \o [d \in 1 .. r.size |-> <<r.at + d - 1, r.to + d - 1>>]
                         \o M[<<r.at + r.size, q[2], r.to + r.size, q[4]>>]
    IN  M[<<1, Len(old), 1, Len(new)>>]

\* One opcode that is not "equal": old and new items are paired by offset.
SegmentDiffs(f, old, new) ==
    [i \in 1 .. (IF Len(old) > Len(new) THEN Len(old) ELSE Len(new)) |->
        IF i > Len(new) THEN Removed(f, old[i])
        ELSE IF i > Len(old) THEN Added(f, new[i])
        ELSE Modified(f, old[i], new[i])]

\* _append_list_changes
ListDiffs(f, old, new) ==
    LET pairs == << <<0, 0>> >> \o MatchedPairs(old, new) \o << <<Len(old) + 1, Len(new) + 1>> >>
        Gap(p) == SegmentDiffs(f, SubSeq(old, pairs[p][1] + 1, pairs[p + 1][1] - 1),
                                  SubSeq(new, pairs[p][2] + 1, pairs[p + 1][2] - 1))
    IN  FlattenSeq([p \in 1 .. Len(pairs) - 1 |-> Gap(p)])

\* The project bullets are only compared as part of their entry.
IsDescription(f) == FieldClass[f] \in {"experience", "education"}

FieldDiffs(f, old, new) ==
    IF FieldClass[f] \in {"skills", "lists"} THEN IndexDiffs(f, ItemsOf(old), ItemsOf(new))
    ELSE IF FieldClass[f] \in {"summary", "education"} THEN ScalarDiffs(f, WordsOf(old), WordsOf(new))
    ELSE IF FieldClass[f] = "experience" /\ FieldSection[f] = "workExperience"
    THEN ListDiffs(f, ItemsOf(old), ItemsOf(new))
    ELSE <<>>

\* _append_entry_changes: an entry whose fields differ, the descriptions of
\* experience and education left aside.
EntryDiffs(original, improved) ==
    {FieldEntry[f] : f \in {g \in DOMAIN original :
        /\ FieldSection[g] \in {"workExperience", "education", "personalProjects"}
        /\ IsDescription(g) => FieldSection[g] = "personalProjects"
        /\ original[g] # improved[g]}}

\* calculate_resume_diff
ResumeDiff(original, improved) ==
    [fields  |-> FlattenSeq([i \in 1 .. Cardinality(DOMAIN original) |->
                    LET f == SetToSeq(DOMAIN original)[i]
                    IN  FieldDiffs(f, original[f], improved[f])]),
     entries |-> EntryDiffs(original, improved)]

-----------------------------------------------------------------------------
(* verify_diff_result                                                      *)

IdentityFields(doc) ==
    {f \in DOMAIN doc : /\ FieldClass[f] = "protected"
                        /\ FieldSection[f] \in {"workExperience", "education"}}

Entries(doc, section) == {FieldEntry[f] : f \in {g \in DOMAIN doc : FieldSection[g] = section}}

Count(v) ==
    IF IsText(v) THEN Len(v.words)
    ELSE IF IsList(v) THEN FoldLeft(LAMBDA n, w : n + Len(w), 0, v.items) ELSE 0

DescriptionWords(doc) ==
    LET counted == SetToSeq({f \in DOMAIN doc : FieldClass[f] \in {"experience", "summary"}})
    IN  FoldLeft(LAMBDA n, f : n + Count(doc[f]), 0, counted)

InventedMetrics(c) ==
    IF c.action \in {"replace", "append"} /\ IsText(c.value)
    THEN (ToSet(c.value.words) \ ToSet(WordsOf(c.original))) \cap Metric
    ELSE {}

VerifyWarnings(original, result, applied) ==
    IF applied = <<>> THEN {"no_applied_changes"}
    ELSE {w \in {"section_count_changed", "identity_field_changed",
                 "word_count_explosion", "invented_metric"} :
            CASE w = "section_count_changed" ->
                    \E s \in {"workExperience", "education", "personalProjects"} :
                        Cardinality(Entries(original, s)) # Cardinality(Entries(result, s))
              [] w = "identity_field_changed" ->
                    \E f \in IdentityFields(original) :
                        /\ WordsOf(original[f]) # <<>>
                        /\ WordsOf(original[f]) # WordsOf(result[f])
              [] w = "word_count_explosion" ->
                    /\ DescriptionWords(original) > 0
                    /\ 5 * DescriptionWords(result) > 9 * DescriptionWords(original)
              [] w = "invented_metric" ->
                    \E i \in DOMAIN applied : InventedMetrics(applied[i]) # {}}
=============================================================================
