-------------------------- MODULE CandidateEvidence --------------------------
(***************************************************************************)
(* The evidence a resume gives about its own candidate                     *)
(* (resume_kit_evidence.builder) and the comparison of a tailored resume   *)
(* with its master (resume_kit_evidence.fabrication).                      *)
(*                                                                         *)
(* Built evidence is a sequence of records of the truth validator with the *)
(* kind they carry.  Literal tags ("summary", "award", a section's title)  *)
(* name no claim and are left out.                                         *)
(***************************************************************************)
EXTENDS TruthReport, ResumeReport

CONSTANTS
    FieldOrder,  \* the fields, in the order of the document
    Heading      \* entry -> the fields its heading is made of, in order

HeadingFields == UNION {ToSet(Heading[e]) : e \in DOMAIN Heading}

\* The fields whose texts become records: the descriptions of education and the
\* contact details do not.
Mined(f) ==
    /\ f \notin HeadingFields
    /\ FieldSection[f] \notin {"personalInfo", "education"}
    /\ FieldClass[f] # "protected"

ASSUME EvidenceAssumption ==
    /\ FieldOrder \in Seq(Field)
    /\ ToSet(FieldOrder) = Field
    \* a heading is part of its own entry
    /\ \A e \in DOMAIN Heading :
          /\ Heading[e] \in Seq(Field) \ {<<>>}
          /\ \A f \in ToSet(Heading[e]) : /\ FieldEntry[f] = e
                                          /\ FieldSection[f] = FieldSection[Heading[e][1]]
    \* where the schema keeps the summary, the skills and the certifications
    /\ \A f \in Field :
          /\ FieldClass[f] = "summary" => FieldSection[f] = "summary"
          /\ FieldClass[f] = "skills" => FieldSection[f] = "additional"
          /\ FieldClass[f] = "lists" /\ f \in ClaimFields => FieldSection[f] = "additional"
    \* _collect_claims reads no field build_candidate_evidence leaves out
    /\ \A f \in ClaimFields : f \in Field /\ (Mined(f) \/ f \in HeadingFields)

FieldsOf(doc) == ItemsAt(FieldOrder, {i \in DOMAIN FieldOrder : FieldOrder[i] \in DOMAIN doc})

HeadingParts(doc, e) ==
    NonEmptyItems([i \in DOMAIN Heading[e] |-> WordsOf(doc[Heading[e][i]])])

\* The last part of a heading names the employer or the project.
Owner(doc, e) == WordsOf(doc[Last(Heading[e])])

EvidenceKind(f) ==
    CASE FieldClass[f] = "summary" -> "master_resume"
      [] FieldSection[f] = "workExperience" -> "work_history"
      [] FieldSection[f] = "personalProjects" -> "project"
      [] FieldSection[f] = "education" -> "education"
      [] FieldClass[f] = "skills" -> "skill"
      [] FieldClass[f] = "lists" -> IF f \in ClaimFields THEN "certification" ELSE "other"
      [] OTHER -> "source_custom"

\* _evidence_to_master: the sections a kind of evidence stands for.
Grounds(kind, tags) ==
    CASE kind = "master_resume" -> {"summary"}
      [] kind = "work_history" -> IF tags = {} THEN {} ELSE {"workExperience"}
      [] kind \in {"skill", "certification"} -> {"additional"}
      [] OTHER -> {}

EvidenceId(ev) == <<ev.kind, Fold(ev.content)>>

\* _record: nothing for a blank text; blank tags are dropped.
Record(kind, words, tags, confirmed) ==
    IF words = <<>> THEN <<>>
    ELSE << [kind |-> kind, content |-> words, tags |-> tags \ {<<>>}, refuting |-> FALSE,
             refuted |-> {}, confirmed |-> confirmed,
             grounds |-> Grounds(kind, tags \ {<<>>})] >>

RecordsOf(doc, f) ==
    LET e     == FieldEntry[f]
        texts == IF IsText(doc[f]) THEN <<doc[f].words>> ELSE ItemsOf(doc[f])
        Tags(w) == IF IsDescription(f) THEN {Owner(doc, e)}
                   ELSE IF FieldSection[f] = "additional" THEN {w} ELSE {}
    IN  IF e \in DOMAIN Heading /\ f = Heading[e][1]
        THEN Record(EvidenceKind(f), FlattenSeq(HeadingParts(doc, e)),
                    ToSet(HeadingParts(doc, e)), FALSE)
        ELSE IF Mined(f)
        THEN FlattenSeq([i \in DOMAIN texts |->
                            Record(EvidenceKind(f), texts[i], Tags(texts[i]), FALSE)])
        ELSE <<>>

\* An approved claim is a text, or a ready-made record, which becomes confirmed.
ApprovedRecord(claim) ==
    IF "content" \in DOMAIN claim
    THEN IF claim.content = <<>> THEN <<>> ELSE << [claim EXCEPT !.confirmed = TRUE] >>
    ELSE Record("user_statement", claim.words, {}, TRUE)

\* Of several records with one id the first one is kept.
FirstById(records) ==
    FoldLeft(LAMBDA kept, ev :
                IF \E i \in DOMAIN kept : EvidenceId(kept[i]) = EvidenceId(ev)
                THEN kept ELSE Append(kept, ev), <<>>, records)

\* build_candidate_evidence
BuildCandidateEvidence(doc, approved) ==
    FirstById(FlattenSeq([i \in DOMAIN FieldsOf(doc) |-> RecordsOf(doc, FieldsOf(doc)[i])])
              \o FlattenSeq([i \in DOMAIN approved |-> ApprovedRecord(approved[i])]))

-----------------------------------------------------------------------------
(* A tailored resume against its master.                                    *)

\* keyword appears in text between word boundaries.
Mentioned(words, text) ==
    /\ words # <<>>
    /\ \E i \in 0 .. Len(text) - Len(words) :
          Fold(SubSeq(text, i + 1, i + Len(words))) = Fold(words)

\* _extract_all_text: contact details and dates are not part of it.
AllText(doc) ==
    LET read == SelectSeq(FieldsOf(doc),
                    LAMBDA f : FieldClass[f] # "protected" \/ f \in HeadingFields)
        TextOf(f) == IF IsText(doc[f]) THEN doc[f].words
                     ELSE IF IsList(doc[f]) THEN FlattenSeq(doc[f].items) ELSE <<>>
    IN  FlattenSeq([i \in DOMAIN read |-> TextOf(read[i])])

ItemKeys(doc, fields) ==
    {Fold(w) : w \in UNION {ToSet(ItemsOf(doc[f])) : f \in fields \cap DOMAIN doc}}
SkillFields  == {f \in Field : FieldClass[f] = "skills"}
CertFields   == {f \in ClaimFields : FieldClass[f] = "lists"}
CompanyFields(doc) ==
    {Last(Heading[e]) : e \in {x \in DOMAIN Heading : FieldSection[Heading[x][1]] = "workExperience"}}
        \cap DOMAIN doc
Companies(doc) == {Fold(WordsOf(doc[f])) : f \in CompanyFields(doc)}

\* validate_master_alignment: what the tailored resume has and the master lacks.
\* A skill the master has a variant of, or mentions, is reported for information.
AlignmentViolations(tailored, master, allowed) ==
    LET mine == ItemKeys(master, SkillFields)
        Variant(k) == \/ \E m \in mine : m # <<>> /\ (Mentioned(k, m) \/ Mentioned(m, k))
                      \/ Mentioned(k, AllText(master))
        Violation(type, key, critical) == [type |-> type, key |-> key, critical |-> critical]
    IN  {Violation("skill", k, ~Variant(k)) :
            k \in (ItemKeys(tailored, SkillFields) \ mine) \ allowed}
        \cup {Violation("cert", k, TRUE) :
            k \in ItemKeys(tailored, CertFields) \ ItemKeys(master, CertFields)}
        \cup {Violation("company", k, TRUE) :
            k \in (Companies(tailored) \ Companies(master)) \ {<<>>}}

Critical(violations) == {v \in violations : v.critical}

Dropped(violations, type) == {v.key : v \in {x \in Critical(violations) : x.type = type}}

\* Mutant: certifications are left as they are.
FixAlignment_SkillsOnly(tailored, violations) ==
    [f \in DOMAIN tailored |->
        IF f \in SkillFields
        THEN List(SelectSeq(tailored[f].items,
                            LAMBDA w : Fold(w) \notin Dropped(violations, "skill")))
        ELSE tailored[f]]

\* fix_alignment_violations: a fabricated employer takes its whole entry along.
FixAlignment(tailored, violations) ==
    LET gone == {FieldEntry[f] : f \in {g \in CompanyFields(tailored) :
                    Fold(WordsOf(tailored[g])) \in Dropped(violations, "company")}}
        Cleaned(items, type) ==
            List(ItemsAt(items, {i \in DOMAIN items : Fold(items[i]) \notin Dropped(violations, type)}))
    IN  [f \in {g \in DOMAIN tailored : FieldEntry[g] \notin gone} |->
            IF f \in SkillFields THEN Cleaned(tailored[f].items, "skill")
            ELSE IF f \in CertFields THEN Cleaned(tailored[f].items, "cert")
            ELSE tailored[f]]
=============================================================================
