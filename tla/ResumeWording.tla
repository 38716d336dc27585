---------------------------- MODULE ResumeWording ----------------------------
(***************************************************************************)
(* The wording pass that makes the refine version: a structure version is  *)
(* read back as a resume (resume_kit_scoring.projection), the analyzer     *)
(* finds openers, buzzwords and bullets without a figure (best_practices), *)
(* one edit per location is applied (standard_fix), and a gate refuses a   *)
(* result that changed more than wording (base_fix).                       *)
(*                                                                         *)
(* Resumes and lines are those of ResumeShape; the bullets of a role are   *)
(* the lines of a field.  doc.ids gives each role the id its file has for  *)
(* it.  An opener is matched at the start of a bullet and a buzzword at any *)
(* place of it, inside a longer word too: Cut and Stripped say what is left *)
(* of the phrase.                                                          *)
(***************************************************************************)
EXTENDS ResumeShape

CONSTANTS
    Roles,        \* the bullet fields, in the order of the resume
    OpenerRules,  \* phrase -> the rules with an opener it starts with
    Cut,          \* phrase -> what is left of it without that opener, a line
    Replacement,  \* phrase -> what a rewrite puts in the place of its opener, a line
    Capital,      \* phrase -> the phrase with a capital
    Stripped,     \* phrase -> what is left of it without its buzzwords, a line
    Figures,      \* the phrases with a digit
    ImpactVerbs   \* the phrases that claim an outcome

ASSUME WordingAssumption ==
    /\ Roles \in Seq(Field) /\ ToSet(Roles) = BulletFields
    /\ \A i, j \in DOMAIN Roles : Roles[i] = Roles[j] => i = j
    /\ DOMAIN OpenerRules = Phrase /\ Replacement \in [Phrase -> Line]
    /\ Cut \in [Phrase -> Line] /\ Stripped \in [Phrase -> Line]
    /\ Capital \in [Phrase -> Phrase] /\ \A p \in Phrase : Casefold[Capital[p]] = Casefold[p]
    /\ Figures \cup ImpactVerbs \subseteq Phrase

-----------------------------------------------------------------------------
(* Reading a structure version. *)

\* _unique_text: blank texts and repetitions are left out.
UniqueText(lines) ==
    FoldLeft(LAMBDA kept, line :
                IF line = <<>> \/ \E i \in DOMAIN kept : Key(kept[i]) = Key(line) THEN kept
                ELSE Append(kept, line),
             <<>>, lines)

\* _format_range.  Years that stayed whole are a bullet of a project; those of a
\* role are read only when neither end was taken from them.
YearsRead(f, lines) ==
    LET range == lines[1] \o lines[2]
    IN  IF f \in ProjectYears THEN <<range, lines[3]>>
        ELSE IF range = <<>> THEN <<lines[3]>> ELSE <<range>>

\* project_builddoc_from_canonical.  Custom sections were left out of the
\* structure, and roles are numbered by their position.
Projected(resume) ==
    [fields |-> [f \in Field |-> IF f \in DateFields /\ resume.fields[f] # <<>>
                                 THEN YearsRead(f, resume.fields[f]) ELSE resume.fields[f]],
     lists  |-> [k \in ListKind |-> UniqueText(resume.lists[k])],
     ids    |-> [f \in BulletFields |-> SelectInSeq(Roles, LAMBDA r : r = f)]]

-----------------------------------------------------------------------------
(* The analyzer.  A finding is [rule, at, ask, change]: what to write at a  *)
(* location, or a question only the user can answer.                        *)

At(doc, role, i) == <<"experience", doc.ids[role], i>>
SummaryAt == <<"summary">>

Suggest(rule, at, change) == [rule |-> rule, at |-> at, ask |-> FALSE, change |-> change]
Ask(rule, at) == [rule |-> rule, at |-> at, ask |-> TRUE, change |-> <<>>]

\* The more specific rules come first.
OpenerPrecedence ==
    <<"PASSIVE_OPENER", "VAGUE_IMPACT", "DUTY_PATTERN", "WEAK_OPENER", "FIRST_PERSON_OPENER">>

OpenerRule(line) ==
    LET hits == {i \in DOMAIN OpenerPrecedence : OpenerPrecedence[i] \in OpenerRules[line[1]]}
    IN  {OpenerPrecedence[i] : i \in {j \in hits : \A k \in hits : j <= k}}

\* _strip_prefix and _replace_prefix: an opener with nothing after it stays.
Reworded(line) ==
    LET rest == Cut[line[1]] \o Tail(line)
    IN  IF rest = <<>> THEN line
        ELSE IF Replacement[line[1]] # <<>> THEN Replacement[line[1]] \o rest
        ELSE <<Capital[rest[1]]>> \o Tail(rest)

\* _strip_words
WithoutBuzzwords(line) ==
    LET kept == FlattenSeq([i \in DOMAIN line |-> Stripped[line[i]]])
    IN  IF kept = <<>> THEN line ELSE kept

Mentions(line, phrases) == ToSet(line) \cap phrases # {}
HasBuzzword(line)       == \E i \in DOMAIN line : Stripped[line[i]] # <<line[i]>>

\* The rewrites of one bullet: its opener's first, then its buzzwords'.
BulletFindings(at, line) ==
    [i \in 1 .. Cardinality(OpenerRule(line)) |->
        Suggest(CHOOSE r \in OpenerRule(line) : TRUE, at, Reworded(line))]
    \o IF HasBuzzword(line) THEN <<Suggest("BUZZWORD", at, WithoutBuzzwords(line))>> ELSE <<>>

\* _bullets
Bullets(doc) ==
    FlattenSeq([r \in DOMAIN Roles |->
        LET lines == doc.fields[Roles[r]]
        IN  [i \in DOMAIN lines |-> [at |-> At(doc, Roles[r], i), line |-> lines[i]]]])

\* analyze_best_practices: the rewrites in the order of the resume, the bullets
\* without a figure, those with an impact verb first, and the summary.
WordingReport(doc) ==
    LET bullets  == Bullets(doc)
        bare     == {i \in DOMAIN bullets : ~Mentions(bullets[i].line, Figures)}
        strong   == {i \in bare : Mentions(bullets[i].line, ImpactVerbs)}
        ranked   == ItemsAt(bullets, strong) \o ItemsAt(bullets, bare \ strong)
        lines    == doc.fields[SummaryField]
        summary  == ItemsAt(lines, {i \in DOMAIN lines : HasBuzzword(lines[i])})
    IN  FlattenSeq([i \in DOMAIN bullets |-> BulletFindings(bullets[i].at, bullets[i].line)])
        \o [i \in DOMAIN ranked |-> Ask("MISSING_QUANTIFICATION", ranked[i].at)]
        \o [i \in DOMAIN summary |-> Suggest("BUZZWORD", SummaryAt, WithoutBuzzwords(summary[i]))]

-----------------------------------------------------------------------------
(* The edits.  answers maps the key of a finding to the lines of the user's *)
(* text; what is not answered is not in its domain.                         *)

FindingKey(f) == <<f.rule, f.at>>

First(findings, Test(_)) ==
    LET hits == {i \in DOMAIN findings : Test(findings[i])}
    IN  {i \in hits : \A j \in hits : i <= j}

\* The one edit of a location: an answered question, else the first rewrite.
Winner(findings, answers, at) ==
    LET answered == First(findings, LAMBDA f : f.at = at /\ f.ask /\ FindingKey(f) \in DOMAIN answers)
    IN  IF answered # {} THEN answered
        ELSE First(findings, LAMBDA f : f.at = at /\ ~f.ask)

\* Mutant: every rewrite of a location is taken for applied.
Applied_WholeGroup(findings, answers) ==
    {i \in DOMAIN findings : ~findings[i].ask \/ FindingKey(findings[i]) \in DOMAIN answers}

\* The findings that are applied; the others are deferred.
Applied(findings, answers) ==
    UNION {Winner(findings, answers, findings[i].at) : i \in DOMAIN findings}

\* What an edit writes, as validation splits it into lines.
EditLines(f, answers) ==
    IF f.ask THEN answers[FindingKey(f)] ELSE <<f.change>>

\* _apply_to_location: the first role with the id and so many bullets.
Addressed(doc, role, i) ==
    \A j, k \in DOMAIN Roles :
        j < k /\ Roles[k] = role =>
            ~(doc.ids[Roles[j]] = doc.ids[role] /\ i \in DOMAIN doc.fields[Roles[j]])

\* The lines at a location after the edits.
LinesAt(doc, findings, answers, at, line) ==
    LET edits == {i \in Applied(findings, answers) : findings[i].at = at}
    IN  IF edits = {} THEN <<line>>
        ELSE EditLines(findings[CHOOSE i \in edits : TRUE], answers)

\* apply_best_practices_edits: an edit may turn one bullet into several or none.
ApplyEdits(doc, findings, answers) ==
    LET BulletLines(f, i) ==
            IF Addressed(doc, f, i)
            THEN LinesAt(doc, findings, answers, At(doc, f, i), doc.fields[f][i])
            ELSE <<doc.fields[f][i]>>
        LinesOf(f) ==
            CASE f \in BulletFields ->
                   FlattenSeq([i \in DOMAIN doc.fields[f] |-> BulletLines(f, i)])
              [] f = SummaryField ->
                   FlattenSeq([i \in DOMAIN doc.fields[f] |->
                                 LinesAt(doc, findings, answers, SummaryAt, doc.fields[f][i])])
              [] OTHER -> doc.fields[f]
    IN  [doc EXCEPT !.fields = [f \in Field |-> LinesOf(f)]]

\* _wording_shape: the wording of the summary and the bullets is masked.
WordingShape(doc) ==
    [doc EXCEPT !.fields = [f \in Field |->
        IF f \in BulletFields THEN Len(doc.fields[f])
        ELSE IF f = SummaryField THEN 0 ELSE doc.fields[f]]]

\* content_preserved, which here implies claims_preserved.
ContentPreserved(before, after) == WordingShape(before) = WordingShape(after)
=============================================================================
