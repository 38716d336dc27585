----------------------------- MODULE ResumeShape -----------------------------
(***************************************************************************)
(* The shape of a resume: the policy that maps headings to canonical       *)
(* sections (resume_kit_policy.shape_policy), the report of where a resume *)
(* departs from it (resume_kit_scoring.shape_analyzer), the move of the    *)
(* resume into the canonical schema with a ledger of every token, and the  *)
(* two gates a structure version must pass (shape_fix).                    *)
(*                                                                         *)
(* A line is a sequence of phrases, the ones its delimiters separate.      *)
(* Casefold is the key duplicates are found by, Tokens the words a ledger  *)
(* accounts for, Heading the normal form headings are compared by.         *)
(*                                                                         *)
(* A source is [fields, lists, custom, meta, ids]: the lines of the default *)
(* fields, of the four lists under "additional", the custom sections in    *)
(* the order of their keys, the visible entries of sectionMeta, the ids of *)
(* the roles.  A custom section is [key, name, type, items], an item       *)
(* [title, details].                                                       *)
(*                                                                         *)
(* The years of a role or a project are one line in a source; a canonical  *)
(* resume has three, the start date, the end date and the text that stays  *)
(* whole because it is not a start and an end.                             *)
(***************************************************************************)
EXTENDS Items, Integers, FiniteSets

CONSTANTS
    Phrase, Casefold, Tokens, Heading,
    Field,           \* the default fields outside "additional"
    FieldSection,    \* field -> the canonical section it belongs to
    SummaryField,    \* the field with the summary
    BulletFields,    \* the description of each role
    DateFields,      \* the years of each role and of each project
    ProjectYears,    \* those of the projects
    Years,           \* the phrases that are a year
    ToWords,         \* "to", which separates like a dash
    Divided,         \* the phrases with a "to" in them that is no word, as "October"
    OpenEnds,        \* "present", "current", "now", "ongoing"
    Present,         \* "present"
    DefaultAliases,  \* heading -> canonical section
    SectionOrder,    \* the canonical sections, as the policy orders them
    SkillsHeading,   \* the heading "Technical Skills"
    ParserArtifacts, \* headings of lines a parser left behind
    MaxSkills, MaxSummaryWords, MaxRoleBullets  \* informational budgets

ASSUME ShapeAssumption ==
    /\ DOMAIN Casefold = Phrase /\ DOMAIN Tokens = Phrase /\ DOMAIN Heading = Phrase
    /\ \A p \in Phrase : Tokens[p] # {}
    /\ \A p, q \in Phrase : Casefold[p] = Casefold[q] => Tokens[p] = Tokens[q]
    /\ DOMAIN FieldSection = Field /\ {SummaryField} \cup BulletFields \subseteq Field
    /\ SummaryField \notin BulletFields
    /\ ProjectYears \subseteq DateFields /\ DateFields \subseteq Field
    /\ DateFields \cap (BulletFields \cup {SummaryField}) = {}
    /\ Years \cup ToWords \cup OpenEnds \cup {Present} \subseteq Phrase
    /\ Divided \subseteq Phrase \ (Years \cup ToWords \cup OpenEnds)

NamedKind == {"certifications", "awards", "languages"}
ListKind  == {"skills"} \cup NamedKind

ASSUME FieldsAreNoLists == Field \cap ListKind = {}

Line    == Seq(Phrase)
Item    == [title : Line, details : Seq(Line)]
Section == {s \in [key : STRING, name : Phrase, type : {"text", "items", "strings"}, items : Seq(Item)] :
              s.type = "strings" => \A i \in DOMAIN s.items : s.items[i].details = <<>>}

\* What the schema gives: a bullet is never blank, nor is the one text of a summary.
Source  == {doc \in [fields : [Field -> Seq(Line)], lists : [ListKind -> Seq(Line)],
                     custom : Seq(Section), meta : Seq([key : STRING, name : Phrase]),
                     ids : [BulletFields -> Int]] :
              /\ \A f \in DateFields \cup {SummaryField} : Len(doc.fields[f]) <= 1
              /\ \A f \in BulletFields \cup {SummaryField} : <<>> \notin ToSet(doc.fields[f])}

Sections  == {FieldSection[f] : f \in Field}

Key(line)         == [i \in DOMAIN line |-> Casefold[line[i]]]
LineTokens(line)  == UNION {Tokens[line[i]] : i \in DOMAIN line}
LinesTokens(lines) == UNION {LineTokens(lines[i]) : i \in DOMAIN lines}

IsHeading(line, heading) == Len(line) = 1 /\ Heading[line[1]] = heading
IsArtifact(line) == \E h \in ParserArtifacts : IsHeading(line, h)

\* _custom_texts: the texts of a custom section, each at its own path.
ItemLines(item) == <<item.title>> \o item.details
ItemTexts(section, i) ==
    LET lines == ItemLines(section.items[i])
    IN  [j \in DOMAIN lines |-> [at |-> <<section.key, i, j>>, line |-> lines[j]]]
CustomTexts(section) ==
    UNION {ToSet(ItemTexts(section, i)) : i \in DOMAIN section.items}
CustomLines(section) ==
    FlattenSeq([i \in DOMAIN section.items |-> ItemLines(section.items[i])])

-----------------------------------------------------------------------------
(* The policy and the report. *)

\* overlay_shape_policy: the project's aliases win, heading by heading.
Overlaid(overlay) ==
    [h \in DOMAIN DefaultAliases \cup DOMAIN overlay |->
        IF h \in DOMAIN overlay THEN overlay[h] ELSE DefaultAliases[h]]

\* canonical_section_for_heading
CanonicalSection(aliases, name) ==
    IF Heading[name] \in DOMAIN aliases THEN aliases[Heading[name]] ELSE "other"

Finding(family, section, target) == [family |-> family, section |-> section, target |-> target]

CustomContent(doc, aliases, i) ==
    [name |-> <<doc.custom[i].name>>, target |-> CanonicalSection(aliases, doc.custom[i].name),
     tokens |-> LinesTokens(CustomLines(doc.custom[i]))]

CanonicalContents(doc) ==
    {c \in {[name |-> <<s>>, target |-> s,
             tokens |-> UNION {LinesTokens(doc.fields[f]) : f \in {g \in Field : FieldSection[g] = s}}]
            : s \in Sections}
           \cup {[name |-> <<"additional", k>>, target |-> k, tokens |-> LinesTokens(doc.lists[k])]
                 : k \in ListKind}
     : c.tokens # {}}

MappingFindings(contents) ==
    {Finding(IF c.target = "other" THEN "custom_unmapped" ELSE "custom_mapped", c.name, c.target)
     : c \in contents}

EmbeddedHeadingFindings(doc, aliases) ==
    {Finding("embedded_heading", <<s.name>>, CanonicalSection(aliases, s.name))
     : s \in {t \in ToSet(doc.custom) : /\ t.type # "text" /\ t.items # <<>>
                                        /\ IsHeading(t.items[1].title, Heading[t.name])}}

Shared(a, b)  == Cardinality(a.tokens \cap b.tokens)
AtLeast(part, whole, percent) == whole > 0 /\ 100 * part >= percent * whole
Jaccard(a, b, percent) == AtLeast(Shared(a, b), Cardinality(a.tokens \cup b.tokens), percent)
Contained(a, b, percent) ==
    \E c \in {a, b} : AtLeast(Shared(a, b), Cardinality(c.tokens), percent)

\* _custom_overlap_findings over every two custom sections.
OverlapFindings(contents) ==
    LET Pairs(P(_, _)) == {p \in (DOMAIN contents) \X (DOMAIN contents) :
                             /\ p[1] < p[2] /\ Shared(contents[p[1]], contents[p[2]]) >= 2
                             /\ P(contents[p[1]], contents[p[2]])}
        Of(family, pairs) ==
            {Finding(family, contents[p[1]].name \o contents[p[2]].name,
                     IF contents[p[1]].target = contents[p[2]].target
                     THEN contents[p[1]].target ELSE "none") : p \in pairs}
    IN  Of("duplicate", Pairs(LAMBDA a, b : Jaccard(a, b, 92)))
        \cup Of("redundant", Pairs(LAMBDA a, b : ~Jaccard(a, b, 92) /\ Contained(a, b, 80)))

CanonicalDuplicateFindings(contents, canonical) ==
    {Finding("canonical_duplicate", p[1].name \o p[2].name, p[1].target)
     : p \in {q \in contents \X canonical : /\ q[1].target # "other" /\ q[1].target = q[2].target
                                            /\ Shared(q[1], q[2]) >= 2 /\ Jaccard(q[1], q[2], 80)}}

\* _observed_order: the entries of sectionMeta that have content, then the
\* custom sections without an entry.  Without sectionMeta the sections are
\* taken in the order of the policy.
ObservedOrder(doc, aliases) ==
    LET Lists == {k \in ListKind : LinesTokens(doc.lists[k]) # {}}
        TargetOf(meta) ==
            CASE meta.key = "additional" ->
                   IF Lists = {} THEN "none"
                   ELSE SelectSeq(SectionOrder, LAMBDA s : s \in Lists)[1]
              [] meta.key \in Field \cup Sections ->
                   LET fields == {f \in Field : meta.key \in {f, FieldSection[f]}}
                   IN  IF \A f \in fields : LinesTokens(doc.fields[f]) = {} THEN "none"
                       ELSE FieldSection[CHOOSE f \in fields : TRUE]
              [] OTHER -> CanonicalSection(aliases, meta.name)
        Named(key)  == \E i \in DOMAIN doc.meta : doc.meta[i].key = key
        rest        == SelectSeq(doc.custom, LAMBDA s : ~Named(s.key))
        entries     == [i \in DOMAIN doc.meta |-> <<doc.meta[i].name, TargetOf(doc.meta[i])>>]
    IN  IF doc.meta = <<>> THEN <<>>
        ELSE SelectSeq(entries, LAMBDA e : e[2] # "none")
             \o [i \in DOMAIN rest |-> <<rest[i].name, CanonicalSection(aliases, rest[i].name)>>]

Rank(section) ==
    IF section \in ToSet(SectionOrder) THEN SelectInSeq(SectionOrder, LAMBDA s : s = section)
    ELSE Len(SectionOrder) + 1

OrderFindings(observed) ==
    {Finding("order", <<observed[i][1]>>, observed[i][2])
     : i \in {j \in DOMAIN observed : \E h \in 1..(j - 1) : Rank(observed[h][2]) > Rank(observed[j][2])}}

NonBlank(lines) == Len(SelectSeq(lines, LAMBDA l : l # <<>>))

BudgetFindings(doc) ==
    {f \in {Finding("budget", <<"skills">>, "skills")} : NonBlank(doc.lists["skills"]) > MaxSkills}
    \cup {Finding("budget", <<SummaryField>>, "basics") :
             l \in {m \in ToSet(doc.fields[SummaryField]) : Len(m) > MaxSummaryWords}}
    \cup {Finding("budget", <<f>>, "work") :
             f \in {g \in BulletFields : NonBlank(doc.fields[g]) > MaxRoleBullets}}

\* analyze_resume_shape
ShapeReport(doc, aliases) ==
    LET contents == [i \in DOMAIN doc.custom |-> CustomContent(doc, aliases, i)]
    IN  MappingFindings(ToSet(contents)) \cup EmbeddedHeadingFindings(doc, aliases)
        \cup OverlapFindings(contents)
        \cup CanonicalDuplicateFindings(ToSet(contents), CanonicalContents(doc))
        \cup OrderFindings(ObservedOrder(doc, aliases)) \cup BudgetFindings(doc)

ReportTargets(report) ==
    LET mapped == {f \in report : f.family = "custom_mapped"}
    IN  [n \in {f.section[1] : f \in mapped} |->
            (CHOOSE f \in mapped : f.section[1] = n).target]

-----------------------------------------------------------------------------
(* The transform.  A build is [out, ledger]: the canonical lists and the     *)
(* fate of every token.                                                     *)

Entries(line, fate, at, target) ==
    {[token |-> t, fate |-> fate, at |-> at, target |-> target] : t \in LineTokens(line)}
Recorded(build, line, fate, at) ==
    [build EXCEPT !.ledger = @ \cup Entries(line, fate, at, <<>>)]

Units(kind, line) == IF kind = "skills" THEN [i \in DOMAIN line |-> <<line[i]>>] ELSE <<line>>

\* Mutant: the target of a moved item is named after it has been appended.
AddUnit_NamedLate(build, kind, unit, at) ==
    LET twins == {i \in DOMAIN build.out[kind] : Key(build.out[kind][i]) = Key(unit)}
        next  == Len(build.out[kind]) + 2
    IN  IF twins # {}
        THEN [build EXCEPT !.ledger = @ \cup UNION {Entries(unit, "deduped", at, <<kind, i>>) : i \in twins}]
        ELSE [build EXCEPT !.out[kind] = Append(@, unit),
                           !.ledger = @ \cup Entries(unit, "moved", at, <<kind, next>>)]

AddUnit(build, kind, unit, at) ==
    LET twins == {i \in DOMAIN build.out[kind] : Key(build.out[kind][i]) = Key(unit)}
    IN  IF twins # {}
        THEN [build EXCEPT !.ledger = @ \cup UNION {Entries(unit, "deduped", at, <<kind, i>>) : i \in twins}]
        ELSE [build EXCEPT !.out[kind] = Append(@, unit),
                           !.ledger = @ \cup Entries(unit, "moved", at,
                                                     <<kind, Len(build.out[kind]) + 1>>)]

AddLine(build, kind, heading, line, at) ==
    IF IsHeading(line, heading) THEN Recorded(build, line, "dropped_as_heading", at)
    ELSE IF IsArtifact(line) THEN Recorded(build, line, "dropped_as_parser_artifact", at)
    ELSE IF line = <<>> THEN build
    ELSE FoldLeft(LAMBDA b, unit : AddUnit(b, kind, unit, at), build, Units(kind, line))

\* add_skill_group and add_named_items: the lines, each with its path.
AddLines(build, kind, heading, lines, at) ==
    FoldLeft(LAMBDA b, i : AddLine(b, kind, heading, lines[i], at[i]), build,
             [i \in DOMAIN lines |-> i])

\* Mutant: the details of an item beside its title are not looked at.
Placeable_AnyItem(section, target) ==
    \/ section.type = "strings"
    \/ target \in NamedKind /\ section.type = "items"

\* add_custom_section: what a list can hold without loss.
Placeable(section, target) ==
    \/ section.type = "strings"
    \/ /\ target \in NamedKind /\ section.type = "items"
       /\ \A i \in DOMAIN section.items : /\ section.items[i].title # <<>>
                                          /\ ToSet(section.items[i].details) \subseteq {<<>>}

\* The fate of every text of a section that stays out of the canonical resume.
Disposed(build, section, fate) ==
    [build EXCEPT !.ledger = @ \cup
        UNION {Entries(t.line,
                       IF IsHeading(t.line, Heading[section.name]) THEN "dropped_as_heading"
                       ELSE IF IsArtifact(t.line) THEN "dropped_as_parser_artifact" ELSE fate,
                       t.at, <<>>) : t \in CustomTexts(section)}]

Target(section, decisions, report) ==
    LET targets == ReportTargets(report)
    IN  IF section.name \in DOMAIN decisions THEN decisions[section.name]
        ELSE IF section.name \in DOMAIN targets THEN targets[section.name] ELSE "other"

\* Only the four lists take a custom section, whoever maps it: another target
\* leaves it open.
Deferred(section, decisions, report) ==
    LET target == Target(section, decisions, report)
    IN  target # "other" /\ ~(target \in ListKind /\ Placeable(section, target))

PlaceCustom(build, section, decisions, report) ==
    LET target == Target(section, decisions, report)
        titles == [i \in DOMAIN section.items |-> section.items[i].title]
    IN  IF target = "other" THEN Disposed(build, section, "preserved_in_evidence")
        ELSE IF Deferred(section, decisions, report) THEN Disposed(build, section, "unresolved")
        ELSE AddLines(build, target, Heading[section.name], titles,
                      [i \in DOMAIN titles |-> <<section.key, i, 1>>])

\* _RANGE_SPLIT_RE: the start is before the first dash or "to", within a word too.
\* A dash is no phrase.
RangeStart(line) == IF line[1] \in Years THEN <<line[1]>> ELSE <<>>
AfterStart(line) ==
    LET rest == Tail(line)
    IN  IF rest # <<>> /\ rest[1] \in ToWords THEN Tail(rest) ELSE rest
RangeEnd(line) ==
    LET rest == AfterStart(line)
    IN  IF line[1] \in Divided \/ Len(rest) # 1 THEN <<>>
        ELSE IF rest[1] \in Years THEN rest
        ELSE IF rest[1] \in OpenEnds THEN <<Present>> ELSE <<>>

Lossless(line) ==
    \/ line = <<>>
    \/ RangeStart(line) # <<>> /\ (AfterStart(line) = <<>> \/ RangeEnd(line) # <<>>)

\* _parse_canonical_range: an end that is a year is taken even when the years
\* are not lossless and stay whole beside it.
CanonicalYears(line) ==
    IF line = <<>> THEN <<line, line, line>>
    ELSE <<RangeStart(line), RangeEnd(line), IF Lossless(line) THEN <<>> ELSE line>>

CanonicalFields(doc) ==
    [f \in Field |-> IF f \notin DateFields THEN doc.fields[f]
                     ELSE IF doc.fields[f] = <<>> THEN <<>> ELSE CanonicalYears(doc.fields[f][1])]

\* Where the ledger says the line of a field went: all of the years of a role to
\* its start date.
MovedTo(f, i, line) ==
    IF f \notin DateFields THEN <<f, i>> ELSE IF Lossless(line) THEN <<f, 1>> ELSE <<f, 3>>

EmptyBuild(doc) ==
    LET Moved(f, i, line) == Entries(line, "moved", <<f, i>>, MovedTo(f, i, line))
    IN  [out |-> [k \in ListKind |-> <<>>],
         ledger |-> UNION {UNION {Moved(f, i, doc.fields[f][i]) : i \in DOMAIN doc.fields[f]}
                           : f \in Field}]

NoHeading == ""
DefaultLists(doc) ==
    FoldLeft(LAMBDA b, k : AddLines(b, k, IF k = "skills" THEN SkillsHeading ELSE NoHeading,
                                    doc.lists[k], [i \in DOMAIN doc.lists[k] |-> <<k, i>>]),
             EmptyBuild(doc), <<"skills", "certifications", "awards", "languages">>)

AppliedFamilies == {"order", "canonical_duplicate", "duplicate", "redundant", "embedded_heading"}

\* apply_shape_transforms
ApplyShapeTransforms(doc, report, decisions) ==
    LET build == FoldLeft(LAMBDA b, s : PlaceCustom(b, s, decisions, report),
                          DefaultLists(doc), doc.custom)
        Names(deferred) == {<<s.name>> : s \in {t \in ToSet(doc.custom) :
                                deferred = Deferred(t, decisions, report)}}
    IN  [resume   |-> [fields |-> CanonicalFields(doc), lists |-> build.out],
         ledger   |-> build.ledger,
         applied  |-> {f \in report : f.family \in AppliedFamilies \/ f.section \in Names(FALSE)},
         deferred |-> {f \in report : f.family = "budget" \/ f.section \in Names(TRUE)}]

-----------------------------------------------------------------------------
(* The gates. *)

Merged(records, text) ==
    IF text.line = <<>> \/ \E r \in records : Key(r.line) = Key(text.line) THEN records
    ELSE records \cup {text}

\* seed_full_resume_evidence: a record per text, at the path it was read from;
\* a record that is already there stays as it is, path included.
SeedEvidence(evidence, doc) ==
    LET TextsOf(section) == FlattenSeq([i \in DOMAIN section.items |-> ItemTexts(section, i)])
        texts == FlattenSeq([i \in DOMAIN doc.custom |-> TextsOf(doc.custom[i])])
    IN  FoldLeft(Merged, evidence, texts)

Receipts(evidence) == UNION {{<<r.at, t>> : t \in LineTokens(r.line)} : r \in evidence}

AllowedFates == {"moved", "deduped", "preserved_in_evidence", "dropped_as_heading",
                 "dropped_as_parser_artifact"}

\* Mutant: a fate that is still open passes.
ContentLedgerOk_AnyFate(ledger, receipts) ==
    \A e \in ledger : e.fate = "preserved_in_evidence" => <<e.at, e.token>> \in receipts

\* content_ledger_ok with evidence_receipts_ok
ContentLedgerOk(ledger, receipts) ==
    \A e \in ledger :
        /\ e.fate \in AllowedFates
        /\ e.fate \in {"moved", "deduped"} => e.target # <<>>
        /\ e.fate = "preserved_in_evidence" => <<e.at, e.token>> \in receipts

\* The skills the source claims, in the spelling it gives them: its skills and
\* the lines of its custom lists, but for those the evidence keeps.
SourceClaims(doc, ledger) ==
    LET kept == {e.at : e \in {d \in ledger : d.fate = "preserved_in_evidence"}}
        Claimed(section) ==
            {t.line : t \in {u \in CustomTexts(section) :
                /\ section.type = "strings"
                /\ u.at \notin kept
                /\ ~IsHeading(u.line, Heading[section.name]) /\ ~IsArtifact(u.line)}}
    IN  UNION {ToSet(l) : l \in ToSet(doc.lists["skills"])
                                \cup UNION {Claimed(s) : s \in ToSet(doc.custom)}}

\* claims_preserved_across_sections.  Employers, titles and degrees are moved
\* field by field.
ClaimsPreserved(doc, resume, ledger) ==
    SourceClaims(doc, ledger) = UNION {ToSet(l) : l \in ToSet(resume.lists["skills"])}
=============================================================================
