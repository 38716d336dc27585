---------------------------- MODULE StructureStage ----------------------------
(***************************************************************************)
(* The structure and refine stages of a project (build_structure and       *)
(* build_refine of resume_kit_facade.baseline): the user edits the source  *)
(* resume and the shape policy, builds the structure version, reads what   *)
(* was deferred, decides, and builds again, or goes on to the refine       *)
(* version with or without an answer.  The evidence file grows with every  *)
(* structure build, refused or not.                                        *)
(***************************************************************************)
EXTENDS ResumeWording

CONSTANTS
    Sources,     \* the states of the source resume over its life
    Overlays,    \* alias tables config.json can lay over the policy
    Targets,     \* what a user can map a section to
    AnswerTexts, \* what a user can answer a question with, as lines
    MaxEdits,    \* bound on the changes of the source
    MaxDecided,  \* bound on the sections the user has answered for
    MaxAnswers,  \* bound on the questions answered in one build
    NoStructure  \* no structure version has been written, no build has run

ASSUME StageAssumption ==
    /\ Sources \subseteq Source
    /\ AnswerTexts \subseteq Seq(Line)

VARIABLES
    source,     \* the resolved source: base, or the active resume
    edits,      \* history: how often the source has changed
    overlay,    \* the shape policy of config.json
    decisions,  \* section name -> target, the answers of the next build
    evidence,   \* the active evidence file: [at, line] records
    structure,  \* the structure version: [resume, ledger, of], or NoStructure
    last        \* the result of the last build, NoStructure before the first;
                \* last.stage says of which version

vars == <<source, edits, overlay, decisions, evidence, structure, last>>

NoDecisions == [n \in {} |-> "other"]

Init ==
    /\ source \in Sources
    /\ edits = 0
    /\ overlay \in Overlays
    /\ decisions = NoDecisions
    /\ evidence = {}
    /\ structure = NoStructure
    /\ last = NoStructure

\* A new import or base version of the resume.
EditSource ==
    /\ edits < MaxEdits
    /\ source' \in Sources
    /\ edits' = edits + 1
    /\ UNCHANGED <<overlay, decisions, evidence, structure, last>>

ConfigureShape ==
    /\ overlay' \in Overlays
    /\ UNCHANGED <<source, edits, decisions, evidence, structure, last>>

\* The user answers for a custom section the last build reported on.
Decide ==
    /\ last # NoStructure
    /\ last.stage = "structure"
    /\ \E f \in last.applied \cup last.deferred, target \in Targets :
        /\ f.family \in {"custom_mapped", "custom_unmapped"}
        /\ Cardinality(DOMAIN decisions \cup {f.section[1]}) <= MaxDecided
        /\ decisions' = [n \in DOMAIN decisions \cup {f.section[1]} |->
                            IF n = f.section[1] THEN target ELSE decisions[n]]
    /\ UNCHANGED <<source, edits, overlay, evidence, structure, last>>

\* build_structure: the evidence is seeded first, the structure written last
\* and only when both gates hold.
BuildStructure ==
    LET report   == ShapeReport(source, Overlaid(overlay))
        fix      == ApplyShapeTransforms(source, report, decisions)
        ledgerOk == ContentLedgerOk(fix.ledger, Receipts(evidence'))
        claimsOk == ClaimsPreserved(source, fix.resume, fix.ledger)
    IN  /\ evidence' = SeedEvidence(evidence, source)
        /\ structure' = IF ledgerOk /\ claimsOk
                        THEN [resume |-> fix.resume, ledger |-> fix.ledger, of |-> source]
                        ELSE structure
        /\ last' = [stage |-> "structure", ledgerOk |-> ledgerOk, claimsOk |-> claimsOk,
                    of |-> source, resume |-> fix.resume, ledger |-> fix.ledger,
                    applied |-> fix.applied, deferred |-> fix.deferred]
        /\ UNCHANGED <<source, edits, overlay, decisions>>

\* build_refine: the structure version is read back if there is one.  The refine
\* version itself is never read, so building it again starts over.
BuildRefine ==
    LET read     == IF structure = NoStructure THEN source ELSE Projected(structure.resume)
        findings == WordingReport(read)
        keys     == {FindingKey(findings[i]) : i \in {j \in DOMAIN findings : findings[j].ask}}
    IN  /\ \E answered \in {a \in SUBSET keys : Cardinality(a) <= MaxAnswers} :
           \E answers \in [answered -> AnswerTexts] :
              LET edited == ApplyEdits(read, findings, answers)
              IN  last' = [stage |-> "refine", read |-> read, findings |-> findings,
                           answers |-> answers, applied |-> Applied(findings, answers),
                           resume |-> edited, written |-> ContentPreserved(read, edited)]
        /\ UNCHANGED <<source, edits, overlay, decisions, evidence, structure>>

Next ==
    \/ EditSource
    \/ ConfigureShape
    \/ Decide
    \/ BuildStructure
    \/ BuildRefine

Spec == Init /\ [][Next]_vars
-----------------------------------------------------------------------------
CanonicalTokens(resume) ==
    (UNION {LinesTokens(resume.lists[k]) : k \in ListKind})
    \cup (UNION {LinesTokens(resume.fields[f]) : f \in Field})

SourceTexts(doc) ==
    (UNION {{[at |-> <<f, i>>, line |-> doc.fields[f][i]] : i \in DOMAIN doc.fields[f]} : f \in Field})
    \cup (UNION {{[at |-> <<k, i>>, line |-> doc.lists[k][i]] : i \in DOMAIN doc.lists[k]}
                : k \in ListKind})
    \cup (UNION {CustomTexts(s) : s \in ToSet(doc.custom)})

\* The words a range of years is written with beside its years.
RangeWords == UNION {Tokens[p] : p \in ToWords \cup OpenEnds}

\* A token of the source that the structure version does not hold is on its
\* ledger, for the very line it stood on: as a heading, as a parser's artifact,
\* or as preserved by the evidence, which still has that line (docstring of
\* apply_shape_transforms, and the gates of build_structure).  Only the years of
\* a role or a project lose words without a receipt: their "to", and the open
\* end "present" stands for.
StructureLosesNothing ==
    structure # NoStructure =>
        \A t \in SourceTexts(structure.of) :
            \A token \in LineTokens(t.line) \ CanonicalTokens(structure.resume) :
                \/ token \in RangeWords /\ \E f \in DateFields : t.at = <<f, 1>>
                \/ \E e \in structure.ledger :
                      /\ e.at = t.at /\ e.token = token
                      /\ e.fate \notin {"moved", "deduped", "unresolved"}
                      /\ e.fate = "preserved_in_evidence" => <<t.at, token>> \in Receipts(evidence)

\* A token the ledger says was moved or merged is where the ledger says it is
\* (ContentLedgerEntry.target_path).  Of the years of a role or a project, which
\* it says are all in the start date, one may be in the end date, and a range word
\* may be nowhere.
LedgerIsTrue ==
    last # NoStructure /\ last.stage = "structure" =>
        \A e \in last.ledger :
            e.fate \in {"moved", "deduped"} =>
                LET lines == IF e.target[1] \in Field THEN last.resume.fields[e.target[1]]
                             ELSE last.resume.lists[e.target[1]]
                IN  /\ e.target[2] \in DOMAIN lines
                    /\ \/ e.token \in LineTokens(lines[e.target[2]])
                       \/ /\ \E f \in DateFields : e.at = <<f, 1>> /\ e.target = <<f, 1>>
                          /\ e.token \in LineTokens(lines[2]) \cup RangeWords

Placed(ledger, text) ==
    \A token \in LineTokens(text.line) :
        \E e \in ledger : e.at = text.at /\ e.token = token /\ e.fate \in {"moved", "deduped"}

\* A structure is never written over an open question: a section the build
\* deferred had nothing in it but headings; if two sections have one name, what
\* the other one had was placed (build_structure, lines 279-300).
WrittenDefersNothing ==
    last # NoStructure /\ last.stage = "structure" /\ last.ledgerOk /\ last.claimsOk =>
        \A s \in ToSet(last.of.custom) :
            (\E f \in last.deferred : f.family = "custom_mapped" /\ f.section = <<s.name>>) =>
                \A t \in CustomTexts(s) :
                    \/ t.line = <<>> \/ IsArtifact(t.line) \/ IsHeading(t.line, Heading[s.name])
                    \/ Placed(last.ledger, t)

\* The roles whose years stayed whole although one of their ends was taken.
HalfRead(resume) ==
    {f \in DateFields \ ProjectYears :
        /\ resume.fields[f] # <<>>
        /\ resume.fields[f][1] \o resume.fields[f][2] # <<>> /\ resume.fields[f][3] # <<>>}

\* What refine reads of a structure version is all of it, but for the rest of the
\* years of a role of which only one end could be taken.
RefineReadsTheStructure ==
    structure # NoStructure =>
        LET held == CanonicalTokens(structure.resume)
            read == CanonicalTokens(Projected(structure.resume))
        IN  /\ read \subseteq held
            /\ \A token \in held \ read :
                  \E f \in HalfRead(structure.resume) : token \in LineTokens(structure.resume.fields[f][3])

\* A blank answer beside one of two lines keeps the number of bullets.
Unbalanced(answers) ==
    (\A k, l \in DOMAIN answers : k = l) \/ (\A k \in DOMAIN answers : Len(answers[k]) = 1)

OwnIds(doc) == \A f, g \in BulletFields : f # g => doc.ids[f] # doc.ids[g]

\* A written refine version holds, bullet by bullet, the text the resume had
\* or that of the one edit the result calls applied there: what is reported as
\* deferred is not in it, no edit is overwritten by another, none lands on another
\* bullet, and the user's answer goes before every rewrite ("applying more than
\* one would clobber", "supersedes everything").  Roles have ids of their own,
\* as they always do in what is read of a structure version, and no two answers
\* make up for one another's lines.
EditsLandWhereReported ==
    (/\ last # NoStructure /\ last.stage = "refine" /\ last.written
     /\ OwnIds(last.read) /\ Unbalanced(last.answers)) =>
        \A f \in BulletFields : \A i \in DOMAIN last.read.fields[f] :
            LET at   == At(last.read, f, i)
                mine == {k \in last.applied : last.findings[k].at = at}
            IN  /\ \A k \in DOMAIN last.findings :
                      FindingKey(last.findings[k]) \in DOMAIN last.answers /\ last.findings[k].at = at
                          => mine = {k}
                /\ mine = {} => last.resume.fields[f][i] = last.read.fields[f][i]
                /\ \A k \in mine : last.resume.fields[f][i] =
                      IF last.findings[k].ask THEN last.answers[FindingKey(last.findings[k])][1]
                      ELSE last.findings[k].change

\* What a rewrite may leave of a phrase of a line.
Leftovers(line, i) ==
    {<<line[i]>>, Stripped[line[i]]}
    \cup {Cut[line[j]] : j \in {k \in DOMAIN line : k = i /\ k = 1 /\ OpenerRules[line[1]] # {}}}

Says(line, part) == ToSet(Key(part)) \subseteq ToSet(Key(line))

\* The new line has every phrase of the old one, or what is left of it without
\* the opener it starts with or the buzzwords in it.
KeepsPhrases(old, new) ==
    new # <<>> /\ \A i \in DOMAIN old : \E part \in Leftovers(old, i) : Says(new, part)

\* Without an answer the wording pass keeps what a bullet says: of every phrase
\* all but an opener it starts with and the buzzwords in it, the whole of a phrase
\* with neither, and no bullet is left blank.  (The pass does not look where a word
\* ends: of "Managed tooling" "oling" is left, and "gram" of "Gurugram".)
SubstanceKept ==
    last # NoStructure /\ last.stage = "refine" /\ DOMAIN last.answers = {} /\ OwnIds(last.read) =>
        /\ last.written
        /\ \A f \in BulletFields \cup {SummaryField} : \A i \in DOMAIN last.read.fields[f] :
              KeepsPhrases(last.read.fields[f][i], last.resume.fields[f][i])

\* Rewording a resume changes its wording only, and where it says so.
RefineIsFaithful == RefineReadsTheStructure /\ EditsLandWhereReported /\ SubstanceKept

=============================================================================
