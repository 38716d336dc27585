---------------------------- MODULE KeywordMatch ----------------------------
(***************************************************************************)
(* The two engines that decide which terms of a job a resume already has:  *)
(* the keyword engine (resume_kit_matching: keywords, match, terminology,  *)
(* terminology_candidates) and the skills score of the ATS engine          *)
(* (resume_kit_ats.engine), with the scores composed from them.            *)
(*                                                                         *)
(* A resume is the sequence of its string leaves [section, words], in the  *)
(* order of the document; a requirement is [text, keywords, required], its *)
(* keywords a sequence of texts; a job is [requirements, qualifications,   *)
(* keywords].  Scores are tenths of a percent.                             *)
(***************************************************************************)
EXTENDS AliasIndex

CONSTANTS
    GapSections,      \* the sections whose leaves the keyword engine reads
    HighValue,        \* _HIGH_VALUE_ZONES: skills and experience
    SectionPatterns,  \* completeness section -> the words that announce it
    ProseMarks,       \* words that end a sentence or count years
    MaxKeywordWords,  \* _MAX_KEYWORD_WORDS
    NearWords,        \* the pairs {v, w} of surface words a small edit apart
    GenericStems      \* stems shorter than _MIN_ANCHOR_TOKEN_LEN

ASSUME KeywordAssumption ==
    /\ MaxKeywordWords \in Nat
    /\ \A s \in DOMAIN SectionPatterns : SectionPatterns[s] \subseteq Word

-----------------------------------------------------------------------------
(* Terms and texts.                                                         *)

\* The contiguous runs of at most width words.
Windows(words, width) ==
    {SubSeq(words, s[1], s[2]) : s \in {t \in (DOMAIN words) \X (DOMAIN words) :
                                          t[1] <= t[2] /\ t[2] - t[1] < width}}

MaxMemberTokens(index) ==
    Max({1} \cup {Len(t) : t \in UNION {Members(index, c) : c \in DOMAIN index}})

\* match: exact, then stem unless the caller opts out of it, then alias.
Match(a, b, index, allowStem) ==
    CASE a = <<>> \/ b = <<>>                          -> "none"
      [] a # <<>> /\ b # <<>> /\ Fold(a) = Fold(b)     -> "exact"
      [] OTHER ->
         LET canonical == CanonicalFor(index, Normalize(a))
         IN  IF allowStem /\ Normalize(a) = Normalize(b) THEN "stem"
             ELSE IF canonical # NoCanonical /\ canonical = CanonicalFor(index, Normalize(b))
             THEN "alias" ELSE "none"

\* _keyword_in_text
Written(keyword, words) ==
    /\ keyword # <<>>
    /\ \E w \in Windows(words, Len(keyword)) : Fold(w) = Fold(keyword)

\* The windows of a text the lexicon makes equal to a keyword.
AliasWindows(keyword, words, index) ==
    {w \in Windows(words, MaxMemberTokens(index)) : Match(keyword, w, index, TRUE) = "alias"}

\* _match_keyword_in_text
MatchKeyword(keyword, words, index) ==
    IF Written(keyword, words) THEN "exact"
    ELSE IF AliasWindows(keyword, words, index) # {} THEN "alias" ELSE "none"

\* The texts of a resume joined, the leaves of some sections or all of them.
WordsIn(resume, sections) ==
    FlattenSeq([i \in DOMAIN resume |->
                   IF resume[i].section \in sections THEN resume[i].words ELSE <<>>])
GapText(resume)  == WordsIn(resume, GapSections)
FullText(resume) == FlattenSeq([i \in DOMAIN resume |-> resume[i].words])

Tenths(part, whole) == (2000 * part + whole) \div (2 * whole)

-----------------------------------------------------------------------------
(* The terms of a job.                                                      *)

\* is_concrete_keyword, and sanitize_keywords: the first spelling of each.
IsConcrete(text) ==
    /\ text # <<>>
    /\ Len(text) <= MaxKeywordWords
    /\ ToSet(text) \cap ProseMarks = {}
Sanitize(entries) ==
    {entries[i] : i \in {j \in DOMAIN entries :
        IsConcrete(entries[j]) /\ \A k \in 1..(j - 1) : Fold(entries[k]) # Fold(entries[j])}}

RequirementEntries(reqs) ==
    FlattenSeq([i \in DOMAIN reqs |-> <<reqs[i].text>> \o reqs[i].keywords])

\* _to_jd_keywords_dict and the union of its three lists.
JdKeywords(job) ==
    Sanitize(RequirementEntries(job.requirements))
        \cup Sanitize(RequirementEntries(job.qualifications)) \cup Sanitize(job.keywords)

\* _job_description_to_keywords: required, then preferred, with no hygiene.
AtsSkills(job) ==
    LET WithText(r)  == IF r.keywords = <<>> /\ r.text # <<>> THEN <<r.text>> ELSE r.keywords
        required     == SelectSeq(job.qualifications, LAMBDA q : q.required)
        preferred    == SelectSeq(job.qualifications, LAMBDA q : ~q.required)
        skills       ==
            FlattenSeq([i \in DOMAIN job.requirements |-> WithText(job.requirements[i])])
              \o FlattenSeq([i \in DOMAIN required |-> required[i].keywords])
              \o FlattenSeq([i \in DOMAIN preferred |-> WithText(preferred[i])])
    IN  IF skills = <<>> THEN job.keywords ELSE skills

-----------------------------------------------------------------------------
(* The keyword engine.                                                      *)

\* calculate_keyword_match: no keywords is no match.
CalculateKeywordMatch(resume, job, index) ==
    LET all   == JdKeywords(job)
        text  == GapText(resume)
        found == {k \in all : MatchKeyword(k, text, index) # "none"}
    IN  IF all = {} THEN 0 ELSE Tenths(Cardinality(found), Cardinality(all))

\* _texts_near_identical: the same text, or a token-set overlap of 0.98.
NearIdentical(a, b) ==
    LET ta == {Surface[w] : w \in ToSet(a)}
        tb == {Surface[w] : w \in ToSet(b)}
    IN  Fold(a) = Fold(b) \/ 100 * Cardinality(ta \cap tb) >= 98 * Cardinality(ta \cup tb)

\* _confirmed_evidence_proof_text, after the text of the master resume.
ProofText(master, evidence) ==
    LET confirmed == SelectSeq(evidence, LAMBDA ev : ev.confirmed)
    IN  GapText(master) \o FlattenSeq([i \in DOMAIN confirmed |-> confirmed[i].content])

\* analyze_keyword_gaps
AnalyzeKeywordGaps(job, tailored, master, evidence, index) ==
    LET all      == JdKeywords(job)
        text     == GapText(tailored)
        proof    == ProofText(master, evidence)
        missing  == {k \in all : MatchKeyword(k, text, index) = "none"}
        provable == {k \in missing : MatchKeyword(k, proof, index) # "none"}
    IN  [matched       |-> all \ missing,
         missing       |-> missing,
         injectable    |-> provable,
         nonInjectable |-> missing \ provable,
         unreliable    |-> NearIdentical(text, GapText(master))]

\* analyze_terminology_alignment: every leaf of the document, one suggestion
\* for a wording, with the leaves it occurs in.
TerminologySuggestions(job, resume, index) ==
    UNION {UNION {{[keyword |-> k, current |-> Fold(w), location |-> i] :
                      w \in AliasWindows(k, resume[i].words, index)}
                  : i \in DOMAIN resume} : k \in JdKeywords(job)}

\* _is_candidate_pair: one word a small edit apart, or an aligned phrase that
\* differs in one word and shares no generic one.
IsCandidatePair(keyword, window) ==
    /\ Len(keyword) = Len(window)
    /\ IF Len(keyword) = 1
       THEN {Surface[keyword[1]], Surface[window[1]]} \in NearWords
       ELSE LET differing == {i \in DOMAIN keyword : Stem[keyword[i]] # Stem[window[i]]}
            IN  /\ Cardinality(differing) = 1
                /\ \A i \in DOMAIN keyword \ differing : Stem[keyword[i]] \notin GenericStems

\* propose_terminology_candidates
TerminologyCandidates(job, resume, index) ==
    LET missing == {k \in JdKeywords(job) : MatchKeyword(k, GapText(resume), index) = "none"}
    IN  UNION {UNION {{[keyword |-> k, phrase |-> w, location |-> i] :
                          w \in {v \in Windows(resume[i].words, Len(k)) : IsCandidatePair(k, v)}}
                      : i \in DOMAIN resume} : k \in missing}

-----------------------------------------------------------------------------
(* The ATS engine.                                                          *)

SkillLeaves(resume) ==
    {resume[i].words : i \in {j \in DOMAIN resume : resume[j].section = "skills"}}

\* _keyword_match_in_candidates: listed skills, and text windows exactly as
\* long as the keyword; an exact hit anywhere wins.
AtsMatch(keyword, resume, index) ==
    LET terms == SkillLeaves(resume)
                   \cup {w \in Windows(FullText(resume), Len(keyword)) : Len(w) = Len(keyword)}
        kinds == {Match(keyword, t, index, FALSE) : t \in terms} \ {"none"}
    IN  CASE "exact" \in kinds -> "exact"
          [] kinds = {}        -> "none"
          [] OTHER             -> "alias"

\* Mutant: a skill is credited once for every leaf that lists it.
SkillsCoverage_PerMention(resume, job, index) ==
    LET skills   == AtsSkills(job)
        mentions == {p \in (DOMAIN skills) \X (DOMAIN resume) :
                        Match(skills[p[1]], resume[p[2]].words, index, FALSE) # "none"}
    IN  [score   |-> IF skills = <<>> THEN 0 ELSE Tenths(Cardinality(mentions), Len(skills)),
         matched |-> {skills[p[1]] : p \in mentions}]

\* _compute_skills_coverage
SkillsCoverage(resume, job, index) ==
    LET skills == AtsSkills(job)
        found  == {i \in DOMAIN skills : AtsMatch(skills[i], resume, index) # "none"}
    IN  [score   |-> IF skills = <<>> THEN 0 ELSE Tenths(Cardinality(found), Len(skills)),
         matched |-> {skills[i] : i \in found}]

\* _compute_section_completeness: populated sections, or, when there is none,
\* the sections the text announces.
SectionCompleteness(resume) ==
    LET populated == {s \in DOMAIN SectionPatterns :
                        \E i \in DOMAIN resume : resume[i].section = s}
        announced == {s \in DOMAIN SectionPatterns :
                        Fold(FullText(resume)) # <<>>
                        /\ ToSet(Fold(FullText(resume))) \cap SectionPatterns[s] # {}}
    IN  Tenths(Cardinality(IF populated # {} THEN populated ELSE announced),
               Cardinality(DOMAIN SectionPatterns))

\* compute_ats_score
ComputeAtsScore(resume, job, keywordMatch, gap, index) ==
    LET coverage == SkillsCoverage(resume, job, index)
    IN  [overall    |-> (55 * keywordMatch + 25 * coverage.score
                            + 20 * SectionCompleteness(resume)) \div 100,
         missing    |-> gap.nonInjectable,
         injectable |-> gap.injectable,
         matched    |-> coverage.matched]

-----------------------------------------------------------------------------
(* The match report.  Its own dimensions compare words only, no aliases.    *)

RequirementTerms(req) ==
    IF req.keywords # <<>> THEN ToSet(req.keywords) \ {<<>>} ELSE {req.text} \ {<<>>}

Covered(req, resume) == \E t \in RequirementTerms(req) : Written(t, FullText(resume))

\* _coverage_dimension
CoverageScore(reqs, resume) ==
    IF reqs = <<>> THEN 0
    ELSE Tenths(Cardinality({i \in DOMAIN reqs : Covered(reqs[i], resume)}), Len(reqs))

\* _placement_dimension
PlacementScore(resume, job) ==
    LET all   == job.requirements \o job.qualifications
        terms == {Fold(t) : t \in (UNION {RequirementTerms(all[i]) : i \in DOMAIN all})
                                    \cup (ToSet(job.keywords) \ {<<>>})}
        high  == WordsIn(resume, HighValue)
        PlacedIn(t) == \E w \in Windows(high, Len(t)) : Fold(w) = t
    IN  IF terms = {} THEN 0
        ELSE Tenths(Cardinality({t \in terms : PlacedIn(t)}), Cardinality(terms))

\* check_job_match: the resume is its own master; the keyword part reads one
\* cached index, the ATS part the other.
CheckJobMatch(resume, job, index, atsIndex) ==
    LET all       == job.requirements \o job.qualifications
        gap       == AnalyzeKeywordGaps(job, resume, resume, <<>>, index)
        keywords  == CalculateKeywordMatch(resume, job, index)
        ats       == ComputeAtsScore(resume, job, keywords, gap, atsIndex)
    IN  [gap     |-> gap,
         ats     |-> ats,
         overall |-> (20 * keywords
                        + 35 * CoverageScore(SelectSeq(all, LAMBDA r : r.required), resume)
                        + 10 * CoverageScore(SelectSeq(all, LAMBDA r : ~r.required), resume)
                        + 15 * PlacementScore(resume, job)
                        + 20 * ats.overall) \div 100]
=============================================================================
