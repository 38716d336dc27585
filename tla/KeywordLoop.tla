----------------------------- MODULE KeywordLoop -----------------------------
(***************************************************************************)
(* A server process that scores one resume against one job again and again *)
(* (resume_kit_facade.capabilities) while the project's alias file grows:  *)
(* by the commits of edit sessions in this process, and by the             *)
(* learn-terminology workflow, which edits the file by hand.  Each engine  *)
(* caches the index it loaded by the path of the file                      *)
(* (_effective_alias_index of the two packages).                           *)
(***************************************************************************)
EXTENDS KeywordMatch

CONSTANTS
    Resumes,     \* the resumes a caller may score
    Jobs,        \* the jobs a caller may score them against
    AliasFiles,  \* the project alias files there may be at the start
    MaxMembers,  \* bound: terms of the alias file, after which it stops growing
    Unloaded,    \* an engine that has not loaded its index
    NoReport     \* nothing was scored yet

\* A string leaf, a job requirement, and a normalized term of the lexicon.
Leaf        == [section : STRING, words : Seq(Word)]
Requirement == [text : Seq(Word), keywords : Seq(Seq(Word)), required : BOOLEAN]
Term        == Seq({Stem[w] : w \in Word})

\* A file lists finitely many groups of finitely many terms (load_alias_lexicon).
IsLexicon(mapping) ==
    /\ IsFiniteSet(DOMAIN mapping)
    /\ DOMAIN mapping \subseteq Term
    /\ \A c \in DOMAIN mapping : mapping[c] \subseteq Term /\ IsFiniteSet(mapping[c])

ASSUME LoopAssumption ==
    /\ Resumes \subseteq Seq(Leaf)
    /\ Jobs \subseteq [requirements : Seq(Requirement), qualifications : Seq(Requirement),
                        keywords : Seq(Seq(Word))]
    /\ IsLexicon(Seed)
    /\ \A mapping \in AliasFiles : IsLexicon(mapping)

VARIABLES
    resume,   \* the resume
    job,      \* the job
    file,     \* the project alias file, as a mapping
    cached,   \* engine -> the index it holds, or Unloaded
    report,   \* the last JobMatchReport
    byHand    \* whether the file was edited by hand since the caches were empty

vars == <<resume, job, file, cached, report, byHand>>

Engines == {"matching", "ats"}
Empty   == [e \in Engines |-> Unloaded]

\* load_effective_alias_index raises LexiconError on an ambiguous file, and a
\* capability that needs it answers with that error and changes nothing.
Loadable(e) == cached[e] # Unloaded \/ Unambiguous(Effective(file))
Index(e)    == IF cached[e] = Unloaded THEN Effective(file) ELSE cached[e]
Loaded(engines) == [e \in Engines |-> IF e \in engines THEN Index(e) ELSE cached[e]]

Init ==
    /\ resume \in Resumes
    /\ job \in Jobs
    /\ file \in AliasFiles
    /\ cached = Empty
    /\ report = NoReport
    /\ byHand = FALSE

\* check_resume_job_match
CheckResumeJobMatch ==
    /\ \A e \in Engines : Loadable(e)
    /\ report' = CheckJobMatch(resume, job, Index("matching"), Index("ats"))
    /\ cached' = Loaded(Engines)
    /\ UNCHANGED <<resume, job, file, byHand>>

\* identify_resume_gaps, suggest_terminology, propose_terminology_candidates:
\* they load the index of the keyword engine only, and answer from it.
AskKeywordEngine ==
    /\ Loadable("matching")
    /\ cached' = Loaded({"matching"})
    /\ UNCHANGED <<resume, job, file, report, byHand>>

Terms(mapping) == UNION {Members(mapping, c) : c \in DOMAIN mapping}
HasRoom        == Cardinality(Terms(file)) < MaxMembers

\* Mutant: only the keyword engine is told to load again.
Cleared_MatchingOnly(caches) == [caches EXCEPT !["matching"] = Unloaded]

\* _clear_alias_index_caches
Cleared(caches) == [e \in DOMAIN caches |-> Unloaded]

\* A commit grew the file from the edit that wrote a one-word keyword over a
\* word of a leaf; growth that is deferred leaves the file and the caches.
GrowByCommit(leaf, word, keyword) ==
    /\ HasRoom
    /\ LET before == resume[leaf].words
           after  == [i \in DOMAIN before |-> IF before[i] = word THEN keyword ELSE before[i]]
       IN  \E cand \in SwapCandidates(before, after) :
              /\ file' = GrowOne(file, cand)
              /\ file' # file
    /\ cached' = Cleared(cached)
    /\ byHand' = FALSE
    /\ UNCHANGED <<resume, job, report>>

\* The append rule of learn-terminology: into a group of the file that has one
\* of the two terms, else a new group of the keyword.
LearnByHand(keyword, phrase) ==
    LET groups == {c \in DOMAIN file : {keyword, phrase} \cap Members(file, c) # {}}
    IN  /\ HasRoom
        /\ \E c \in IF groups = {} THEN {keyword} ELSE groups :
              file' = [d \in DOMAIN file \cup {c} |->
                          (IF d \in DOMAIN file THEN file[d] ELSE {})
                             \cup (IF d = c THEN {keyword, phrase} \ {c} ELSE {})]
        /\ byHand' = TRUE
        /\ UNCHANGED <<resume, job, cached, report>>

\* The server process ends and starts again.
Restart ==
    /\ cached # Empty
    /\ cached' = Empty
    /\ byHand' = FALSE
    /\ UNCHANGED <<resume, job, file, report>>

Grow == \E leaf \in DOMAIN resume : \E w \in ToSet(resume[leaf].words) :
            \E k \in {t \in JdKeywords(job) : Len(t) = 1} : GrowByCommit(leaf, w, k[1])

\* What a user confirms: a candidate the keyword engine proposed.
Learn ==
    /\ Loadable("matching")
    /\ \E c \in TerminologyCandidates(job, resume, Index("matching")) :
          LearnByHand(Normalize(c.keyword), Normalize(c.phrase))

Next == CheckResumeJobMatch \/ AskKeywordEngine \/ Grow \/ Learn \/ Restart

Spec == Init /\ [][Next]_vars

-----------------------------------------------------------------------------
\* The variables have their types (ProjectConfig.alias_file and the caches).
TypeOK ==
    /\ resume \in Resumes
    /\ job \in Jobs
    /\ byHand \in BOOLEAN
    /\ DOMAIN cached = Engines

\* As long as only commits grow the file, an index an engine holds is the one
\* the file gives: no score of either engine is computed from aliases the
\* project has outgrown (_clear_alias_index_caches, lru_cache by path).
CachesFollowCommits ==
    ~byHand => \A e \in Engines : cached[e] \in {Unloaded, Effective(file)}

\* Whatever grows the file, and however stale the caches are, a later report
\* on the same resume and job never loses a keyword or a skill an earlier one
\* had matched (_merge_mappings unions, growth never moves a term).
CoverageNeverFalls ==
    [][report # NoReport =>
          /\ report.gap.matched \subseteq report'.gap.matched
          /\ report.ats.matched \subseteq report'.ats.matched]_vars

\* A pair a commit grew closes the gap it came from: the file stays loadable
\* and both engines find the keyword in the text the word was written in
\* (_append_project_aliases, _match_keyword_in_text).
GrownPairClosesItsGap ==
    [][file' # file =>
       \A leaf \in DOMAIN resume : \A w \in ToSet(resume[leaf].words) :
          \A k \in {t \in JdKeywords(job) : Len(t) = 1} :
             GrowByCommit(leaf, w, k[1]) =>
                LET index == Effective(file')
                IN  /\ Unambiguous(index)
                    /\ MatchKeyword(k, resume[leaf].words, index) # "none"
                    /\ AtsMatch(k, resume, index) # "none"]_vars

\* A keyword the gap analysis calls missing has no terminology suggestion in a
\* text it reads: the two scans, one of the joined text and one of each leaf,
\* agree on what the lexicon makes equal (analyze_terminology_alignment).
MissingHasNoMirror ==
    report # NoReport =>
        \A s \in TerminologySuggestions(job, resume, Index("matching")) :
            resume[s.location].section \in GapSections =>
                MatchKeyword(s.keyword, GapText(resume), Index("matching")) # "none"

\* Listing a one-word text twice never raises the score ("No
\* keyword-repetition reward", match.py:10-14).
RepetitionEarnsNothing ==
    report # NoReport =>
        \A i \in {j \in DOMAIN resume : Len(resume[j].words) = 1} :
            CheckJobMatch(InsertAt(resume, i, resume[i]), job, Index("matching"),
                          Index("ats")).overall
              <= CheckJobMatch(resume, job, Index("matching"), Index("ats")).overall

\* A report is fair: it hides no term the lexicon finds and rewards no repetition.
ReportIsFair == MissingHasNoMirror /\ RepetitionEarnsNothing

\* A proposed pair a user confirms is one the next run finds: the file loads
\* and the keyword engine matches the keyword in the text the phrase is in ("a
\* freshly-recorded synonym is matched on the very next run", learn-terminology).
LearnedPairIsMatched ==
    [][\A c \in TerminologyCandidates(job, resume, Index("matching")) :
          LearnByHand(Normalize(c.keyword), Normalize(c.phrase)) =>
             /\ Loadable("matching")'
             /\ MatchKeyword(c.keyword, resume[c.location].words, Index("matching")') # "none"]_vars
=============================================================================
