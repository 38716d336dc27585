# Verification of resume-kit

resume-kit tailors a resume to a job. Its promise is that a tailored resume
never says what the candidate's evidence does not carry, that the user has
answered every change written into it, and that facts (employers, dates,
degrees) are never touched. This directory holds TLA+ modules for the parts of
the code that keep this promise, TLC configurations that check them on small
instances, and TLAPS proofs of their main invariants.

## 1. The system

The repository is a set of Python packages under `packages/`. The command line,
the MCP server, the HTTP API and the job-hunter bridge all call the capability
facade. State lives in one project directory, and in two caches of a server
process:

| State | Written by | Where |
|---|---|---|
| pointers: active resume and job, versions, alias file, shape policy | `project_config` | `config.json` |
| the open edit session and its decisions | `edit_session` | `working/edit-session.json` |
| earlier sessions | `edit_session.archive_session` | `learning/edit-session-<id>.json` |
| tailored resumes | `edit_session.commit_session` | `working/<name>.tailored.json` |
| one line per decision | `feedback.log` | `learning/edit-feedback.jsonl` |
| preference pairs, answers to requirements | `record-preference`, the interview | `learning/*.jsonl` |
| the preference profile | `refresh-preferences` | `learning/preferences.json` |
| project aliases | `_append_project_aliases`, `manage-synonyms`, users by hand | the `alias_file` of the config |
| base, structure, refine, final versions | `baseline`, `perfect` | `resumes/...` |
| confirmed and refuted evidence | `add-evidence`, `evidence_seed` | the evidence file of the config |
| the loaded alias index, once per engine | `_effective_alias_index` of `matching` and `ats` | memory, by the path of the file |

Components, what is hard about each, and what makes it correct:

| Component | Hard behaviour | Correct when |
|---|---|---|
| edit session | four files written one after the other; decisions found by id or by path; duplicate changes; pointers and source files that move under an open session | nothing is written that was not approved, decided and checked; nothing decided is lost |
| review controller | one cursor over sections whose changes interleave; answers that reopen | no change is skipped, the review can always go on, and it ends |
| diff application and path policy | changes that collide; reorders that omit, repeat or invent items; the freedom ladder | facts stay, levels are obeyed, no item is lost, no unverified skill enters |
| truth validation | thresholds, refutations through aliases, combinations of changes | refuted text is never written |
| alignment orchestrator | a model provider that proposes anything; changes applied, stripped and applied again; a plain result or one under review | what the evidence does not carry is stripped or asked about; every proposal and every difference is reported once |
| evidence building and fabrication guard | identities by case fold, removal by value | the guard flags nothing in an untouched resume and its fix leaves nothing it flags |
| alias lexicon | growth from accepted edits and by hand | the merged index stays loadable and moves no term |
| matching and ATS checks | two engines that scan one resume in two ways, each with a cache of the index | no cache outlives a commit, coverage never falls, one report does not contradict itself where it can help it |
| version lineage | artifact and pointer written separately; derived versions that outlive their original | the resolved version is the one derived from the active original |
| structure and refine | sections moved into a schema that cannot hold all they have; several findings about one bullet | no token leaves without a receipt but the words of a range of years, the ledger says where each went, wording alone changes |
| perfect fit | ranked proposals, explicit decisions, a final pointer | the budget is met by logged removals only |
| preference learning | sums of decayed weights against thresholds; a profile as old as its last refresh; candidates checked alone | nothing is learned from one action, time only forgets, what is surfaced is true |
| document and job parsing, export, surfaces | conversion and I/O | not modelled |

The parts interact as follows. `align_resume` turns a resume, a job and evidence
into proposed changes. A caller opens a session with them, captured evidence and
provenance. The review controller orders the changes by section. Decisions are
appended to the session, and a line to the feedback log, from which the
preference profile is derived. A commit builds the approved changes, verifies
requested skills, applies them through the path policy, validates the truth of
the assembled document with the alias index, grows the alias file from accepted
terminology edits, clears the caches of the two engines, and writes the tailored
file. The engines report which terms of the job the result has, and propose the
next terminology edits. Before all this the version builders derive `base`,
`structure` and `refine` from the import; after it the fit writes `final`.

## 2. Modules

| Module | Models | State and actions |
|---|---|---|
| `ResumeText` | text and its two normal forms (`terms.normalize`) | operators |
| `ResumeDiffs` | `path_policy`, `apply_diffs`, schema coercions | operators |
| `DiffEngine` | the loop of `apply_diffs` | document, changes still to do, verdicts; one action per iteration |
| `AliasIndex` | `terms.aliases`, `terms.match`, `_append_project_aliases` | operators |
| `TruthReport` | `evidence.truth`, `evidence.predicates` | operators |
| `ReviewController` | `alignment.review` and the decision keys of `edit_session` | operators |
| `EditSession` | `facade.edit_session` and the review-edits capabilities | the six files, the config and the capability in flight |
| `WriteGate` | abstract: what an edit session promises | reviews, what they wait for, what they grant, what is published |
| `Lineage` | `project_config`, `baseline`, `evidence_seed`, the write order of `perfect` | the pointers, the resume files, the evidence files, the session's binding, the operation in flight |
| `BudgetRanking` | `budget_enforce`, `rank_skills`, `rank_bullets`, `rank_experience`, `compress` | operators |
| `PerfectFit` | `facade.perfect.build_perfect` over the edit session | the variables of `EditSession`, the call in flight, the final file |
| `ResumeReport` | `alignment.diff`, `alignment.verify` | operators |
| `CandidateEvidence` | `evidence.builder`, `evidence.fabrication` | operators |
| `SkillTargets` | `policy.skill_targets`, `generate_skill_target_plan` | operators |
| `AlignResume` | `alignment.orchestrator`, `generation`, `accept`, over `ReviewController` | the call in flight, the last pass over the document, the failing claims, the review; one action per stage, `AcceptTerminology` after them |
| `PreferenceProfile` | `feedback.preferences` | operators |
| `EditRanker` | `feedback.features`, `ranker`, `retrieval` | operators |
| `Learning` | the learning directory: `feedback.log`, `requirement_answers`, and the capabilities over it | three logs, the profile and the inputs it was derived from, the time, the question before the user |
| `ResumeShape` | `policy.shape_policy`, `scoring.shape_analyzer`, `scoring.shape_fix` | operators |
| `ResumeWording` | `scoring.projection`, `best_practices`, `standard_fix`, `base_fix` | operators |
| `StructureStage` | `build_structure`, `build_refine` over both | source, policy, decisions, evidence, the structure version, the last result |
| `KeywordMatch` | `matching.keywords`, `match`, `terminology`, `terminology_candidates`, the skills and completeness scores of `ats.engine` | operators |
| `KeywordLoop` | a server that scores while the alias file grows | the file, the two caches, the last report |
| `Items` | the comprehensions that filter a list, and sorts by a key | `ItemsAt`, `SortedBy` |
| `LoopProofs` | lemmas: sequences and the loops over them, sums, sorts | |
| `ChangeProofs` | theorems about the operators of `ResumeDiffs`, `ReviewController` and `AliasIndex` | |
| `PerfectFitProofs` | theorems about `EditSession`, which implements `WriteGate`, then about `PerfectFit` over it | |
| `DiffEngineProofs`, `LineageProofs`, `AlignResumeProofs`, `StructureProofs` | theorems about the specification each is named after, `StructureStage` for the last | |
| `KeywordAndLearningProofs` | theorems about `KeywordLoop`, and about `Learning` (its specification is `LearningSpec`); the two share no variable | |
| `MCDiffEngine`, `MCEditSession`, `MCLineage`, `MCPerfectFit`, `MCAlign`, `MCLearning`, `MCStructureStage`, `MCKeywordLoop` | instances for TLC | |

How the models abstract the code:

* A text is a sequence of words; `Surface` and `Stem` give each word its case
  fold and its stem, with the one law the code guarantees (equal surfaces have
  equal stems). A resume is a function from fields to a text, a list of texts or
  null. A path is a field and an index, 0 for the whole field. Fields are
  classified as the path policy classifies them, so a class stands for all paths
  its patterns match.
* The code's decision keys (`path|action`, `path|action#2`) are positions in the
  list of changes: the n-th change of a path and action has the n-th key.
* A capability is a sequence of atomic file writes. `step` holds what it has in
  memory and which write comes next, and `Crash` may drop it between any two
  writes. A refused call changes nothing and is no step.
* `OpenSession` archives the prior session, `AutoResolve` is one pass of the auto
  loop, `WriteSession` writes the state, `AppendFeedback` one log line.
  `DecideById` and `DecideByPath` find a change the two ways `_find_change`
  does and share `RecordDecision`. `CommitSession` is every gate up to alias
  growth, `GrowAlias` one candidate, `WriteAliases` and `WriteTailored` the two
  writes after it.
* `SetActive` and `RewriteResume` stand for other capabilities that move a
  pointer or rewrite a version between the calls of a session.
* The logged keys of a session are kept beside its decisions, so that the
  commit gate and the cursor are stated directly; the code recomputes them on
  every call, and `RecordsAgree` checks that both agree.

* In `Lineage` a resume file is what its history leaves in it: the import it
  descends from, whether it is stored in the canonical form, whether its
  experience bullets are still there, and the jobs whose accepted edits it
  carries. File names are sequences of dash-separated parts and are rewritten as
  `_version_path_for`, `_base_path_for`, `_final_path_for` and
  `_working_path_string` do. A builder is one action per durable write: the
  artifact, then `SetPointer`; for `structure`, the evidence file and its pointers
  before them; for the fit, the active job, the session, the tailored file, the
  final file, the pointer. `rebuilt` and `wrote` are history variables: the tiers
  rebuilt in order since the user selected a resume, and the resume file the last
  step wrote. `EarlierVersionsUntouched` is about `wrote` and not about what a file
  holds: a base, a refine or a clean final built over its own source would leave the
  abstract content as it was. A session is here only the resume and
  job it is bound to; `EditSession` has the rest.

* `PerfectFit` extends `EditSession` and drives its actions: `StartFit` is all of
  `build_perfect` up to the archiving of the prior session (budgets, ranking,
  compression, proposals, provenance), `AutoResolve` and `FitOpened` the rest of
  `open_session`, `FitDecide` one pass of the loop over explicit decisions,
  `FitCommit` the commit with all its gates, `WriteFinal` the ledger and the final
  file. `StopFit` is an exception or a stop of the process at any of these points:
  the call ends, what it wrote stays. The switch of the active job before and the
  final pointer after are in `Lineage`. The fit calls the orchestrator and not the
  capability, so its decisions never reach the feedback log.
* In `BudgetRanking` the scores are those of the code, number by number, over the
  classes of words its tables and patterns name (`Vocabulary`, `Filler`); a
  number in a text is a word of the class `numbers`. What a ranker reads of a role
  and a fit never edits (title, company, years) is a constant. The compressor's
  own truth check is called without the project's aliases, as the code calls it.

* `AlignResume` is one call: `PlanTargets` and `Generate` draw an answer of the
  provider (an answer, a failure, or one without a list), `Apply` is the policy
  gate and the apply loop, `ValidateTruth`, `StripUngrounded` or `DeferToHuman`,
  `BuildReview`, and on the result any number of `AcceptTerminology`. The loop of
  the strip is the code's: what the failing claims trace to is dropped and the rest
  applied to the original again. Evidence is given by the caller or derived from
  the resume. It shares `ResumeDiffs`, `TruthReport` and `ReviewController` with
  `EditSession`, as the packages do.
* `PreferenceProfile` counts time in half-lives. The constant `Decay` gives the
  weight of a signal of an age, `exp(-lambda * age)`, as a whole number; a fresh one
  has `FullWeight`, and the thresholds are multiples of it. A phrase is a model value
  with its clean form. A profile is a value: `RefreshPreferences`
  derives it from the logs as they are, and `derived` remembers from which.
  A timestamp (`Stamp`) is the sequence of its characters, as the caller wrote it:
  retrieval compares those (`Newer`), and only the decay reads the time they stand for
  (`Instant`, or that there is none). `Form` is the precision and offset of one.
* `ResumeShape` reads a line as the phrases its delimiters separate. `Tokens`
  gives a phrase the words the ledger accounts for, `Heading` the form section
  names are compared by. The years of a role or a project (`DateFields`) are one line
  in a source and three in a canonical resume: the start date, the end date, and the
  text kept whole where it is not a start and an end. `CanonicalYears` reads them as
  `_parse_canonical_range` does: a year before the first dash or "to" (`ToWords`, or the
  "to" within a word, `Divided`), a year or a word for the present (`OpenEnds`, which
  becomes `Present`) after it. A source has its default fields, the four lists under
  `additional`, and custom sections of the three types in key order.
  `BuildStructure` is the whole capability: seed the evidence, analyse, place
  every section, reconcile the ledger, the two gates, and the write or the list
  of deferred findings. `ResumeWording` reads the version back (`YearsRead` formats the
  dates again) and is the whole of `build_refine`: findings, one edit per location,
  answers, the gate. Openers and buzzwords are raw text to the code: `Cut` is what is
  left of the first phrase of a bullet behind the characters of its opener, `Stripped`
  what is left of a phrase without the buzzwords in it, inside a longer word too.
* `KeywordMatch` has a resume as the sequence of its string leaves. Each engine
  keeps its own way of scanning (joined text, leaf by leaf, windows of the length
  of the keyword) and its own use of the tiers of `match`.
* `KeywordLoop`: `CheckResumeJobMatch` runs both engines and may fill their caches,
  `AskKeywordEngine` one of them; `Grow` is the growth of a commit, which clears
  them, `Learn` a user who records a proposed pair by hand, which does not, and
  `Restart` a new process. A file that does not load stops every capability, and
  nobody repairs it in the model, so the run may end there.

Operators named `Definition_Bug` (`OpenSession_Copies`), each after a comment
"Mutant", are faulty variants of the definition after them. Nothing uses them:
they record, for each property, a bug that the property catches.

## 3. Runs

| Run | Question | Instance |
|---|---|---|
| `diff_engine` | does the apply loop keep facts, levels, items and verified skills? | one field of every class, a duplicate item up to case, 15 changes, lists of up to 3 of them, levels -1, 3, 7, 11 |
| `review` | does the cursor skip nothing, stay answerable and end? do the log and the recomputed keys agree with the decisions? | three modes; sections A B A, twin changes, an empty proposal; approve, reject, edit, retry; 2 repeated answers; crashes |
| `commit` | is what is written approved, decided, and not refuted? | two resumes, a source file with two contents, three proposals, two levels, provenance of all kinds |
| `alias` | does growth keep the index, is no decision lost, does the session implement `WriteGate`? | four initial alias files, alias file configured or not, two sessions, crashes |
| `lineage` | wherever the process stops: do pointers resolve, are earlier versions left alone, does a rebuilt lineage win over older pointers, is dropped content on record, do builders keep the bullets? | an import named `<name>-original`, one named `<name>`, a legacy `<name>-standard` or none, two selections, one session or fit, one added evidence record |
| `perfect_fit` | is what a fit loses ranked, answered, lowest, on the ledger and asked for by a budget, is nothing invented, does what ties survive, does an auto-fit end within the budgets? | 180 pairs of a resume and its evidence: four lists of skills (equal items, equal scores, soft ones) and twelve pairs of lists of bullets (ties across roles, equal bullets, too long, shortened to a twin), three summaries; budgets of 2 skills, 1 entry, 2 bullets, 2 words; auto mode and every list of approve and skip |
| `align` | is what comes out grounded or asked about, is every proposal and every difference accounted for, does the guard undo what it finds, does every planned skill have a source, is an accepted suggestion safe? | one role, a summary, skills and certifications; two resumes, two jobs, evidence given or derived; levels 12, 10, 2, 6 with and without a human and validation; answers that clash, fabricate, repeat, shift each other's indexes, are malformed or fail |
| `learning` | is nothing learned from one action, does time only forget, is what is surfaced true, are exemplars the closest, are questions suppressed by answers that hold? | four kinds of records over two half-lives, timestamps of two precisions, one pair, up to four lines in the logs, one answer of three in two contexts, candidates for every section |
| `structure` | does a structure version lose nothing, is its ledger true, is it never written over an open question, does a refine version change wording only, where it says? | three sources with custom sections of every type, headings and leftovers among the lines, one text in two sections, two roles with and without ids of their own, years that are a range, an open one, half a range or other text, openers and buzzwords, alone and as the beginning or the inside of other words; one edit of the source, one decision, two policies, answers of one line, two lines and none |
| `keyword_loop` | does no index outlive a commit, does coverage never fall, does a grown pair close its gap, is a report consistent and deaf to repetition? | three resumes and three jobs that meet by alias, stem, phrase and near word; three alias files |
| `tailor_canonical` | a tailored file keeps the experience bullets of the resume it tailors | violated, see below |
| `learned_pair` | a confirmed pair is matched on the very next run | violated, see below |

Bounds: `MaxChanges` is the length of the list given to the apply loop: three
changes already collide in every pair and order, and the loop carries nothing
but the document from one to the next. `MaxSessions` bounds the sessions drawn;
two are enough for a prior session to be archived and its tailored file to be
overwritten. `MaxRepeats` bounds the answers that settle nothing (reopening or
answering again), of which the code takes any number: each returns the cursor to
where it was or appends one more decision to a change already logged. The runs
that look at one concern leave the others out: `review` never commits, `alias`
runs in interactive mode. `diff_engine` stops
when the list is done, so it does not check for deadlock; the sessions never stop
because pointers may always be set. `lineage` bounds what the user repeats
(`MaxSelections`, `MaxSessions`, `MaxRecords`) but not the builders: two selections
are one resume and another after it, which is what an older lineage needs to be
in the way. Imports are named `<name>` or `<name>-original`, as the converter's
documentation names them (`LineageAssumption`): a user who selects a file that
already ends in `-refine` makes `build-refine` write over it.

`perfect_fit` makes one fit (`MaxSessions`): the next starts from the same source
and keeps nothing of it but the archive. The budgets are at, one over and two over
what the lists hold, and the resumes are chosen so that every branch of the
rankers is taken; as a fit may be refused and there is no call after it, the run
does not check for deadlock.

`align` needs no bound: a call ends, and suggestions are accepted one at a time
until none is left to swap. In `learning`, `MaxTime` is one half-life, which is
enough for two ages of a signal to meet in one sum, `MaxRecords` the lines of the
logs together (four: the thresholds ask for two and three), `MaxAnswers` the
answers to requirements. In `structure`, `MaxEdits` is how often the source changes
between builds and `MaxDecided` how many sections the user answers for; with one
each a deferred build, its answer, a stale structure and a rebuild all happen.
`MaxAnswers` is how many questions of a refine are answered in one build: two, so that
two answers meet in one role.
In `keyword_loop`, `MaxMembers` stops the alias file at three terms, the two of a
group and one more in it or beside it. The run does not check for deadlock, because
a file made ambiguous by hand stops every capability and the model lets nobody repair it.

### Fairness

Only `ReviewCompletes` needs fairness (`FairSpec`). A capability in flight goes
on to its next write (weak fairness of `Progress`): it is straight-line code.
Whoever runs the review keeps answering changes of the current section with a
terminal action (strong fairness of `AnswerCurrentSection`, as calls of other
capabilities and pointers moved away and back interleave): this is the
prompt/decide loop of the README. Nothing is assumed of which answer is given,
and none of commits, crashes or pointer moves.

### What the code does otherwise than documented

Two runs show a divergence TLC finds:

* `tailor_canonical`: `structure` is the one version stored in the canonical form.
  A session opened before `refine` exists reads it as a `ResumeDocument`, which
  ignores the canonical keys, and a commit writes what is left of it;
  `projection.py` 578-586 describes the mistake. `build_perfect` reads it the same
  way and finds nothing over budget.
* `learned_pair`: the learn-terminology skill says a recorded pair is matched on the
  very next run. The keyword engine drops stem matches, the proposer compares the
  same way, so two terms with one stem that the packaged lexicon both places are
  proposed; recorded, they put a term in two groups and the file no longer loads.

The others were met while modelling. The models do what the code does, and each
property is stated so that it does not claim otherwise.

Edit session and fit:

* When every change of a path is decided, deciding by path returns the first one
  again (`edit_session.py` 964), so an approved terminology edit can be rejected
  later while its approval stays in the list; the commit applies it and grows the
  alias file (README 163-164: rejected edits never do).
* The truth gate reads the alias file before the commit grows it (305). An alias
  the same commit adds can make a refuted term match the text that is then
  written, against the docstring of `commit_session`.
* `build_perfect` starts from the resolved version (`perfect.py` 97). With a lineage
  prepared that is `refine`, never the tailored file, and its own commit writes the
  tailored file again: the edits accepted for the job are in neither (README
  145-147 and 190-192).
* A fit ranks trims and compressions on one document and applies them in turn,
  removals first (`perfect.py` 441). A trim in front of an over-long bullet of the
  same role moves it, the compression names its old index, and the commit refuses
  everything (README 143).
* Explicit decisions are given in the order of the proposals. With an
  approved trim of a role, a compressed summary and then a compressed bullet, the
  session holds its cursor on the work experience until both of its changes are
  answered, `decide_change` refuses the summary as `wrong_section`, and the call
  ends with a partly decided session (`FitDecide` has the guard, `StopFit` the
  end). No document says this fit should work.
* An auto-fit leaves a compression undecided when its shortened text repeats a claim
  made elsewhere in the resume that is not verified, and then reports it neither as
  applied nor as deferred (`perfect.py` 215 and 221: what is undecided is not
  rejected). The perfect skill (SKILL.md 68-69) and initiative RIT-I-0021 (106) have
  such compressions stay deferred. `FitsOrDefers` excepts exactly these texts
  (`LeftUndecided`); every other text and every list that is over its budget in the
  end is among what the call reports as deferred.
* A role chosen for compression gives up one bullet even if it has only
  one, so a final resume may have a role without bullets.
* Initiative RIT-I-0021 (line 129) has each decision of a fit recorded as
  edit feedback; `_apply_explicit_decisions` and auto mode drop the records.
* README 180-181 asks to accept out-of-band edits with
  `review-edits reconcile` before the session continues, while
  `reconcile_session` only reads the session; the amendment of
  `.metis/adrs/RIT-A-0001.md` explains that the check behind it was removed.

Structure and refine:

* The ledger names the start date for all of `years` (`shape_fix.py` 359-374, 494-509),
  while the end year goes to the end date, a "to" is in neither, and "current", "now"
  and "ongoing" become "present" (828-844). `ContentLedgerEntry.target_path` and the
  docstring of `apply_shape_transforms` have an account token by token.
  `StructureLosesNothing` and `LedgerIsTrue` except exactly these words and this one
  path; the years themselves they do not.
* Years of a role that are half a range ("2019 - Summer", "Summer - 2021") are kept whole
  in its summary, and the end that is a year is taken as well. `_build_experience`
  (`projection.py` 336-344) reads the summary only if there is neither date, so the
  refine version has the one year and not the rest, although
  `project_builddoc_from_canonical` is what refine starts from.
  `RefineReadsTheStructure` excepts exactly the words of these years (`HalfRead`).
* The analyzer calls its opener rewrites claim-gated by construction, as they "only
  remove or replace mechanical wording frames" (`best_practices.py` 231-234). It matches
  an opener by `startswith` and cuts so many characters (121-142, 177-204), and removes a
  buzzword wherever its letters are (127-134): of "Managed tooling" it leaves "Oling",
  of "Gurugram" "gram". The gate of the build masks wording and lets both pass.
  `SubstanceKept` claims no more than what these cuts leave of a phrase.
* The claims gate compares the lists of the source with the lists of the result one
  by one. A custom list mapped to certifications, awards or languages, a duplicate
  that differs in case, or a "Technical Skills" line among the skills is refused
  although nothing is lost (`shape_fix.py` 268-278, 932-997).
* Evidence keeps the first path a text was seen at. When the text moves or is in two
  sections, the receipt for the other place is missing and the section stays
  deferred until the user decides.
* Roles without an id all get 0 (`schemas/resume.py` 60). A rewrite
  is applied to the first role with the id of its finding (`standard_fix.py` 48-64),
  so the rewording of one role can be written over the bullet of another. The gate
  (`base_fix.py` 133-159) compares everything but the wording of bullets and lets it
  pass. `EditsLandWhereReported` and `SubstanceKept` are stated for roles with ids
  of their own (`OwnIds`).
* One finding per bullet is applied and the rest deferred, to come up again on "a
  re-run after this edit" (`standard_fix.py` 91-96); a re-run of `build_refine` reads
  the structure again, not the refine version, and finds the same.
* An answer of several lines, or a blank one, changes the number of bullets and the
  whole build is refused. The gate counts the bullets of a role (`base_fix.py` 133-159:
  the pass "must not add/remove/reorder bullets"), so a blank answer beside one of two
  lines in the same role passes: one bullet is gone, another is split, and those
  between them have moved. `EditsLandWhereReported` is stated for answers that
  cannot make up for one another (`Unbalanced`).
* A bullet that is nothing but an opener is reported as applied with its text
  unchanged.

Alignment:

* When everything ungrounded was stripped and a failing claim is left that the
  original resume already had, the result is returned as a plain success
  (`orchestrator.py` 453, against 408-410). `UngroundedIsAsked` has `applied` not
  empty.
* A swap of a term by itself is reported as applied without passing the truth gate
  (`accept.py` 92-99, 332-355); a current wording of several tokens never swaps.
* Evidence confirmed by the user is not forced to `user_confirmed` when the resume
  gives the same record first (`builder.py` 99-100, 245-253).
* Diffs are computed before the schema coerces the document, so a text in a list
  field is a difference that the result does not have.
* The score of a suggestion is computed over the raw dump of the job, and its
  skills delta is always 0.

Learning:

* A candidate is checked on an otherwise empty resume, where evidence for another
  section counts for nothing: candidates the evidence does support are blocked
  (`features.py` 216, against 153-161).
* The last answer to a requirement decides, whatever context it was given for
  (`requirement_answers.py` 111-121, against 3-6). What holds, and is checked, is
  that it never suppresses a question by an answer for another context.
* One preference pair of strength 3 establishes a pattern alone
  (`preferences.py` 13-16); `OneActionIsNoPreference` is checked with pairs below.
  Without diff terms the summary names terms no second record backs. An edit
  accepted and then undone still counts as accepted. Specificity strings match no
  candidate, and the risk feature is 0 or 1. The profile is written in place.
* Exemplars of one similarity are to come newer first, as "ISO-8601 timestamps sort
  lexicographically by time" (`retrieval.py` 180-187). The timestamp is the caller's
  (`schemas/feedback.py`), of any precision and offset: "2024-01-01" sorts as newer
  than every time of that day. `ExemplarsAreTheClosest` claims the order of the text
  for any two, and that of the time for two of one form.

Matching:

* One report can list a term as matched by the ATS engine and as missing for the
  keyword engine: by a stem, in a window longer than the keyword, or in a section
  the keyword engine does not read (`ats/engine.py` 719-746, `keywords.py` 348-357).
* A keyword of several words matches across the join of two texts (`keywords.py`
  274), so repeating a text of several words can raise a score;
  `RepetitionEarnsNothing` is for texts of one word.
* `identify_resume_gaps` never passes the confirmed evidence on
  (`capabilities.py` 566-568), `select_best` and `compare` do not use the project's
  alias file, and `use_alias_file` sets it through the environment of the process.
* The example pair of the skill (`CI/CD`, `continuous integration`) is ambiguous with
  the packaged lexicon.

## 4. Proofs

All theorems hold for every value of the constants that satisfies the named
assumptions, which TLC evaluates in the runs. What those assume of the code:

* `WordFormsAssumption`, `FieldAssumption`, `NoSectionAssumption`: equal case folds
  have equal stems; every field has a class and a section.
* `EngineAssumption`, `RevisionAssumption`, `SessionAssumption`: documents and
  changes are values of the schema, an answer only carries content for an edit, and
  an empty `refuted:` tag refutes nothing.
* `EvidenceAssumption`: `_collect_claims` (`truth.py`) reads no field that
  `build_candidate_evidence` leaves out, and a heading is part of its own entry.
* `AlignAssumption`: a provider answers anything; the documents are the schema's, so
  an entry has its whole heading, made of texts.
* `LineageAssumption`: imports are named `<name>` or `<name>-original`, files of older
  projects `<name>-standard`; jobs are not named after a suffix.
* `FitAssumption`: summary, skills and bullets are in the fields of their class, and
  every revision of a resume has them and has been through
  `ResumeDocument.model_validate`, which leaves it as it is (`ValidateTwice`).
* `LoopAssumption`: resumes and jobs are texts of words, and an alias file, the
  packaged one too, lists finitely many groups of finitely many normalized terms.
* `ShapeAssumption`, `FieldsAreNoLists`: equal case folds have equal tokens, no phrase
  is without one, summary, bullets and years are different fields, and standard fields
  and canonical lists are told apart.
* `WordingAssumption`: the roles are the bullet fields, each once; a replacement and
  what a cut leaves are lines of phrases, and a capital letter keeps the case fold.
* `StageAssumption`: a source is a resume of the schema, in which no bullet is blank
  and the summary is at most one text; an answer is a list of lines.
* `ProfileAssumption`: a signal never weighs more when it is older, which is what a
  negative exponent gives; keys have one order, that of their strings.
* `RankerAssumption`: of the slots of a candidate only the summary is one text, and a
  phrase has finitely many words. `LearningAssumption`: records, pairs and candidates
  are values of the schema; a record without a time gets that of the append
  (`StampAt`); of two dates of one form the later is the greater text.
* `RankingAssumption`, `ReportAssumption`, `KeywordAssumption`: the constants have
  their types.

`LoopProofs` is what makes the rest provable. The code is full of loops, and the
models write them as `FoldLeft` and `FlattenSeq`, about which the provers know
nothing. One lemma turns a fold into the run of its accumulator (a function from
`0 .. Len(s)`), another says that what holds at the start of a run and is kept by
each step holds throughout, and every loop is then one of two or three lines.
`ItemsAt(s, S)` (module `Items`), the items of a sequence at a set of positions, in
order, replaces `SelectSeq` (recursive) in what is proved about. A sum over a set is
`SumFunction`, whose definition chooses one element after the other: it unfolds into
a function on the subsets (`SumRecursion`), may be taken apart at any element
(`SumRemove`), and is bounded by bounds of its terms (`SumBounded`, `SumOfPart`).
`SortedBy` ranks each element by how many come before it; by a strict total order the
ranks are the positions (`SortedByOrder`).

* `ChangeProofs`: what single operators do. A reorder keeps exactly the items of the
  list (`ReorderedKeepsItems`), a removal takes the named items and no others, as
  often as they are named (`WithoutTakesNamed`), a result has no text that neither
  the original nor a change has (`ApplyDiffsAddsProposed`), the schema adds nothing
  (`ValidateAddsNothing`), twice no more than once (`ValidateTwice`), and changes none of
  which a level refuses give the same result at every higher level
  (`HigherLevelsAgree`). A file
  that grows keeps every group with at least its terms, so while the index stays
  unambiguous each known term keeps its canonical (`GrowsKeepsIndex`). One answered
  change keeps the cursor right (`HeldCursorKeepsReview`), and decisions read one by
  one give the terminal keys of all (`TerminalKeysAppend`).
* `DiffEngineProofs`: `Inv` says the document has its fields, and a field that
  differs from the original is one its level unlocks; one lemma says a change edits at
  most the field of its path, another that an allowed path is unlocked. With the
  class of a field fixed, `SpecPolicyRespected` and its two halves follow. `ListInv`
  counts the items of each list against those the verdicts so far took out or
  replaced, which gives `SpecListsKeepTheirItems`. `SpecFreedomMonotone` is about the
  policy of two levels.
* `PerfectFitProofs`, the edit session: `Inv` adds types, the same facts for the
  session a capability holds in memory, that a commit in flight holds the session on disk, which the gate
  found fully decided, and the same of every tailored file. One lemma per action. It
  yields `SpecTypeOK`, `SpecReviewInOrder` and `SpecCommittedMeansDecided`.
  `NothingSkipped` alone is not inductive: leaving a section could pass a change
  decided ahead of the cursor, whose section would then have nothing to answer.
  `DecidedBehind` (every decided change is in the current section or an earlier one)
  is the strengthening.
  `SpecRecordsAgree` needs two facts beside it: that the logged keys are those the
  decisions give when recomputed (`KeysRecomputed`), and that every
  session is followed by the log together with the lines still to be written
  (`LinesPending`).
  `SpecTailoredIsLicensed` carries to the tailored file what the commit knew when it
  computed the document (`CommitsLicensed`, `TailoredLicensed`): each claim stands
  in a revision of the resume or in an accepted change. `ResumesTyped` says that the
  files hold values of the schema, so that applying changes to them is defined.
  `SpecRefutedTextNeverWritten` carries what the truth gate found in the same way: a
  claim spelt as a refuted value matches it under every index, and a match
  contradicts whatever else supports the claim. `SpecDecisionsAppendOnly` needs that
  nothing is on disk while a new session is resolved in memory (`ResolvesAlone`): else
  its first write would replace decisions. `SpecGrowthKeepsIndex` has a second
  invariant on the file a commit holds in memory.
  `SpecImplementsWriteGate` is the refinement: `GateInv` says that the session on
  disk is the one drawn last, the one being resolved takes its place, and a commit
  in flight has all the gate asked of it. Opening retires a review, writing the
  session begins one, a decision answers (one key and one slot at most), writing
  the tailored file publishes, and every other step stutters.
* `LineageProofs`: `PointersInv` adds that a builder in flight reaches its pointer
  with the artifact written; files are never removed. `PointersAlwaysResolve` follows
  with no condition. The other three theorems have one, `~SelectTailored`: the user
  makes only originals active. A tailored file keeps the version suffix of what it
  was made from, so made active it gives the tiers of two lineages the same names,
  and a session on the canonical form loses bullets (run `tailor_canonical`).
  Without it, names tell the tiers apart: what a builder writes is `Shaped` for its
  tier, what a session or a fit writes is `Apart` from all of those. `LineageInv` is
  four parts: what each file holds by its name (`FilesInv`), what each pointer names
  (`ConfigInv`), what the operation in flight is about to write (`OpInv`), and that
  the tiers rebuilt since the selection descend from one another and from the active
  original (`ChainInv`). It yields `SpecRebuiltLineage`, `SpecContentKeptOrReceipted`
  and, step by step, `SpecEarlierVersionsUntouched`, where every write to a resume
  file counts (`wrote`), those that change nothing included.
* `AlignResumeProofs`: the failing claims in hand must stay the failing claims of
  the document in hand (`FailingIsCurrent`), although the strip applies the changes
  again: that is what its second validation is for. `SpecReleasedIsGrounded` and
  `SpecGroundedOrAsked` follow, for any provider.
  `PassInv` accounts for the apply loop: every proposal of the answer is applied or
  rejected, once (`Accounts`), and the applied ones applied again to the original give
  the same document (`Replays`), which the strip relies on. It yields
  `SpecEveryProposalAccounted` and `SpecAppliedReproducesResult`, the half of
  `ReportMatchesResult` that is not about the diff. `SwapInv` says which suggestions
  can be accepted (`SpecSwapIsSafe`), `PlanInv` where planned skills come from
  (`SpecPlannedSkillsHaveASource`), `GuardInv` what the guard leaves
  (`SpecGuardIsExact`): an untouched resume is grounded in the evidence derived from
  it, although deduplication can drop the tags of a heading seen before, because the
  words of the claim itself are always covered.
* `PerfectFitProofs`, the fit: first the selection itself, over any scores: what is selected
  is lower than what is not, and what is left of it without its ties is never more
  than was asked for (`NeverOvercuts`, by counting the items below each).
  Then the ranking of the fit (`TrimsAreLowest`), and the call: `FitInv` says that a
  fit in flight holds cuts that are the lowest by the alias file and job in force,
  and that neither changes before its final file is written, although the commit
  writes the alias file. `SpecCutsAreTheLowest` follows. The scores stay opaque
  but for being integers, so the theorem holds for any weights.
  The other three invariants need what the fit planned (`Planned`: the cuts, the
  texts to shorten, the proposals made of them, and that these bring every list and
  text to its budget or defer: `WorkMeetsBudgets`, by counting what the rankers
  select). `PlanInv` says that at every step of the call the session in flight
  answers the proposals of that plan in their order. In auto mode all removals are
  taken, since the session is given provenance for them that nothing else shares
  (`FitProvides`), and a compression is left only if an unvouched claim reads as its
  new text does (`AutoSettles`, from the commit's own gate). Because a proposal removes from a list before another rewrites an item of it,
  and a list has one removal at most, what is committed is known position by position
  (`FitState`, `AssembledState`), although the engine removes by value and finds
  originals by their fold. From that and the ledger the counts follow
  (`SpecNothingLostOrInvented`), what is deferred or refused stays
  (`SpecHumanDecidesTheRest`), and the budgets are met (`SpecFitsToTheBudget`).
* `KeywordAndLearningProofs`, the keywords: an engine holds nothing or what the file gives, unless a user
  edited the file by hand; loading keeps that, growth empties both caches.
  `SpecCachesFollowCommits` is that. `SpecGrownFileLoads` adds that a step of growth
  by a commit leaves an unambiguous index. The other three are about what the engines
  find. `Below` orders the indexes: the larger one has every group of the smaller with
  all its terms. Under a larger index that loads, two terms one group made equal stay
  equal, and no member is longer than the window it is scanned with
  (`LongestMember`), so both engines find at least as much (`MatchedStays`).
  `GrowthInv` says that what an engine holds loads and is below what the file gives,
  also when a user edited the file since, and that what the last report credited is
  found under the index of each engine and under the file as it is. Its last part is
  conditional: by hand a file can become ambiguous, and then only an engine that holds
  an older index still answers. `SpecCoverageNeverFalls` follows.
  For `SpecGrownPairClosesItsGap` the candidate of a swap is the pair of words that
  was written, growth puts both into one group, and either word is a window of the
  text of its leaf and of the whole document. `SpecMissingHasNoMirror`, half of
  `ReportIsFair`, is that a window of a leaf is one of the joined text.
* `KeywordAndLearningProofs`, the learning: `LearningInv` types the logs and says that
  the profile is `DerivePreferences` of the prefix of the logs that the last refresh
  read, at its time; the logs only grow, so that prefix is still there. The rest is
  about the derivation, for records of any number, age and outcome. A key is emitted
  when the sum of its votes reaches the weight of three fresh ones, and a record has at
  most one vote for a tone, a length or a strength, two for a phrase or against a type
  of edit, each at most `FullWeight`. So the sum needs three records, or two
  (`SelectedHasVotes`), and `SpecOneActionIsNoPreference` follows key by key.
  `SpecTimeOnlyForgets` compares two derivations from the same logs: no vote, pair or
  signal of an upgrade weighs more at the later time (`NotAbove`), the votes
  themselves do not depend on it, so what is selected later was selected before and
  the confidence is a sum of fewer, lower terms. `SpecRankedKeepsTruth` is about a
  candidate that the truth block judged in an empty resume: in the resume it goes to,
  its item is the one new claim, the words support it as they did, and the sections
  that evidence has to ground are those the resume populated already or the
  candidate's own (`OneMoreItem`, `GroundedStaysGrounded`). For
  `SpecExemplarsAreTheClosest` the sort is a total order because the position in
  the log decides last (`CloserOrders`), and the first of an outcome in a ranking
  has nothing of that outcome before it (`FirstIsClosest`). Texts are compared at the
  first place where they differ (`DecidesAt`, `FirstDecides`), which makes that order
  total (`NewerTransitive`, `NewerTotal`).
  `SpecSuppressedByAValidAnswer` needs only that the record which decides is one of
  the key. Two definitions changed so that they could be reasoned about, with the
  same values: sums over sets of signals became sums over their positions, and sorts
  became ranks. One changed what it says: candidates are a list, as in the code, so two with
  one identifier keep the order they came in.

* `StructureProofs`, the transform: it is a loop over items inside a loop over
  sections, each step adding to one accumulator of lists and ledger. One fact is
  carried outwards through all of them (`RunGrows`, then `AddUnitForms` to
  `TransformForms`): a step only adds to the ledger, puts every token of what it reads
  there under a fate it may have, and leaves the ledger true if it was (`Grows`). For
  the last, a list only grows at its end, so a line an entry names stays where it
  is, whatever merges into the list later; two lines that merge have one case fold,
  and by `ShapeAssumption` the same tokens. Beside this loop are the years: of a line
  that does not stay whole every phrase is the start, the end, or a word of the range
  (`RangeForms`, `YearsKept`). `SpecLedgerIsTrue` is this for a whole resume. The gates then say what a written
  result can still leave unresolved: nothing. So a token that is not placed is a
  heading or an artifact, or was handed to the evidence, which builds and edits only
  extend (`EvidenceGrows`), and `SpecStructureLosesNothing` and
  `SpecWrittenDefersNothing` follow. `StageInv` says that a source is of the schema
  and that a structure version is a resume refine can read.
* `StructureProofs`, the wording: each finding of the report is a rewrite of its bullet,
  a question asked once for a bullet, or the rewrite of the summary (`ReportOk`). At
  each bullet one finding wins, and what is applied there is an answer or that one
  (`WinnerForms`, `AppliedAtForms`). A written result has one line for each bullet: the
  gate gives as many lines as bullets, and unless two answers balance, only one
  bullet could have had another number of them (`OneLineEach`, on
  `FlattenSeqOfOnesButOne`). With that the bullets are compared one by one
  (`SpecEditsLandWhereReported`), and in each rewrite what the cuts left of the phrases
  (`KeepsPhrases`, `SpecSubstanceKept`); with the reading of a structure version
  (`SpecRefineReadsTheStructure`) they make `SpecRefineIsFaithful`. Its condition,
  roles with ids of their own, always holds of what is read of a structure version
  (`ProjectedOwnsItsIds`).

Attempts at a proof corrected the models. `DeferredSurvives` said that what a fit
defers stays untouched; `build_perfect` compresses a deferred bullet that is too long
(`perfect.py` 262-449; initiative RIT-I-0021, line 106, has it "left for a human rather
than auto-cut"), so the property says that it is not cut. The ledger of a fit was
compared text by text; the engine finds the original of a replacement by its case
fold, so of two bullets that differ in case the other one can be shortened, and
`EveryLossIsLedgered` counts folds. `EditsLandWhereReported` was of any answers; the count
of a role's bullets, which its proof rests on, does not refuse two that balance (section
3), and `MaxAnswers` was one, so that no run had two. `WrittenDefersNothing` was about
sections by their name; when two have one name, one can be deferred for its headings
alone while what the other has is placed, so the property allows text that was placed.

Model-checked only:

* `DiffsAccount` (of `ReportMatchesResult`): what `SequenceMatcher` returns is a
  recursive definition, and what it computes cannot be proved here.
* `RepetitionEarnsNothing`, the other half of `ReportIsFair`: it depends on the terms.
  A keyword or an alias that repeats a word is found in a text listed twice and not
  in the text listed once, so the property is of vocabularies without such terms.
* `ReviewCompletes`: liveness.

## 5. Not modelled

* Two callers at once. Every file is loaded, changed and saved without a lock, so
  the second of two writes wins; no document promises otherwise.
* Evidence added while a session is open: the gate uses the evidence captured
  when it was opened, as the code does.
* Wording: prompts, explanations, the sanitizer of prompts, reason codes, scores
  before and after a commit.
* A proposal's `id`, which the session does not use to find it.
* Parsing, export and the surfaces: conversions through a model provider or to a
  rendered document, without project state of their own. The ATS findings that
  need a rendered document, and the faithfulness check of an export, with them.
* In `ResumeWording`, what the projection merges into one text: bullets of a project that
  repeat one another, the parts of an education.
* The normalisations of the base pass (dates, punctuation, spacing), the scoring
  view of `projection`, and the reading of heading variants beyond their normal form.
* `select_best`, `compare` and the predicates of `matching`: sorts and filters over
  the reports that `KeywordMatch` gives.
* `resolve_resume_version_label`, source companions and unknown keys of the
  configuration; the wrappers of `capabilities` that only validate a request.

## 6. What could follow

1. Two callers of one project directory, each loading, changing and saving the
   session, the configuration, the alias file and the log; which promises of
   `WriteGate` survive.
2. The output of `align_resume` as the proposals of `EditSession`, in one composed
   run; today both are driven by their own lists of changes.
3. The base pass and the rendered checks, over a model of lines.
