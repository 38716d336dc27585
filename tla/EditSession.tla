---------------------------- MODULE EditSession -----------------------------
(***************************************************************************)
(* The code-owned edit session and its write gate                          *)
(* (resume_kit_facade.edit_session and the review-edits capabilities).     *)
(*                                                                         *)
(* One project directory, one caller at a time.  A capability runs as a    *)
(* sequence of durable writes, each atomic (atomic_write_json), and the    *)
(* process may stop between any two of them; "step" is the capability in   *)
(* flight.  A call the code refuses changes nothing and is not a step.     *)
(***************************************************************************)
EXTENDS ReviewController, TruthReport

CONSTANTS
    Resume,          \* names of the resume versions a pointer can resolve to
    Job,             \* names of the job descriptions
    NoDocument,      \* a pointer that is not set
    Revisions,       \* resume -> the contents its file may hold
    WorkingFile,     \* resume -> the name of its tailored file (_working_path_string)
    JobSkills,       \* job -> folded required and preferred skills it states
    Modes,           \* the modes callers open a session in
    Proposals,       \* what callers open a session with: [changes, evidence, provenance]
    Answers,         \* the decisions a user may take: [action, content] records
    CommitFreedoms,  \* the freedom levels a commit may be called with
    AdditionFields,  \* fields whose path names skills, certifications or a company
    AliasConfigured, \* the values "config.json names an alias file" may have
    AliasFiles,      \* project alias mappings the project may start with
    MaxSessions,     \* bound on the sessions opened
    MaxRepeats       \* bound on the decisions of one session that settle no change

Mode == {"interactive", "review_at_end", "auto"}
AutoAllowed == {"verified", "supported", "user_confirmed"}
Outcome == {"accepted", "accepted_modified", "rejected"}

ASSUME SessionAssumption ==
    /\ NoDocument \notin Resume \cup Job
    /\ \A r \in Resume : WorkingFile[r] # NoDocument
    /\ Modes \subseteq Mode
    /\ AliasConfigured \subseteq BOOLEAN
    /\ MaxSessions \in Nat
    /\ MaxRepeats \in Nat
    /\ \A p \in Proposals : p.changes \in Seq(Change)
    \* a "refuted:" tag without a value refutes nothing
    /\ \A p \in Proposals : \A ev \in p.evidence : <<>> \notin ev.refuted
    /\ \A a \in Answers : /\ a.action \in ReviewAction
                          /\ a.content \in Value
                          /\ a.content # Null => a.action = "edit" /\ IsText(a.content)

\* A resume file holds values of the schema in the fields it has.
ASSUME RevisionAssumption ==
    \A r \in Resume : \A doc \in Revisions[r] : doc \in [DOMAIN doc -> Value]

VARIABLES
    config,      \* the resolved active resume, the active job, whether alias_file is set
    resumes,     \* the content of each resume file
    session,     \* working/edit-session.json
    archive,     \* learning/edit-session-<id>.json
    tailored,    \* the tailored files, with the commit that wrote each
    aliases,     \* the project alias file
    feedback,    \* learning/edit-feedback.jsonl
    step,        \* what the capability in flight still has to write
    opened       \* how many session ids have been drawn

vars == <<config, resumes, session, archive, tailored, aliases, feedback, step, opened>>
files == <<resumes, session, archive, tailored, aliases, feedback>>

TailoredFiles == {WorkingFile[r] : r \in Resume}

\* No edit-session.json.
NoSession ==
    [id |-> 0, mode |-> "interactive", resume |-> NoDocument, job |-> NoDocument,
     changes |-> <<>>, evidence |-> {}, provenance |-> {},
     cursor |-> NoSection, decisions |-> <<>>, logged |-> {}]

Absent == [absent |-> TRUE]
Idle == [at |-> "idle"]

-----------------------------------------------------------------------------
(* What the session tells about its changes.                               *)

\* _matching_provenance: seeded at the change's path, or for its text.
MatchingProvenance(s, c) ==
    {p \in s.provenance :
        p.path = c.path \/ (NonEmptyText(c.value) /\ p.claim = c.value.words)}

IsAddition(c) == c.action \in {"append", "add_skill"} /\ c.path.field \in AdditionFields

AutoCanApply(s, c) ==
    /\ ~IsAddition(c)
    /\ MatchingProvenance(s, c) # {}
    /\ \A p \in MatchingProvenance(s, c) : p.status \in AutoAllowed

\* Mutant: what auto mode would defer is deferred in every mode.
UnloggedKeys_AnyMode(s) ==
    {k \in Keys(s.changes) \ s.logged : AutoCanApply(s, s.changes[k])}

\* _unlogged_changes: what still blocks the commit; auto mode defers the rest.
UnloggedKeys(s) ==
    {k \in Keys(s.changes) \ s.logged :
        s.mode = "auto" => AutoCanApply(s, s.changes[k])}

\* Mutant: the changes of every decision, whatever it says.
AcceptedChanges_AnyAction(s) == [i \in DOMAIN s.decisions |-> s.decisions[i].change]

\* _accepted_changes: the changes of the approving decisions, in decision order,
\* with the user's text in place of the proposal's.
AcceptedChanges(s) ==
    LET applying == ItemsAt(s.decisions,
                        {i \in DOMAIN s.decisions : s.decisions[i].action \in Applying})
    IN  [i \in DOMAIN applying |->
            IF applying[i].action = "edit" /\ applying[i].content # Null
            THEN [applying[i].change EXCEPT !.value = applying[i].content]
            ELSE applying[i].change]

\* Some decision approves its change: _accepted_changes is not empty.
AnyAccepted(s) == \E i \in DOMAIN s.decisions : s.decisions[i].action \in Applying

\* _contradicted_paths
SeededContradictions(s, changes) ==
    {i \in DOMAIN changes :
        \E p \in MatchingProvenance(s, changes[i]) : p.status = "contradicted"}

BoundToActive(s) == s.resume = config.resume /\ s.job = config.job

-----------------------------------------------------------------------------
(* Verified skill targets (resume_kit_policy.skill_targets).               *)

MentionedIn(words, text) ==
    \E i \in 0 .. Len(text) - Len(words) :
        Fold(SubSeq(text, i + 1, i + Len(words))) = Fold(words)

Texts(doc) ==
    UNION {IF IsText(doc[f]) THEN {doc[f].words}
           ELSE IF IsList(doc[f]) THEN ToSet(doc[f].items) ELSE {} : f \in DOMAIN doc}

RequestedSkills(changes) ==
    UNION {IF changes[i].action # "add_skill" THEN {}
           ELSE IF IsText(changes[i].value) THEN {changes[i].value.words}
           ELSE ToSet(changes[i].value.items) : i \in DOMAIN changes}

\* _skill_targets_for_accepted_additions: a requested skill is a target when the
\* resume lists or mentions it, the job states it, or evidence tags it.
VerifiedSkillKeys(doc, job, changes, evidence) ==
    {Fold(w) : w \in {v \in RequestedSkills(changes) :
        /\ v # <<>>
        /\ \/ Fold(v) \in JobSkills[job]
           \/ \E t \in Texts(doc) : MentionedIn(v, t)
           \/ \E ev \in evidence : /\ Fold(v) \in {Fold(t) : t \in ev.tags}
                                   /\ MentionedIn(v, ev.content)}}

-----------------------------------------------------------------------------
(* Recording a decision.                                                   *)

Decision(c, action, content) == [change |-> c, action |-> action, content |-> content]

FeedbackOutcome(action) ==
    IF action = "edit" THEN "accepted_modified"
    ELSE IF action \in {"reject", "skip"} THEN "rejected" ELSE "accepted"

FeedbackRecord(s, k, action) ==
    [session |-> s.id, key |-> k, action |-> action, outcome |-> FeedbackOutcome(action)]

\* Mutant: a reopening action also closes the change.
WithDecision_LogsReopened(s, c, action, content) ==
    LET logged == s.logged \cup KeyFor(s.changes, c, s.logged)
    IN  [s EXCEPT !.decisions = Append(@, Decision(c, action, content)),
                  !.logged = logged,
                  !.cursor = HeldCursor(s.changes, logged, s.cursor, action)]

\* apply_decision, then the hold of the cursor.
WithDecision(s, c, action, content) ==
    LET logged == IF action \in Terminal THEN s.logged \cup KeyFor(s.changes, c, s.logged)
                  ELSE s.logged
    IN  [s EXCEPT !.decisions = Append(@, Decision(c, action, content)),
                  !.logged = logged,
                  !.cursor = HeldCursor(s.changes, logged, s.cursor, action)]

\* Decisions that reopen a section or answer a change again settle nothing; the
\* code takes any number of them, the model MaxRepeats.
Settles(s, k, action) ==
    action \in Terminal /\ KeyFor(s.changes, s.changes[k], s.logged) # {}
Repeats(s) == Len(s.decisions) - Cardinality(s.logged)

\* One pass of the loop of _auto_resolve: a change the policy lets through is
\* approved, the cursor having been moved to its section.
AutoResolved(s, c) == WithDecision([s EXCEPT !.cursor = SectionOf(c)], c, "approve", Null)

-----------------------------------------------------------------------------
(* Actions.                                                                *)

Init ==
    /\ config \in [resume : Resume \cup {NoDocument}, job : Job \cup {NoDocument},
                   aliasFile : AliasConfigured]
    /\ \E choice \in [Resume -> UNION {Revisions[r] : r \in Resume}] :
            /\ \A r \in Resume : choice[r] \in Revisions[r]
            /\ resumes = choice
    /\ session = NoSession
    /\ archive = {}
    /\ tailored = [w \in TailoredFiles |-> Absent]
    /\ aliases \in AliasFiles
    /\ feedback = <<>>
    /\ step = Idle
    /\ opened = 0

NewSession(mode, proposal) ==
    [id |-> opened + 1, mode |-> mode, resume |-> config.resume, job |-> config.job,
     changes |-> proposal.changes, evidence |-> proposal.evidence,
     provenance |-> proposal.provenance,
     cursor |-> InitialCursor(proposal.changes), decisions |-> <<>>, logged |-> {}]

\* Mutant: the prior session is overwritten, not archived.
OpenSession_Overwrites(mode, proposal) ==
    /\ step = Idle
    /\ opened < MaxSessions
    /\ config.resume # NoDocument
    /\ config.job # NoDocument
    /\ step' = [at |-> "resolve", session |-> NewSession(mode, proposal), records |-> <<>>,
                todo |-> IF mode = "auto" THEN proposal.changes ELSE <<>>]
    /\ opened' = opened + 1
    /\ session' = NoSession
    /\ UNCHANGED <<config, resumes, archive, tailored, aliases, feedback>>

\* Mutant: the prior session is copied to the archive, not moved.
OpenSession_Copies(mode, proposal) ==
    /\ step = Idle
    /\ opened < MaxSessions
    /\ config.resume # NoDocument
    /\ config.job # NoDocument
    /\ step' = [at |-> "resolve", session |-> NewSession(mode, proposal), records |-> <<>>,
                todo |-> IF mode = "auto" THEN proposal.changes ELSE <<>>]
    /\ opened' = opened + 1
    /\ archive' = IF session.id = 0 THEN archive ELSE archive \cup {session}
    /\ UNCHANGED <<config, resumes, session, tailored, aliases, feedback>>

\* open_session up to archive_session: the prior session file is moved away.
OpenSession(mode, proposal) ==
    /\ step = Idle
    /\ opened < MaxSessions
    /\ config.resume # NoDocument
    /\ config.job # NoDocument
    /\ step' = [at |-> "resolve", session |-> NewSession(mode, proposal), records |-> <<>>,
                todo |-> IF mode = "auto" THEN proposal.changes ELSE <<>>]
    /\ opened' = opened + 1
    /\ archive' = IF session.id = 0 THEN archive ELSE archive \cup {session}
    /\ session' = NoSession
    /\ UNCHANGED <<config, resumes, tailored, aliases, feedback>>

\* One pass of the loop of _auto_resolve, in memory.
AutoResolve ==
    /\ step.at = "resolve"
    /\ step.todo # <<>>
    /\ LET c   == Head(step.todo)
           key == Least(KeyFor(step.session.changes, c, {}))
       IN  step' = IF AutoCanApply(step.session, c)
                   THEN [step EXCEPT !.todo = Tail(@),
                            !.session = AutoResolved(@, c),
                            !.records = Append(@, FeedbackRecord(step.session, key, "approve"))]
                   ELSE [step EXCEPT !.todo = Tail(@)]
    /\ UNCHANGED <<config, files, opened>>

\* Mutant: a session without records still waits for one to be logged.
AfterSessionWrite_AlwaysLogs(records) == [at |-> "feedback", records |-> records]

AfterSessionWrite(records) ==
    IF records = <<>> THEN Idle ELSE [at |-> "feedback", records |-> records]

\* open_session: _write_state.
WriteSession ==
    /\ step.at = "resolve"
    /\ step.todo = <<>>
    /\ session' = step.session
    /\ step' = AfterSessionWrite(step.records)
    /\ UNCHANGED <<config, resumes, archive, tailored, aliases, feedback, opened>>

\* The capability appends the feedback records, one line at a time.
AppendFeedback ==
    /\ step.at = "feedback"
    /\ feedback' = Append(feedback, Head(step.records))
    /\ step' = AfterSessionWrite(Tail(step.records))
    /\ UNCHANGED <<config, resumes, session, archive, tailored, aliases, opened>>

\* decide_change once the change is found: its section must be the current one;
\* the decision is recorded and the session written before the feedback line.
RecordDecision(k, action, content) ==
    /\ step = Idle
    /\ session.id # 0
    /\ BoundToActive(session)
    /\ KeySection(session.changes, k) = session.cursor
    /\ Repeats(session) < MaxRepeats \/ Settles(session, k, action)
    /\ session' = WithDecision(session, session.changes[k], action, content)
    /\ step' = [at |-> "feedback", records |-> <<FeedbackRecord(session', k, action)>>]
    /\ UNCHANGED <<config, resumes, archive, tailored, aliases, feedback, opened>>

\* _find_change by change id: the change must not be decided yet.
DecideById(k, action, content) ==
    /\ k \in Keys(session.changes) \ session.logged
    /\ RecordDecision(k, action, content)

\* _find_change by path: the one undecided change of the path or, when all of
\* them are decided, the first.
DecideByPath(path, action, content) ==
    LET matches   == {k \in Keys(session.changes) : session.changes[k].path = path}
        undecided == matches \ session.logged
    IN  /\ matches # {}
        /\ Cardinality(undecided) <= 1
        /\ RecordDecision(Least(IF undecided = {} THEN matches ELSE undecided),
                          action, content)

\* _accepted_terminology_alias_candidates of one applying decision.
AliasCandidates(d) ==
    LET c == d.change
        accepted == IF d.action = "edit" /\ d.content # Null THEN d.content ELSE c.value
    IN  IF /\ d.action \in Applying
           /\ c.terminology /\ c.action = "replace"
           /\ IsText(c.original) /\ IsText(c.value) /\ IsText(accepted)
        THEN SetToSeq(SwapCandidates(c.original.words, accepted.words))
        ELSE <<>>

\* grow_aliases_from_accepted_terminology: what the alias file may learn.
LearnableAliases(s) ==
    IF s.mode = "auto" \/ ~config.aliasFile \/ ~Unambiguous(Effective(aliases)) THEN <<>>
    ELSE FlattenSeq([i \in DOMAIN s.decisions |-> AliasCandidates(s.decisions[i])])

\* The alias index the truth gate loads.
GateIndex == IF config.aliasFile THEN Effective(aliases) ELSE Seed

\* commit_session up to the alias growth: every gate.
CommitSession(freedom) ==
    LET s        == session
        accepted == AcceptedChanges(s)
        source   == resumes[s.resume]
        result   == ApplyDiffs(source, accepted, freedom,
                        VerifiedSkillKeys(source, s.job, accepted, s.evidence))
        assembled == ValidateResume(result.doc)
    IN  /\ step = Idle
        /\ s.id # 0
        /\ BoundToActive(s)
        /\ UnloggedKeys(s) = {}
        /\ SeededContradictions(s, accepted) = {}
        /\ AnyAccepted(s)
        /\ result.rejected = <<>>
        /\ Unambiguous(GateIndex)
        /\ ContradictedClaims(assembled, s.evidence, GateIndex) = {}
        /\ step' = [at |-> "grow", project |-> aliases, todo |-> LearnableAliases(s),
                    commit |-> [doc |-> assembled, source |-> source, session |-> s]]
        /\ UNCHANGED <<config, files, opened>>

\* One pass of the loop of _append_project_aliases, in memory.
GrowAlias ==
    /\ step.at = "grow"
    /\ step.todo # <<>>
    /\ step' = [at |-> "grow", project |-> GrowOne(step.project, Head(step.todo)),
                todo |-> Tail(step.todo), commit |-> step.commit]
    /\ UNCHANGED <<config, files, opened>>

\* _append_project_aliases: the alias file is written when it grew.
WriteAliases ==
    /\ step.at = "grow"
    /\ step.todo = <<>>
    /\ aliases' = step.project
    /\ step' = [at |-> "write_tailored", commit |-> step.commit]
    /\ UNCHANGED <<config, resumes, session, archive, tailored, feedback, opened>>

\* commit_session: the tailored file, then the session state it was loaded with.
WriteTailored ==
    /\ step.at = "write_tailored"
    /\ tailored' = [tailored EXCEPT ![WorkingFile[step.commit.session.resume]] = step.commit]
    /\ session' = step.commit.session
    /\ step' = Idle
    /\ UNCHANGED <<config, resumes, archive, aliases, feedback, opened>>

\* The process stops between two writes.
Crash ==
    /\ step # Idle
    /\ step' = Idle
    /\ UNCHANGED <<config, files, opened>>

\* set_active and the version builders move the pointers.
SetActive(resume, job) ==
    /\ step = Idle
    /\ config' = [config EXCEPT !.resume = resume, !.job = job]
    /\ UNCHANGED <<files, step, opened>>

\* A version builder rewrites a resume file in place.
RewriteResume(resume, doc) ==
    /\ step = Idle
    /\ resumes' = [resumes EXCEPT ![resume] = doc]
    /\ UNCHANGED <<config, session, archive, tailored, aliases, feedback, step, opened>>

Next ==
    \/ \E mode \in Modes, proposal \in Proposals : OpenSession(mode, proposal)
    \/ AutoResolve
    \/ WriteSession
    \/ AppendFeedback
    \/ \E a \in Answers, k \in Keys(session.changes) :
            \/ DecideById(k, a.action, a.content)
            \/ DecideByPath(session.changes[k].path, a.action, a.content)
    \/ \E freedom \in CommitFreedoms : CommitSession(freedom)
    \/ GrowAlias
    \/ WriteAliases
    \/ WriteTailored
    \/ Crash
    \/ \E resume \in Resume, job \in Job : SetActive(resume, job)
    \/ \E resume \in Resume : \E doc \in Revisions[resume] : RewriteResume(resume, doc)

Spec == Init /\ [][Next]_vars

\* A capability in flight goes on, and whoever runs the review keeps answering a
\* change of the current section, as the prompt/decide loop of the README does.
AnswerCurrentSection ==
    \E a \in Answers, k \in Keys(session.changes) :
        a.action \in Terminal /\ DecideById(k, a.action, a.content)

Progress == \/ AutoResolve \/ WriteSession \/ AppendFeedback
            \/ GrowAlias \/ WriteAliases \/ WriteTailored

FairSpec ==
    /\ Spec
    /\ WF_vars(Progress)
    /\ SF_vars(AnswerCurrentSection)

-----------------------------------------------------------------------------
(* Properties.                                                             *)

Sessions == archive \cup (IF session.id = 0 THEN {} ELSE {session})
Reviewed(s) == s.mode # "auto"

Section == {FieldSection[f] : f \in Field}
DecisionRecord == [change : Change, action : ReviewAction, content : Value]
Line == [session : Nat, key : Nat, action : ReviewAction, outcome : Outcome]

Session ==
    [id : 0 .. MaxSessions, mode : Mode,
     resume : Resume \cup {NoDocument}, job : Job \cup {NoDocument},
     changes : Seq(Change),
     evidence : {{}} \cup {p.evidence : p \in Proposals},
     provenance : {{}} \cup {p.provenance : p \in Proposals},
     cursor : Section \cup {NoSection}, decisions : Seq(DecisionRecord),
     logged : SUBSET Nat]

\* A capability in flight: what it holds in memory and has yet to write.
Step ==
    {Idle}
    \cup [at : {"resolve"}, session : Session, records : Seq(Line), todo : Seq(Change)]
    \cup [at : {"feedback"}, records : Seq(Line) \ {<<>>}]

\* The types, and that a session only logs keys of its own changes, that ids grow
\* and that a commit in flight still holds the session on disk.
TypeOK ==
    /\ config \in [resume : Resume \cup {NoDocument}, job : Job \cup {NoDocument},
                   aliasFile : AliasConfigured]
    /\ session \in Session
    /\ session.logged \subseteq Keys(session.changes)
    /\ archive \subseteq Session
    /\ opened \in 0 .. MaxSessions
    /\ feedback \in Seq(Line)
    /\ \/ step \in Step
       \/ step.at \in {"grow", "write_tailored"} /\ step.commit.session = session
    /\ step.at = "resolve" => step.session.logged \subseteq Keys(step.session.changes)

\* The cursor of a reviewed session never passes a change that has no decision:
\* every undecided change lies in the current section or a later one, so a
\* finished review has decided every change (decide_change holds the cursor "until
\* every change in that section has its own logged decision").
NoChangeSkipped ==
    Reviewed(session) => NothingSkipped(session.changes, session.logged, session.cursor)

\* A reviewed session that is not finished can always be answered: its current
\* section holds a change without a decision, which a change id selects.
AlwaysAnswerable ==
    Reviewed(session) => Answerable(session.changes, session.logged, session.cursor)

\* The cursor of a review passes nothing undecided and never strands the reviewer.
ReviewInOrder == NoChangeSkipped /\ AlwaysAnswerable

\* The keys kept with the session are the ones the code recomputes from its
\* decisions on every call.
LoggedIsRecomputed ==
    \A s \in Sessions : s.logged = TerminalKeys(s.changes, s.decisions)

LinesOf(s, log) == {i \in DOMAIN log : log[i].session = s.id}

\* The line tells the decision: its action, and the change it was about.
Describes(s, line, d) ==
    line.action = d.action /\ SameSlot(s.changes[line.key], d.change)

\* The lines of session s repeat its decisions, in their order, each at most once.
Follows(s, log) ==
    \E at \in [LinesOf(s, log) -> DOMAIN s.decisions] :
        \A i \in LinesOf(s, log) :
            /\ Describes(s, log[i], s.decisions[at[i]])
            /\ \A j \in LinesOf(s, log) : i < j => at[i] < at[j]

\* The feedback log repeats the decisions of a session that reached the disk, in
\* their order, each at most once and none invented: a crash between the two
\* files only loses lines, and a decision answered again is logged again.
FeedbackFollowsDecisions ==
    /\ \A i \in DOMAIN feedback : \E s \in Sessions : s.id = feedback[i].session
    /\ \A s \in Sessions : Follows(s, feedback)

\* The three records of a decision agree: the decision list, the keys it settles and
\* the feedback lines.
RecordsAgree == LoggedIsRecomputed /\ FeedbackFollowsDecisions

\* Every text of a tailored file that its source did not have was put there by a
\* change some logged decision of the committing session approved or edited.
TailoredIsLicensed ==
    \A w \in DOMAIN tailored :
        tailored[w] # Absent =>
            LET c == tailored[w]
            IN  \A t \in Texts(c.doc) \ Texts(c.source) :
                    \E i \in DOMAIN c.session.decisions :
                        LET d == c.session.decisions[i]
                        IN  /\ d.action \in Applying
                            /\ t \in (IF d.action = "edit" /\ d.content # Null
                                      THEN Texts([x |-> d.content])
                                      ELSE Texts([x |-> d.change.value]))

\* Nothing the gate asks about is left open in a session.
FullyDecided(s) ==
    /\ Reviewed(s) => s.logged = Keys(s.changes) /\ s.cursor = NoSection
    /\ \A k \in Keys(s.changes) : AutoCanApply(s, s.changes[k]) => k \in s.logged

\* Committed means reviewed: outside auto mode a tailored file comes from a session
\* in which every change had a terminal decision and whose review was finished, and
\* in auto mode from one in which the policy left nothing it could decide open.
CommittedMeansDecided ==
    \A w \in DOMAIN tailored :
        tailored[w] # Absent => FullyDecided(tailored[w].session)

\* A text the evidence refutes is never a claim of a tailored file, whichever
\* changes were combined and whatever the alias file says.
RefutedTextNeverWritten ==
    \A w \in DOMAIN tailored :
        tailored[w] # Absent =>
            \A c \in CollectClaims(tailored[w].doc), ev \in tailored[w].session.evidence :
                \A v \in ev.refuted : Fold(c.words) # Fold(v)

\* Growth keeps the alias file loadable and moves no term it already places: two
\* groups are never joined, however the accepted edits follow one another.
GrowthKeepsIndex == [][KeepsIndex(Effective(aliases), Effective(aliases'))]_vars

\* Decisions are never lost or rewritten: a session once on disk stays there, in
\* place or archived, and its decisions only grow.
DecisionsAppendOnly ==
    [][\A s \in Sessions :
          \E t \in Sessions' : t.id = s.id /\ IsPrefix(s.decisions, t.decisions)]_vars

\* A review someone keeps answering comes to its end, unless another one is opened.
ReviewCompletes ==
    \A n \in 1 .. MaxSessions :
        (session.id = n /\ Reviewed(session)) ~> (session.id # n \/ session.cursor = NoSection)

-----------------------------------------------------------------------------
(* The session implements the write gate.  An item is a path and an action, *)
(* which is how the session correlates a decision with a change.            *)

Slot(c) == <<c.path, c.action>>
GrantedSlots(s) ==
    {Slot(s.decisions[i].change) : i \in {j \in DOMAIN s.decisions :
                                             s.decisions[j].action \in Applying}}

OpenTarget == IF session.id = 0 THEN NoDocument ELSE WorkingFile[session.resume]

WrittenBy(commit) ==
    IF commit = Absent THEN [review |-> 0, granted |-> {}]
    ELSE [review |-> commit.session.id, granted |-> GrantedSlots(commit.session)]
Published == [w \in TailoredFiles |-> WrittenBy(tailored[w])]

Gate == INSTANCE WriteGate WITH
    File      <- TailoredFiles,
    NoFile    <- NoDocument,
    drawn     <- opened,
    target    <- OpenTarget,
    waiting   <- UnloggedKeys(session),
    granted   <- GrantedSlots(session),
    published <- Published

ImplementsWriteGate == Gate!Spec
=============================================================================
