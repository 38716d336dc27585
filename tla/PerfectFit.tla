----------------------------- MODULE PerfectFit ------------------------------
(***************************************************************************)
(* The final fit of a resume to its budgets                                *)
(* (resume_kit_facade.perfect.build_perfect).                              *)
(*                                                                         *)
(* The fit ranks what is over budget, turns the ranking into changes, and  *)
(* drives an edit session over them: open_session, one decide_change for   *)
(* each change when the caller passes decisions, commit_session.  Those    *)
(* are the actions of EditSession; "fit" is the call in flight.  The       *)
(* active job is set before the call, and the pointer to the final file is *)
(* written after it (module Lineage).                                      *)
(***************************************************************************)
EXTENDS EditSession, BudgetRanking

CONSTANTS
    Evidence,    \* the sets of evidence the project may hold
    FitModes,    \* "auto" for auto_fit, "decisions" for explicit decisions
    FitAnswers   \* the actions an explicit decision may name

ASSUME FitAssumption ==
    /\ FitModes \subseteq {"auto", "decisions"}
    /\ FitAnswers \subseteq ReviewAction
    /\ DOMAIN JobTerms = Job
    \* where the schema keeps the summary, the skills and the bullets
    /\ FieldClass[SummaryField] = "summary"
    /\ FieldClass[SkillsField] = "skills"
    /\ \A f \in ToSet(Roles) : FieldClass[f] = "experience"
    \* a resume is read through ResumeDocument.model_validate
    /\ \A r \in Resume : \A doc \in Revisions[r] :
          /\ {SkillsField, SummaryField} \cup ToSet(Roles) \subseteq DOMAIN doc
          /\ doc[SummaryField] \in [words : Seq(Word)]
          /\ \A f \in {SkillsField} \cup ToSet(Roles) : doc[f] \in [items : Seq(Seq(Word))]
          /\ ValidateResume(doc) = doc

VARIABLES
    fit,         \* build_perfect in flight
    final        \* the final file, with the fit that wrote it

fitVars == <<vars, fit, final>>

NoFit   == [at |-> "idle"]
NoFinal == [absent |-> TRUE]

-----------------------------------------------------------------------------
(* _rank_budget_work.                                                      *)

\* The trim candidates, the deferred paths of skills and bullets, and the roles
\* whose removal is deferred.
BudgetWork(doc, job, index) ==
    LET skills  == RankSkills(doc, job, index, SkillsOver(doc))
        entries == RankExperience(doc, job, index, EntriesOver(doc))
        ByRole  == { RankRoleBullets(doc, job, index, Roles[k], 1) : k \in entries.compress }
                   \cup { RankRoleBullets(doc, job, index, r, BulletsOver(doc, r)) :
                            r \in ToSet(Roles) }
    IN  [trim  |-> skills.trim \cup UNION {b.trim : b \in ByRole},
         defer |-> skills.defer \cup UNION {b.defer : b \in ByRole},
         roles |-> entries.defer]

\* The texts that are too long, in the order of budget_enforce.
TooLong(doc) ==
    (IF SummaryOver(doc) = 0 THEN <<>> ELSE <<Path(SummaryField, 0)>>)
    \o FlattenSeq([k \in DOMAIN Roles |->
            LET paths == [i \in DOMAIN doc[Roles[k]].items |-> Path(Roles[k], i)]
            IN  ItemsAt(paths, {i \in DOMAIN paths : BulletOver(doc, paths[i]) > 0})])

WordLimit(path) ==
    IF path.field = SummaryField THEN Budget.summaryWords ELSE Budget.bulletWords

-----------------------------------------------------------------------------
(* _build_proposals.                                                       *)

Proposed(path, action, original, value) ==
    [path |-> path, action |-> action, original |-> original, value |-> value,
     terminology |-> FALSE]

Named(doc, f, trims) == {i \in DOMAIN doc[f].items : Path(f, i) \in trims}

\* One removal names all ranked items of a list, in the order of the list.
Removal(doc, f, trims) ==
    Proposed(Path(f, 0), "remove", doc[f],
             List(ItemsAt(doc[f].items, Named(doc, f, trims))))

Compression(doc, path) ==
    Proposed(path, "replace", ValueAt(doc, path), Text(Shortened(ValueAt(doc, path).words)))

Trims(work, deferred) == work.trim \ deferred

\* Skills, then the roles in their order, then the compressions that keep their
\* claim and whose bullet is not cut.
FitProposals(doc, trims, compressed) ==
    LET lists == <<SkillsField>> \o Roles
        cut   == ItemsAt(lists, {k \in DOMAIN lists : \E p \in trims : p.field = lists[k]})
        kept  == ItemsAt(compressed, {i \in DOMAIN compressed : compressed[i] \notin trims})
    IN  [i \in DOMAIN cut |-> Removal(doc, cut[i], trims)]
        \o [i \in DOMAIN kept |-> Compression(doc, kept[i])]

\* What _auto_provenance_for_proposals vouches for: what is compressed and, in auto
\* mode, every removal.
VouchedFor(proposals, auto) ==
    { [path |-> p.path, claim |-> IF p.action = "remove" THEN <<>> ELSE p.value.words,
       status |-> "verified"] :
         p \in {q \in ToSet(proposals) : auto \/ q.action = "replace"} }

\* Mutant: the claims of the texts that are compressed stay in the truth report.
FitProvenance_KeepsStale(doc, evidence, proposals, auto) ==
    { [path |-> Path(c.field, c.index), claim |-> c.words,
       status |-> ClaimStatus(doc, c, evidence, GateIndex)] : c \in CollectClaims(doc) }
        \cup VouchedFor(proposals, auto)

\* What build_perfect gives the session: the truth report, but for the claims at the
\* paths it compresses, and what it vouches for itself.
FitProvenance(doc, evidence, proposals, auto) ==
    LET rewritten == {p.path : p \in {q \in ToSet(proposals) : q.action = "replace"}}
    IN  { [path |-> Path(c.field, c.index), claim |-> c.words,
           status |-> ClaimStatus(doc, c, evidence, GateIndex)] :
             c \in {d \in CollectClaims(doc) : Path(d.field, d.index) \notin rewritten} }
        \cup VouchedFor(proposals, auto)

-----------------------------------------------------------------------------
(* The call.                                                               *)

FitInit == Init /\ fit = NoFit /\ final = NoFinal

\* Everything before open_session, and its archiving of the prior session.  With
\* nothing to propose the call returns and writes nothing.
StartFit(evidence, fitMode) ==
    LET doc       == resumes[config.resume]
        work      == BudgetWork(doc, config.job, GateIndex)
        long      == TooLong(doc)
        compressed == ItemsAt(long, {i \in DOMAIN long :
                                 ClaimPreserving(doc, long[i], WordLimit(long[i]), evidence)})
        deferred  == work.defer \cup (ToSet(long) \ ToSet(compressed))
        trims     == Trims(work, deferred)
        proposals == FitProposals(doc, trims, compressed)
    IN  /\ fit = NoFit
        /\ config.resume # NoDocument
        /\ config.job # NoDocument
        /\ Unambiguous(GateIndex)
        /\ proposals # <<>>
        /\ OpenSession(IF fitMode = "auto" THEN "auto" ELSE "review_at_end",
                       [changes |-> proposals, evidence |-> evidence,
                        provenance |-> FitProvenance(doc, evidence, proposals,
                                                     fitMode = "auto")])
        /\ \E answers \in IF fitMode = "auto" THEN {<<>>}
                          ELSE [DOMAIN proposals -> FitAnswers] :
              fit' = [at |-> "open", auto |-> fitMode = "auto", source |-> doc,
                      trims |-> trims, deferred |-> deferred, roles |-> work.roles,
                      todo |-> answers, answers |-> answers]
        /\ UNCHANGED final

\* open_session: _write_state.  The records it returns are dropped.
FitOpened ==
    /\ fit.at = "open"
    /\ step.at = "resolve"
    /\ step.todo = <<>>
    /\ session' = step.session
    /\ step' = Idle
    /\ fit' = [fit EXCEPT !.at = IF fit.auto THEN "commit" ELSE "decide"]
    /\ UNCHANGED <<config, resumes, archive, tailored, aliases, feedback, opened, final>>

\* The proposal the loop of _apply_explicit_decisions is at.
CurrentKey == Len(fit.answers) - Len(fit.todo) + 1

\* One pass of the loop: decide_change writes the session, and raises when the
\* change is not in the section under review.
FitDecide ==
    /\ fit.at = "decide"
    /\ fit.todo # <<>>
    /\ KeySection(session.changes, CurrentKey) = session.cursor
    /\ session' = WithDecision(session, session.changes[CurrentKey], Head(fit.todo), Null)
    /\ fit' = [fit EXCEPT !.todo = Tail(@)]
    /\ UNCHANGED <<config, resumes, archive, tailored, aliases, feedback, step, opened, final>>

\* The level build_perfect commits with.
FitFreedom == 6

FitCommit ==
    /\ \/ fit.at = "commit"
       \/ fit.at = "decide" /\ fit.todo = <<>>
    /\ CommitSession(FitFreedom)
    /\ fit' = [fit EXCEPT !.at = "write"]
    /\ UNCHANGED final

\* Mutant: only the first item of a list is entered.
Dropped_FirstOnly(applied, trims) ==
    {p \in trims : /\ \E c \in applied : c.action = "remove" /\ c.path.field = p.field
                   /\ \A q \in trims : q.field = p.field => p.index <= q.index}

\* The ranked items whose removal was applied.
Dropped(applied, trims) ==
    {p \in trims : \E c \in applied : c.action = "remove" /\ c.path.field = p.field}

\* _ledger_for_applied_changes
FitLedger(source, applied, trims) ==
    { [path |-> p, token |-> ItemAt(source, p), fate |-> "dropped"] :
        p \in Dropped(applied, trims) }
    \cup { [path |-> c.path, token |-> c.original.words, fate |-> "compressed"] :
            c \in {d \in applied : d.action = "replace"} }

\* The final file is a copy of the tailored one just written.
WriteFinal ==
    /\ fit.at = "write"
    /\ step = Idle
    /\ final' = [doc |-> tailored[WorkingFile[session.resume]].doc,
                 source |-> fit.source, auto |-> fit.auto, answers |-> fit.answers,
                 changes |-> session.changes, deferred |-> fit.deferred,
                 roles |-> fit.roles, job |-> session.job,
                 provenance |-> session.provenance,
                 ledger |-> FitLedger(fit.source, ToSet(AcceptedChanges(session)), fit.trims)]
    /\ fit' = NoFit
    /\ UNCHANGED vars

\* A refused decision or commit raises, and the process may stop: the call is
\* over, and what it wrote stays.
StopFit ==
    /\ fit # NoFit
    /\ fit' = NoFit
    /\ step' = Idle
    /\ UNCHANGED <<config, files, opened, final>>

\* No change of a fit mirrors the employer's wording, so its commits grow no alias.
FitNext ==
    \/ \E evidence \in Evidence, fitMode \in FitModes : StartFit(evidence, fitMode)
    \/ AutoResolve /\ UNCHANGED <<fit, final>>
    \/ FitOpened
    \/ FitDecide
    \/ FitCommit
    \/ (WriteAliases \/ WriteTailored) /\ UNCHANGED <<fit, final>>
    \/ WriteFinal
    \/ StopFit

FitSpec == FitInit /\ [][FitNext]_fitVars
-----------------------------------------------------------------------------
(* Properties, of every final file there ever is.                           *)

Lists == {SkillsField} \cup ToSet(Roles)

\* How many of the items read as the text does: the engine tells texts apart by
\* their case fold.
CountOf(items, text) == Cardinality({i \in DOMAIN items : Fold(items[i]) = Fold(text)})
Entries(fate, f) == {e \in final.ledger : e.fate = fate /\ e.path.field = f}

\* The fit loses nothing unexplained: an item of the source that is not in the
\* final resume has a ledger entry, and nothing is entered as dropped that is
\* still there, although items are removed by value and may be equal ("a gate
\* asserts every removed token is accounted for").
EveryLossIsLedgered ==
    final # NoFinal =>
        /\ final.source[SummaryField] # final.doc[SummaryField] =>
              Entries("compressed", SummaryField) # {}
        /\ \A f \in Lists :
              LET before == final.source[f].items
                  after  == final.doc[f].items
              IN  /\ Len(before) = Len(after) + Cardinality(Entries("dropped", f))
                  /\ \A t \in ToSet(before) :
                        CountOf(before, t) <= CountOf(after, t)
                            + Cardinality({e \in Entries("dropped", f) \cup Entries("compressed", f) :
                                                Fold(e.token) = Fold(t)})

\* The fit selects and shortens: a text of the final resume that the source does
\* not have is one of its texts without some fillers, with every other word of it,
\* and fits its budget ("compression, not truncation").
NothingInvented ==
    final # NoFinal =>
        \A f \in Lists \cup {SummaryField} :
            \A t \in Texts([x |-> final.doc[f]]) \ Texts([x |-> final.source[f]]) :
                /\ f # SkillsField
                /\ Len(t) <= WordLimit(Path(f, 0))
                /\ \E before \in Texts([x |-> final.source[f]]) :
                      /\ ToSet(t) \subseteq ToSet(before)
                      /\ Tokens(before) \ Filler \subseteq Tokens(t)

\* A fit takes away, with a record, and never adds.
NothingLostOrInvented == EveryLossIsLedgered /\ NothingInvented

\* What ties, and what cannot be compressed, is left for a human: no deferred item
\* is cut.  Each is there as it was, except that a bullet that ties and is too long
\* may be there shortened, with an entry.
DeferredSurvives ==
    final # NoFinal =>
        \A f \in Lists :
            LET shortened == {e.path : e \in Entries("compressed", f)}
                held      == {p \in final.deferred : p.field = f}
            IN  /\ \A p \in held \cap shortened :
                        Shortened(ItemAt(final.source, p)) \in ToSet(final.doc[f].items)
                /\ \A t \in ToSet(final.source[f].items) :
                        Cardinality({p \in held \ shortened :
                                        Fold(ItemAt(final.source, p)) = Fold(t)})
                            <= CountOf(final.doc[f].items, t)

ScoreOf(doc, job, index, path) ==
    IF path.field = SkillsField
    THEN SkillScore(doc, job, index, path.index)
    ELSE BulletScore(doc, job, index, path)

Score(path) == ScoreOf(final.source, final.job, GateIndex, path)

\* What was cut scores lower than everything kept in its list that is not
\* deferred: neither ties, nor positions, nor equal items cut the better one.
CutsAreTheLowest ==
    final # NoFinal =>
        \A f \in Lists :
            LET cut  == {e.path : e \in Entries("dropped", f)}
                kept == {Path(f, i) : i \in DOMAIN final.source[f].items}
                            \ (cut \cup final.deferred)
            IN  \A p \in cut, q \in kept : Score(p) < Score(q)

Within(limit, n) == limit = NoLimit \/ n <= limit

\* Nothing is cut that the budgets do not ask for: a list that lost items still
\* fills its budget, but for a role chosen for compression, which may lose one more.
NoCutBelowBudget ==
    final # NoFinal =>
        \A f \in Lists :
            LET left  == Len(final.doc[f].items)
                extra == When(\E k \in final.roles : Roles[k] = f, 1)
                limit == IF f = SkillsField THEN Budget.skills ELSE Budget.bullets
            IN  Entries("dropped", f) # {} =>
                    \/ limit # NoLimit /\ left >= limit
                    \/ left + extra = Len(final.source[f].items)

\* With explicit decisions nothing is dropped or rewritten that the caller did
\* not approve, in whatever order the changes were answered.
NothingDroppedUnasked ==
    final # NoFinal /\ ~final.auto =>
        \A e \in final.ledger :
            \E i \in DOMAIN final.answers :
                /\ final.answers[i] \in Applying
                /\ final.changes[i].path \in {e.path, Path(e.path.field, 0)}

\* Nothing goes that was left to the human: neither a deferred item nor one the
\* explicit answers keep.
HumanDecidesTheRest == DeferredSurvives /\ NothingDroppedUnasked

\* The compressions auto mode neither applies nor defers: the shortened text repeats
\* a claim of the resume, made elsewhere, that is not vouched for.
LeftUndecided(provenance, text) ==
    \E q \in provenance : q.claim = Shortened(text) /\ q.status \notin AutoAllowed

\* Why a text of a field is still as long as it was.
Excused(text, f) ==
    \E p \in ToSet(TooLong(final.source)) :
        LET long == ValueAt(final.source, p).words
        IN  /\ p.field = f /\ Fold(long) = Fold(text)
            /\ p \in final.deferred \/ LeftUndecided(final.provenance, long)

\* An auto-fit brings every list within its budget unless an item of it is
\* deferred, and every text unless it is deferred itself or its compression is
\* left undecided.  The call reports the first and not the second
\* (committed.rejected has no undecided change): of what it reports, this is all
\* that may be over its budget, and of the rest exactly those texts.
FitsOrDefers ==
    final # NoFinal /\ final.auto =>
        /\ \A f \in Lists :
              \/ \E p \in final.deferred : p.field = f
              \/ Within(IF f = SkillsField THEN Budget.skills ELSE Budget.bullets,
                        Len(final.doc[f].items))
        /\ \A f \in {SummaryField} \cup ToSet(Roles) :
              \A t \in Texts([x |-> final.doc[f]]) :
                  Within(WordLimit(Path(f, 0)), Len(t)) \/ Excused(t, f)

\* The fit cuts what the budgets ask for: not more, and not less but for what it
\* defers and for the compressions auto mode leaves undecided.
FitsToTheBudget == NoCutBelowBudget /\ FitsOrDefers

=============================================================================
