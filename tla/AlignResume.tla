----------------------------- MODULE AlignResume -----------------------------
(***************************************************************************)
(* One call of the controlled-alignment pipeline                           *)
(* (resume_kit_alignment.orchestrator.align_resume): a provider proposes   *)
(* changes, the policy gate and the diff engine apply what they allow, the *)
(* truth validator checks the result, ungrounded changes are stripped or   *)
(* left to a human, and a review session is built.  On the aligned resume  *)
(* the caller may then accept one terminology suggestion                   *)
(* (resume_kit_alignment.accept).                                          *)
(*                                                                         *)
(* A provider response is a record [outcome, entries], "failed" when the   *)
(* provider raised, "missing" or "not_list" when its answer has no list of *)
(* changes; an entry is a change or Malformed.                             *)
(***************************************************************************)
EXTENDS ReviewController, SkillTargets

CONSTANTS
    Resumes,          \* the resumes a caller may align
    Jobs,             \* the jobs a caller may align them to
    EvidenceInputs,   \* the evidence a caller may pass, a sequence, or Derived
    Derived,          \* no evidence is passed: it is derived from the resume
    Calls,            \* the options of a call: [freedom, human, validate]
    PlanResponses,    \* what the provider may answer to the planner
    ChangeResponses,  \* what it may answer to the generator
    Malformed,        \* an entry that is no change proposal
    Suggestions       \* the terminology suggestions: [current, keyword, location]

ASSUME AlignAssumption ==
    /\ \A d \in Resumes :
          /\ DOMAIN d \subseteq Field
          /\ d \in [DOMAIN d -> Value]
          \* an entry of the schema has its whole heading, made of texts
          /\ \A e \in DOMAIN Heading : \A f \in ToSet(Heading[e]) \cap DOMAIN d :
                ToSet(Heading[e]) \subseteq DOMAIN d /\ ~IsList(d[f])
    /\ \A c \in Calls : /\ c.freedom \in Int
                        /\ c.human \in BOOLEAN
                        /\ c.validate \in BOOLEAN
    /\ Malformed \notin Change
    /\ \A r \in PlanResponses : r.targets \in Seq(Seq(Word))
    /\ \A r \in ChangeResponses :
          /\ r.outcome \in {"failed", "missing", "not_list", "answered"}
          /\ r.entries \in Seq(Change \cup {Malformed})
    /\ Suggestions \subseteq [current : Seq(Word), keyword : Seq(Word),
                             location : [field : Field, index : Nat]]

VARIABLES
    call,      \* the options
    original,  \* the resume as it came
    job,       \* the job
    evidence,  \* evidence_list
    stage,     \* the stage the pipeline is at
    plan,      \* skill_targets
    response,  \* what the provider answered to the generator
    proposed,  \* change_set: [changes, warnings]
    passed,    \* the last pass: [doc, applied, rejected, warnings, diff]
    failing,   \* the unsupported or contradicted claims of truth_report
    forced,    \* truth_review_required
    review,    \* review_state: [changes, decisions, cursor, complete]
    swap       \* the last AcceptResult: [applied, doc, change, swapped]

vars == <<call, original, job, evidence, stage, plan, response, proposed, passed,
          failing, forced, review, swap>>

TruthMandatoryFreedom == 3

\* run_truth
RunTruth == call.validate \/ ClampFreedom(call.freedom) >= TruthMandatoryFreedom

EvidenceSet == ToSet(evidence)

FailingClaims(doc) ==
    {c \in CollectClaims(doc) :
        ClaimStatus(doc, c, EvidenceSet, Seed) \in {"unsupported", "contradicted"}}

-----------------------------------------------------------------------------
(* The stages.                                                              *)

\* _parse_change_proposals and the failures generate_change_proposals catches.
NoChanges(warnings) == [changes |-> <<>>, warnings |-> warnings]

ParseProposals(answer) ==
    CASE answer.outcome = "failed"   -> NoChanges(<<"provider_failure">>)
      [] answer.outcome = "missing"  -> NoChanges(<<"provider_missing_changes">>)
      [] answer.outcome = "not_list" -> NoChanges(<<"provider_non_list_changes">>)
      [] answer.outcome = "answered" ->
            LET malformed == {i \in DOMAIN answer.entries : answer.entries[i] = Malformed}
                bad == ItemsAt(answer.entries, malformed)
            IN  [changes  |-> ItemsAt(answer.entries, DOMAIN answer.entries \ malformed),
                 warnings |-> [i \in DOMAIN bad |-> "provider_malformed_change"]]

\* apply_diffs, with the changes it applied and those it rejected.
ApplyAll(doc, changes, freedom, allowed) ==
    FoldLeft(LAMBDA st, c :
                LET r == ApplyChange(st.doc, c, freedom, allowed)
                IN  IF r.reason = "allowed"
                    THEN [st EXCEPT !.doc = r.doc, !.applied = Append(@, c)]
                    ELSE [st EXCEPT !.rejected = Append(@, [change |-> c, reason |-> r.reason])],
             [doc |-> doc, applied |-> <<>>, rejected |-> <<>>], ExpandAll(changes))

\* _apply_verify_diff: the warnings and the diff are about the result as the
\* engine left it, the document returned is the validated one.
ApplyVerifyDiff(doc, changes, freedom, allowed) ==
    LET run == ApplyAll(doc, changes, freedom, allowed)
    IN  [doc      |-> ValidateResume(run.doc),
         raw      |-> run.doc,
         applied  |-> run.applied,
         rejected |-> run.rejected,
         warnings |-> VerifyWarnings(doc, run.doc, run.applied),
         diff     |-> ResumeDiff(doc, run.doc)]

\* _change_touches_failing: one path is the other, or a prefix of it.
TouchesFailing(c, claims) ==
    \E f \in claims : /\ f.field = c.path.field
                      /\ f.index = c.path.index \/ f.index = 0 \/ c.path.index = 0

\* The positions of the changes to strip.
Ungrounded(applied, claims) == {i \in DOMAIN applied : TouchesFailing(applied[i], claims)}

\* Mutant: what the first pass rejected is forgotten.
Stripped_ForgetsRejections(doc, pass, claims, freedom, allowed) ==
    LET kept == ItemsAt(pass.applied, DOMAIN pass.applied \ Ungrounded(pass.applied, claims))
        out  == ItemsAt(pass.applied, Ungrounded(pass.applied, claims))
        again == ApplyVerifyDiff(doc, kept, freedom, allowed)
    IN  [again EXCEPT !.rejected = @ \o
            [i \in DOMAIN out |-> [change |-> out[i], reason |-> "truth_validation_failed"]]]

\* Mutant: the stripped changes are reported, the document keeps them.
Stripped_KeepsDocument(doc, pass, claims, freedom, allowed) ==
    LET kept == ItemsAt(pass.applied, DOMAIN pass.applied \ Ungrounded(pass.applied, claims))
        out  == ItemsAt(pass.applied, Ungrounded(pass.applied, claims))
        gone == [i \in DOMAIN out |-> [change |-> out[i], reason |-> "truth_validation_failed"]]
    IN  [pass EXCEPT !.applied = kept, !.rejected = @ \o gone]

\* _resolve_truth_failure without a human: the changes that touch a failing
\* claim are taken out and the others are applied again from the original.
Stripped(doc, pass, claims, freedom, allowed) ==
    LET kept  == ItemsAt(pass.applied, DOMAIN pass.applied \ Ungrounded(pass.applied, claims))
        out   == ItemsAt(pass.applied, Ungrounded(pass.applied, claims))
        again == ApplyVerifyDiff(doc, kept, freedom, allowed)
        gone  == [i \in DOMAIN out |->
                    [change |-> out[i], reason |-> "truth_validation_failed"]]
    IN  [again EXCEPT !.rejected = pass.rejected \o @ \o gone]

\* _ordered_sections
OrderedSections(changes) ==
    LET openers == SelectSeq([k \in DOMAIN changes |-> k], LAMBDA k : OpensSection(changes, k))
    IN  [i \in DOMAIN openers |-> KeySection(changes, openers[i])]

\* ReviewController.initialize
Initialize(changes) ==
    [changes |-> changes, decisions |-> <<>>, cursor |-> InitialCursor(changes),
     complete |-> changes = <<>>]

\* resolve_without_human: every section is approved in one go.
ResolveWithoutHuman(session) ==
    [session EXCEPT
        !.decisions = [i \in DOMAIN OrderedSections(session.changes) |->
                         [section |-> OrderedSections(session.changes)[i], action |-> "approve"]],
        !.cursor = NoSection,
        !.complete = TRUE]

\* _unresolved_questions: one question per change of the section at hand.
Unresolved(session, left_open) ==
    {k \in DOMAIN session.changes :
        /\ left_open
        /\ ~session.complete
        /\ SectionOf(session.changes[k]) = session.cursor}

-----------------------------------------------------------------------------
(* Accepting one terminology suggestion.                                    *)

\* _swap_surface_term: a token is one word, so a current wording of several
\* words is found nowhere.
SwapTerm(words, current, keyword) ==
    FlattenSeq([i \in DOMAIN words |->
        IF Fold(<<words[i]>>) = Fold(current) THEN keyword ELSE <<words[i]>>])

\* minimal_freedom_for_path, the minimum standing in for None.
MinimalFreedom(path) ==
    IF PolicyReason(path, FreedomMax) # "allowed" THEN FreedomMin
    ELSE CHOOSE l \in FreedomMin .. FreedomMax :
            /\ PolicyReason(path, l) = "allowed"
            /\ \A k \in FreedomMin .. FreedomMax : PolicyReason(path, k) = "allowed" => l <= k

FieldText(doc, path) ==
    IF Resolves(doc, path) THEN WordsOf(ValueAt(doc, path)) ELSE <<>>

TerminologyChange(doc, s) ==
    [path |-> s.location, action |-> "replace",
     original |-> Text(FieldText(doc, s.location)),
     value |-> Text(SwapTerm(FieldText(doc, s.location), s.current, s.keyword)),
     terminology |-> TRUE]

NoSwap(doc) == [applied |-> <<>>, doc |-> doc, swapped |-> FALSE]

\* Mutant: the swap is kept whatever the truth validator says of it.
AcceptSuggestion_Ungated(doc, s) ==
    LET c    == TerminologyChange(doc, s)
        pass == ApplyAll(doc, <<c>>, MinimalFreedom(s.location), {})
    IN  [applied |-> pass.applied, doc |-> ValidateResume(pass.doc),
         swapped |-> pass.applied # <<>> /\ c.original # c.value]

\* accept_terminology_alignment: a swap that leaves an ungrounded claim is
\* taken back.
AcceptSuggestion(doc, s) ==
    LET c    == TerminologyChange(doc, s)
        pass == ApplyAll(doc, <<c>>, MinimalFreedom(s.location), {})
        new  == ValidateResume(pass.doc)
        changed == pass.applied # <<>> /\ Resolves(doc, s.location) /\ c.original # c.value
    IN  IF changed /\ FailingClaims(new) # {} THEN NoSwap(doc)
        ELSE [applied |-> pass.applied, doc |-> new, swapped |-> changed]

-----------------------------------------------------------------------------
EmptyPass(doc) ==
    [doc |-> doc, raw |-> doc, applied |-> <<>>, rejected |-> <<>>, warnings |-> {},
     diff |-> [fields |-> <<>>, entries |-> {}]]

Init ==
    /\ call \in Calls
    /\ original \in Resumes
    /\ job \in Jobs
    /\ \E e \in EvidenceInputs :
          evidence = IF e = Derived THEN BuildCandidateEvidence(original, <<>>) ELSE e
    /\ stage = "plan"
    /\ plan = NoPlan
    /\ response = [outcome |-> "none", entries |-> <<>>]
    /\ proposed = NoChanges(<<>>)
    /\ passed = EmptyPass(original)
    /\ failing = {}
    /\ forced = FALSE
    /\ review = Initialize(<<>>)
    /\ swap = NoSwap(original)

\* The caller plans skill targets with the provider, or passes none.
PlanTargets ==
    /\ stage = "plan"
    /\ \/ plan' = NoPlan
       \/ \E r \in PlanResponses : plan' = SkillTargetPlan(r, original, job, EvidenceSet)
    /\ stage' = "generate"
    /\ UNCHANGED <<call, original, job, evidence, response, proposed, passed, failing,
                   forced, review, swap>>

\* Stage 1; without a provider there is nothing to ask.
Generate ==
    /\ stage = "generate"
    /\ \/ UNCHANGED <<response, proposed>>
       \/ \E r \in ChangeResponses : response' = r /\ proposed' = ParseProposals(r)
    /\ stage' = "apply"
    /\ UNCHANGED <<call, original, job, evidence, plan, passed, failing, forced, review, swap>>

\* Stages 2 to 4.
Apply ==
    /\ stage = "apply"
    /\ passed' = ApplyVerifyDiff(original, proposed.changes, ClampFreedom(call.freedom),
                                 AllowedSkillKeys(plan))
    /\ stage' = IF RunTruth THEN "truth" ELSE "review"
    /\ UNCHANGED <<call, original, job, evidence, plan, response, proposed, failing, forced,
                   review, swap>>

\* Stage 5.
ValidateTruth ==
    /\ stage = "truth"
    /\ failing' = FailingClaims(passed.doc)
    /\ stage' = IF failing' = {} THEN "review" ELSE "resolve"
    /\ UNCHANGED <<call, original, job, evidence, plan, response, proposed, passed, forced,
                   review, swap>>

\* _resolve_truth_failure with a human: nothing is stripped.
DeferToHuman ==
    /\ stage = "resolve"
    /\ call.human
    /\ forced' = TRUE
    /\ stage' = "review"
    /\ UNCHANGED <<call, original, job, evidence, plan, response, proposed, passed, failing,
                   review, swap>>

\* Mutant: the stripped result is not validated again.
StripUngrounded_NotRevalidated ==
    /\ stage = "resolve"
    /\ ~call.human
    /\ passed' = Stripped(original, passed, failing, ClampFreedom(call.freedom),
                          AllowedSkillKeys(plan))
    /\ failing' = {}
    /\ forced' = FALSE
    /\ stage' = "review"
    /\ UNCHANGED <<call, original, job, evidence, plan, response, proposed, review, swap>>

\* _resolve_truth_failure without one: strip, apply again, validate again.
StripUngrounded ==
    /\ stage = "resolve"
    /\ ~call.human
    /\ passed' = Stripped(original, passed, failing, ClampFreedom(call.freedom),
                          AllowedSkillKeys(plan))
    /\ failing' = FailingClaims(passed'.doc)
    /\ forced' = (failing' # {})
    /\ stage' = "review"
    /\ UNCHANGED <<call, original, job, evidence, plan, response, proposed, review, swap>>

\* Stage 7.
BuildReview ==
    /\ stage = "review"
    /\ review' = IF call.human \/ forced THEN Initialize(passed.applied)
                 ELSE ResolveWithoutHuman(Initialize(passed.applied))
    /\ swap' = NoSwap(passed.doc)
    /\ stage' = "done"
    /\ UNCHANGED <<call, original, job, evidence, plan, response, proposed, passed, failing,
                   forced>>

AcceptTerminology ==
    /\ stage = "done"
    /\ \E s \in Suggestions : swap' = AcceptSuggestion(swap.doc, s)
    /\ UNCHANGED <<call, original, job, evidence, stage, plan, response, proposed, passed,
                   failing, forced, review>>

Next ==
    \/ PlanTargets
    \/ Generate
    \/ Apply
    \/ ValidateTruth
    \/ DeferToHuman
    \/ StripUngrounded
    \/ BuildReview
    \/ AcceptTerminology

Spec == Init /\ [][Next]_vars

-----------------------------------------------------------------------------
(* Properties.                                                              *)

\* What the pipeline returns without asking a human has no unsupported and no
\* contradicted claim (align_resume: "No claim classified UNSUPPORTED or
\* CONTRADICTED survives"), when truth is validated and no review is forced.
ReleasedIsGrounded ==
    stage = "done" /\ RunTruth /\ ~call.human /\ ~forced => FailingClaims(passed.doc) = {}

\* A result with a failing claim that still carries changes comes with questions
\* about them ("force human review so no ungrounded output can ever be emitted
\* silently").
UngroundedIsAsked ==
    stage = "done" /\ RunTruth /\ FailingClaims(passed.doc) # {} /\ 1 \in DOMAIN passed.applied =>
        Unresolved(review, call.human \/ forced) # {}

\* No ungrounded text gets past the pipeline unasked.
GroundedOrAsked == ReleasedIsGrounded /\ UngroundedIsAsked

Bag(s) == [x \in ToSet(s) |-> Cardinality({i \in DOMAIN s : s[i] = x})]
RejectedChanges == [i \in DOMAIN passed.rejected |-> passed.rejected[i].change]

\* Every entry of the provider's answer is accounted for exactly once: applied,
\* rejected with a reason, or skipped with a warning, whatever was stripped and
\* applied again.
EveryProposalAccounted ==
    stage = "done" /\ response.outcome = "answered" =>
        /\ Bag(passed.applied \o RejectedChanges) = Bag(ExpandAll(proposed.changes))
        /\ Len(proposed.changes) + Len(proposed.warnings) = Len(response.entries)

\* The applied changes the result lists make the returned resume out of the
\* original, all of them and nothing else ("the returned result is internally
\* consistent").
AppliedReproducesResult ==
    stage = "done" =>
        LET replay == ApplyAll(original, passed.applied, ClampFreedom(call.freedom),
                               AllowedSkillKeys(plan))
        IN  /\ replay.rejected = <<>>
            /\ ValidateResume(replay.doc) = passed.doc

Gained(f) == SelectSeq(passed.diff.fields, LAMBDA d : d.field = f /\ d.kind # "removed")
Lost(f)   == SelectSeq(passed.diff.fields, LAMBDA d : d.field = f /\ d.kind # "added")
CountOf(words, items) == Cardinality({i \in DOMAIN items : items[i] = words})
CountNew(words, diffs) == Cardinality({i \in DOMAIN diffs : diffs[i].new = words})
CountOld(words, diffs) == Cardinality({i \in DOMAIN diffs : diffs[i].old = words})

\* The diff tells the whole difference between the original and what the engine
\* made of it: item by item for the bullets of work experience, by case-folded
\* key for the lists, and for the summary.
DiffsAccount ==
    stage = "done" =>
        \A f \in DOMAIN original :
            LET before == ItemsOf(original[f])
                after  == ItemsOf(passed.raw[f])
                KeysIn(items) == {Fold(items[i]) : i \in DOMAIN items}
            IN  /\ FieldClass[f] = "experience" /\ FieldSection[f] = "workExperience" =>
                      \A w \in ToSet(before) \cup ToSet(after) :
                          CountOf(w, before) - CountOld(w, Lost(f)) + CountNew(w, Gained(f))
                              = CountOf(w, after)
                /\ FieldClass[f] \in {"skills", "lists"} =>
                      /\ KeysIn(after) \ KeysIn(before) = {Fold(Gained(f)[i].new) : i \in DOMAIN Gained(f)}
                      /\ KeysIn(before) \ KeysIn(after) = {Fold(Lost(f)[i].old) : i \in DOMAIN Lost(f)}
                /\ FieldClass[f] = "summary" /\ original[f] # passed.raw[f] =>
                      Len(Gained(f)) + Len(Lost(f)) > 0

\* What the result says of itself, in applied changes and in diffs, is what happened.
ReportMatchesResult == AppliedReproducesResult /\ DiffsAccount

\* A resume that nothing was changed in is grounded in the evidence derived from
\* it, so a call without a provider never asks for a review.
UntouchedIsGrounded ==
    evidence = BuildCandidateEvidence(original, <<>>) /\ passed.applied = <<>> =>
        failing = {} /\ ~forced

\* Taking out the fabrications found in an aligned resume leaves no fabrication.
FixRemovesFabrications ==
    stage = "done" =>
        LET found == AlignmentViolations(passed.doc, original, AllowedSkillKeys(plan))
            fixed == FixAlignment(passed.doc, found)
        IN  Critical(AlignmentViolations(fixed, original, AllowedSkillKeys(plan))) = {}

\* The guard flags nothing in an untouched resume and leaves nothing it flags.
GuardIsExact == UntouchedIsGrounded /\ FixRemovesFabrications

\* A skill the planner let the engine add is one the job asks for or the resume
\* or the evidence speaks of; the provider alone cannot bring it in.
PlannedSkillsHaveASource ==
    \A i \in DOMAIN plan.accepted :
        LET skill == plan.accepted[i].words
        IN  \/ Fold(skill) \in JobSkillKeys(job)
            \/ Mentioned(skill, WholeText(original))
            \/ \E ev \in EvidenceSet : Mentioned(skill, ev.content)

\* An accepted suggestion leaves no ungrounded claim and changes nothing but its
\* own location; a refused one changes nothing.
SwapIsSafe ==
    [][ stage = "done" =>
            /\ swap'.swapped =>
                  /\ FailingClaims(swap'.doc) = {}
                  /\ \E s \in Suggestions : \A f \in DOMAIN original :
                        f # s.location.field => swap'.doc[f] = swap.doc[f]
            /\ ~swap'.swapped => swap'.doc = swap.doc ]_swap

=============================================================================
