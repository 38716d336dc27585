---------------------------- MODULE SkillTargets ----------------------------
(***************************************************************************)
(* The planner of skill additions: what a provider names as target skills  *)
(* is checked against the resume, the job and the evidence before any      *)
(* change may add a skill (resume_kit_policy.skill_targets,                *)
(* resume_kit_alignment.generation.generate_skill_target_plan).            *)
(*                                                                         *)
(* A job is a record [skills, description]: the texts it requires or       *)
(* prefers, and its description, a text or Null when there is none.        *)
(***************************************************************************)
EXTENDS CandidateEvidence

NoPlan == [accepted |-> <<>>, rejected |-> <<>>]

Target(words, source)    == [words |-> words, source |-> source]
Rejection(words, reason) == [words |-> words, reason |-> reason]

\* _extract_jd_skill_index: a skill the description does not mention is no
\* skill of the job.
JobSkillKeys(job) ==
    {Fold(w) : w \in {v \in job.skills :
        v # <<>> /\ (job.description # Null => Mentioned(v, job.description.words))}}

\* _skill_present_in_resume_text searches the dump of the whole resume.
WholeText(doc) ==
    LET TextOf(f) == IF IsText(doc[f]) THEN doc[f].words
                     ELSE IF IsList(doc[f]) THEN FlattenSeq(doc[f].items) ELSE <<>>
    IN  FlattenSeq([i \in DOMAIN FieldsOf(doc) |-> TextOf(FieldsOf(doc)[i])])

\* _evidence_supports_skill: a tag is the skill and the content mentions it.
EvidenceBacks(words, evidence) ==
    \E ev \in evidence : /\ \E t \in ev.tags : Fold(t) = Fold(words)
                         /\ Mentioned(words, ev.content)

\* The first source that accounts for a skill.
TargetSource(words, doc, job, evidence) ==
    CASE Fold(words) \in ItemKeys(doc, SkillFields) -> "existing"
      [] OTHER ->
         IF Fold(words) \in JobSkillKeys(job) THEN "jd_added"
         ELSE IF Mentioned(words, WholeText(doc)) THEN "supported_by_resume"
         ELSE IF EvidenceBacks(words, evidence) THEN "evidence_backed"
         ELSE "unsupported"

\* Mutant: what nothing accounts for is accepted as well.
VerifySkillTargetPlan_AcceptAll(raw, doc, job, evidence) ==
    [accepted |-> [i \in DOMAIN raw |-> Target(raw[i], TargetSource(raw[i], doc, job, evidence))],
     rejected |-> <<>>]

\* verify_skill_target_plan: blanks are skipped, a repeated skill is refused.
VerifySkillTargetPlan(raw, doc, job, evidence) ==
    LET Judge(st, words) ==
            LET source == TargetSource(words, doc, job, evidence)
            IN  IF words = <<>> THEN st
                ELSE IF Fold(words) \in st.seen
                THEN [st EXCEPT !.plan.rejected = Append(@, Rejection(words, "duplicate_skill"))]
                ELSE [seen |-> st.seen \cup {Fold(words)},
                      plan |-> IF source = "unsupported"
                               THEN [st.plan EXCEPT !.rejected =
                                        Append(@, Rejection(words, "unsupported_skill"))]
                               ELSE [st.plan EXCEPT !.accepted =
                                        Append(@, Target(words, source))]]
    IN  FoldLeft(Judge, [seen |-> {}, plan |-> NoPlan], raw).plan

\* generate_skill_target_plan: a provider that fails, or answers with something
\* that is no list, has named no target.
SkillTargetPlan(response, doc, job, evidence) ==
    VerifySkillTargetPlan(IF response.outcome = "answered" THEN response.targets ELSE <<>>,
                          doc, job, evidence)

\* build_allowed_skill_target_keys
AllowedSkillKeys(plan) == {Fold(plan.accepted[i].words) : i \in DOMAIN plan.accepted} \ {<<>>}
=============================================================================
