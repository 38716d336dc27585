--------------------------- MODULE BudgetRanking ----------------------------
(***************************************************************************)
(* Budgets, the job-aware rankers and the compressor of the final fit      *)
(* (resume_kit_scoring: budget_enforce, rank_skills, rank_bullets,         *)
(* rank_experience, compress).                                             *)
(*                                                                         *)
(* A resume has a field of skills, a summary and, for each role in their   *)
(* order, a field of bullets; the rest of a role is fixed by constants.    *)
(* The lists of words the rankers look for are the record Vocabulary.      *)
(***************************************************************************)
EXTENDS TruthReport

CONSTANTS
    SkillsField, SummaryField,
    Roles,        \* the bullet fields, in the order of workExperience
    RoleTitle,    \* role -> its title
    RoleCompany,  \* role -> its company
    RoleYears,    \* role -> [start, end], years
    JobTerms,     \* job -> its concrete keywords (_job_terms)
    Vocabulary,   \* the word lists of the rankers
    Filler,       \* surfaces of the words a compression may drop
    Budget        \* the informational budgets of the shape policy

NoLimit == -1      \* a budget that is not set
NoYear  == 0       \* a date that does not parse
Present == 9999

ASSUME RankingAssumption ==
    /\ {SkillsField, SummaryField} \cup ToSet(Roles) \subseteq Field
    /\ Roles \in Seq(Field)
    /\ \A i, j \in DOMAIN Roles : Roles[i] = Roles[j] => i = j
    /\ SkillsField \notin ToSet(Roles)
    /\ \A j \in DOMAIN JobTerms : IsFiniteSet(JobTerms[j])
    /\ Budget \in [{"skills", "entries", "bullets", "summaryWords", "bulletWords"}
                     -> Nat \cup {NoLimit}]

Path(f, i) == [field |-> f, index |-> i]
ItemAt(doc, path) == doc[path.field].items[path.index]

-----------------------------------------------------------------------------
(* Budgets.                                                                *)

\* _append_violation: how far over the limit; 0 is no violation.
Overage(limit, actual) ==
    IF limit = NoLimit \/ actual <= limit THEN 0 ELSE actual - limit

SkillsOver(doc)    == Overage(Budget.skills, Len(doc[SkillsField].items))
EntriesOver(doc)   == Overage(Budget.entries, Len(Roles))
BulletsOver(doc, r) == Overage(Budget.bullets, Len(doc[r].items))
SummaryOver(doc)   == Overage(Budget.summaryWords, Len(doc[SummaryField].words))
BulletOver(doc, path) == Overage(Budget.bulletWords, Len(ItemAt(doc, path)))

-----------------------------------------------------------------------------
(* Terms of the job in a text: no stemming, windows of the term's length.  *)

SameTerm(index, a, b) ==
    /\ a # <<>>
    /\ b # <<>>
    /\ \/ Fold(a) = Fold(b)
       \/ /\ CanonicalFor(index, Normalize(a)) # NoCanonical
          /\ CanonicalFor(index, Normalize(a)) = CanonicalFor(index, Normalize(b))

TermInText(index, term, text) ==
    \E i \in 0 .. Len(text) - Len(term) :
        SameTerm(index, term, SubSeq(text, i + 1, i + Len(term)))

Relevance(index, job, text) ==
    Cardinality({t \in JobTerms[job] : TermInText(index, t, text)})

BulletPaths(doc) ==
    UNION {{Path(r, i) : i \in DOMAIN doc[r].items} : r \in ToSet(Roles)}

\* _resume_usage_text
UsageText(doc) ==
    doc[SummaryField].words
        \o FlattenSeq(FlattenSeq([k \in DOMAIN Roles |-> doc[Roles[k]].items]))

Has(text, words) == Tokens(text) \cap words # {}
When(condition, points) == IF condition THEN points ELSE 0
AtMost(n, limit) == IF n < limit THEN n ELSE limit

-----------------------------------------------------------------------------
(* Scores: the higher, the better worth keeping.                           *)

SkillScore(doc, job, index, i) ==
    LET skills  == doc[SkillsField].items
        skill   == skills[i]
        matched == \E t \in JobTerms[job] : SameTerm(index, skill, t)
        used    == TermInText(index, skill, UsageText(doc))
    IN  50 + (IF matched /\ used THEN 40 ELSE IF matched THEN 24 ELSE When(used, 16))
           + When(Has(skill, Vocabulary.specific), 14)
           - When(Fold(skill) \in Vocabulary.umbrella, 8)
           - When(Fold(skill) \in Vocabulary.soft, 10)
           - When(Fold(skill) \in Vocabulary.foundational, 20)
           - When(\E j \in 1 .. i - 1 : Fold(skills[j]) = Fold(skill), 40)

ToolOnly(text) ==
    \/ Surface[Head(text)] \in Vocabulary.toolOpeners
    \/ /\ Len(text) <= 8
       /\ Has(text, Vocabulary.commas)
       /\ ~Has(text, Vocabulary.impact)

\* _score_bullet
BulletScore(doc, job, index, path) ==
    LET text  == ItemAt(doc, path)
        terms == Relevance(index, job, text)
        twin  == \E p \in BulletPaths(doc) \ {path} : Fold(ItemAt(doc, p)) = Fold(text)
    IN  50 + When(Has(text, Vocabulary.numbers), 24)
           + When(Has(text, Vocabulary.impact), 12)
           + When(Has(text, Vocabulary.scope), 16)
           + (IF terms > 0 THEN AtMost(terms, 2) * 10 ELSE -12)
           - When(ToolOnly(text), 24)
           - When(twin, 18)
           - When(Surface[Head(text)] \in Vocabulary.weakOpeners, 8)

RecencyScore(years) ==
    LET last == IF years.end # NoYear THEN years.end ELSE years.start
    IN  CASE last = NoYear                  -> 6
          [] last = Present                 -> 30
          [] last \in 2022 .. Present - 1   -> 24
          [] last \in 2018 .. 2021          -> 16
          [] last \in 2014 .. 2017          -> 8
          [] last \in 1 .. 2013             -> 0

SeniorityScore(title) ==
    IF Has(title, Vocabulary.senior) THEN 24
    ELSE IF Has(title, Vocabulary.mid) THEN 12
    ELSE IF Has(title, Vocabulary.junior) THEN 2 ELSE 6

\* _continuity_risk: a present role, or a dated one with a role on both sides.
ContinuityRisk(k) ==
    LET years == RoleYears[Roles[k]]
    IN  /\ Len(Roles) > 1
        /\ \/ years.end = Present
           \/ k \in 2 .. Len(Roles) - 1 /\ years.start # NoYear /\ years.end # NoYear

RoleScore(doc, job, index, k) ==
    LET r == Roles[k]
        text == RoleCompany[r] \o RoleTitle[r] \o FlattenSeq(doc[r].items)
    IN  RecencyScore(RoleYears[r]) + SeniorityScore(RoleTitle[r])
           + 12 * AtMost(Relevance(index, job, text), 3)
           + When(\E b \in DOMAIN doc[r].items : Has(doc[r].items[b], Vocabulary.numbers), 18)
           + When(ContinuityRisk(k), 10)

-----------------------------------------------------------------------------
(* Selection.  A score is a function from the items ranked.                *)

\* _select_lowest_with_boundary_ties: the items below count others at most, and
\* all that tie with the last of them.
Selected(score, count) ==
    {x \in DOMAIN score : Cardinality({y \in DOMAIN score : score[y] < score[x]}) < count}

\* Mutant: nothing is deferred.
Tied_Never(score, items) == {}

\* _deferred_scores: a score two selected items share is left to a human.
Tied(score, items) ==
    {x \in items : \E y \in items \ {x} : score[y] = score[x]}

\* rank_skills
RankSkills(doc, job, index, count) ==
    LET score  == [i \in DOMAIN doc[SkillsField].items |-> SkillScore(doc, job, index, i)]
        chosen == Selected(score, count)
    IN  [trim  |-> {Path(SkillsField, i) : i \in chosen \ Tied(score, chosen)},
         defer |-> {Path(SkillsField, i) : i \in Tied(score, chosen)}]

\* rank_experience: for every two entries over the budget one entry, rounded up.
\* A role that is not tied is to be compressed; its removal is always deferred.
RankExperience(doc, job, index, count) ==
    LET score  == [k \in DOMAIN Roles |-> RoleScore(doc, job, index, k)]
        chosen == Selected(score, (count + 1) \div 2)
    IN  IF count = 0 THEN [compress |-> {}, defer |-> {}]
        ELSE [compress |-> chosen \ Tied(score, chosen), defer |-> chosen]

\* The order of the ranked bullets: by score, then by position.
RankedBefore(score, p, q) ==
    \/ score[p] < score[q]
    \/ score[p] = score[q] /\ p.index < q.index

Lowest(score, items, count) ==
    {p \in items : Cardinality({q \in items : RankedBefore(score, q, p)}) < count}

\* _rank_role_bullets: every bullet of the resume is ranked, so a bullet may tie
\* with one of another role; then the lowest of the role.
RankRoleBullets(doc, job, index, role, count) ==
    LET score  == [p \in BulletPaths(doc) |-> BulletScore(doc, job, index, p)]
        chosen == Lowest(score, {p \in BulletPaths(doc) : p.field = role}, count)
        tied   == Tied(score, BulletPaths(doc))
    IN  [trim |-> chosen \ tied, defer |-> chosen \cap tied]

-----------------------------------------------------------------------------
(* Compression.                                                            *)

\* _default_phrasing
Shortened(words) ==
    ItemsAt(words, {i \in DOMAIN words : Surface[words[i]] \notin Filler})

\* _candidate: the rewrite changed the text, fits, and is still a claim the
\* evidence does not fail.  The validator is called without the project aliases.
ClaimPreserving(doc, path, limit, evidence) ==
    LET before == ValueAt(doc, path).words
        after  == Shortened(before)
        claim  == Claim(path.field, path.index, after)
        rewritten == SetAt(doc, path, Text(after))
    IN  /\ after # before
        /\ Len(after) <= limit
        /\ claim \in CollectClaims(rewritten)
        /\ ClaimStatus(rewritten, claim, evidence, Seed) \notin {"unsupported", "contradicted"}
=============================================================================
