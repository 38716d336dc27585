------------------------------ MODULE EditRanker ------------------------------
(***************************************************************************)
(* What the learned history is used for: the features of a candidate edit  *)
(* (resume_kit_feedback.features), the ranking of candidates with its hard *)
(* truth block (ranker), and the retrieval of similar past edits           *)
(* (retrieval).                                                            *)
(*                                                                         *)
(* A candidate is [id, section, words, original, type, gain]: the text it  *)
(* introduces, the length of the text it replaces, and what the ATS and    *)
(* the keyword scorers say it gains, in points.  Features are percents and *)
(* a score is a number of ten-thousandths.                                 *)
(***************************************************************************)
EXTENDS TruthReport, PreferenceProfile

CONSTANTS
    Slot,        \* section of a candidate -> the field its text goes to
    Size,        \* word -> its number of characters
    Carries,     \* word -> the terms and edit types whose text occurs in it
    Quantified,  \* the words with a digit
    PhraseWords  \* phrase -> its words in lower case

ASSUME RankerAssumption ==
    /\ \A s \in DOMAIN Slot : Slot[s] \in Field
    \* only the summary is one text
    /\ \A s \in DOMAIN Slot \ {"summary"} : IsListField(Slot[s])
    /\ Size \in [Word -> Nat] /\ DOMAIN Carries = Word
    /\ PhraseWords \in [Phrase -> SUBSET UNION {PhraseWords[p] : p \in Phrase}]
    /\ \A p \in Phrase : IsFiniteSet(PhraseWords[p])
    /\ Quantified \subseteq Word

EmptyResume == [f \in Field |-> IF IsListField(f) THEN List(<< >>) ELSE Text(<< >>)]

\* _apply_candidate: a scalar is extended, a list gets one more item.
ApplyCandidate(doc, c) ==
    LET f == Slot[c.section]
    IN  IF c.words = << >> THEN doc
        ELSE IF IsText(doc[f]) THEN [doc EXCEPT ![f] = Text(@.words \o c.words)]
        ELSE [doc EXCEPT ![f] = List(Append(@.items, c.words))]

Statuses(doc, evidence, index) ==
    {ClaimStatus(doc, claim, evidence, index) : claim \in CollectClaims(doc)}
FailingStatus == {"unsupported", "contradicted"}

\* Mutant: only a refuted claim is a failure.
UnsupportedClaimRisk_RefutedOnly(c, evidence, index) ==
    IF "contradicted" \in Statuses(ApplyCandidate(EmptyResume, c), evidence, index)
    THEN 100 ELSE 0

\* _unsupported_claim_risk: the truth gate on a resume of this text alone.  It
\* has at most one claim, so the uncertain fraction is nothing or everything.
UnsupportedClaimRisk(c, evidence, index) ==
    IF Statuses(ApplyCandidate(EmptyResume, c), evidence, index)
         \cap (FailingStatus \cup {"ambiguous", "partially_supported"}) = {}
    THEN 0 ELSE 100

Clamp100(n) == IF n < 0 THEN 0 ELSE IF n > 100 THEN 100 ELSE n

Characters(words) == SumFunction([i \in DOMAIN words |-> Size[words[i]]])
                     + (IF words = << >> THEN 0 ELSE Len(words) - 1)
LengthDelta(c)    == Characters(c.words) - c.original
Mentions(c, key)  == \E i \in DOMAIN c.words : key \in Carries[c.words[i]]
MentionedOf(c, keys) == Cardinality({i \in DOMAIN keys : Mentions(c, keys[i])})

\* _voice_match.  The text of a specificity pattern is never in a candidate.
VoiceMatch(c, profile) ==
    LET fits == \/ profile.length = "shorter" /\ LengthDelta(c) <= 0
                \/ profile.length = "detailed" /\ LengthDelta(c) > 0
    IN  Clamp100(50 + 20 * MentionedOf(c, profile.accepted)
                    - 30 * MentionedOf(c, profile.rejected)
                    - 20 * MentionedOf(c, profile.disliked) + (IF fits THEN 10 ELSE 0))

Unique(c) == Cardinality({Surface[c.words[i]] : i \in DOMAIN c.words})

Specificity(c) ==
    IF c.words = << >> THEN 0
    ELSE (IF ToSet(c.words) \cap Quantified # {} THEN 50 ELSE 0) + (50 * Unique(c)) \div Len(c.words)

Repetition(c) == IF Len(c.words) <= 1 THEN 0 ELSE 100 - (100 * Unique(c)) \div Len(c.words)

SectionFit(c) ==
    LET n == Characters(c.words)
    IN  IF n = 0 THEN 0
        ELSE IF c.section \in {"skill", "certification"}
             THEN Clamp100(100 - (100 * (IF n > 40 THEN n - 40 ELSE 0)) \div 80)
        ELSE IF n < 20 THEN 5 * n
        ELSE Clamp100(100 - (IF n > 200 THEN n - 200 ELSE 0) \div 2)

\* _historical_success: of the same edit type, or else of the same section.
HistoricalSuccess(c, history) ==
    LET similar == {i \in DOMAIN history : IF c.type # None THEN history[i].type = c.type
                                           ELSE history[i].section = c.section}
    IN  IF similar = {} THEN 50
        ELSE (100 * Cardinality({i \in similar : Accepts(history[i])})) \div Cardinality(similar)

Score(c, context, profile, risk) ==
    25 * HistoricalSuccess(c, context.history)
      + 20 * Clamp100(c.gain.ats) + 15 * Clamp100(c.gain.keyword) - 15 * risk
      + 10 * VoiceMatch(c, profile) + 8 * Specificity(c) + 7 * SectionFit(c)
      - 10 * Repetition(c) - 5 * Clamp100(LengthDelta(c) \div 2)

\* HeuristicRanker.rank: the truth block, then best first, then by identifier,
\* and in a stable order when two candidates share theirs.
Better(a, b) ==
    \/ a.score > b.score
    \/ /\ a.score = b.score
       /\ a.id < b.id \/ (a.id = b.id /\ a.at < b.at)

Rank(candidates, context, profile, index) ==
    LET Risk(c) == UnsupportedClaimRisk(c, context.evidence, index)
        kept    == {i \in DOMAIN candidates : Risk(candidates[i]) < 100}
        scored  == {[score |-> Score(candidates[i], context, profile, Risk(candidates[i])),
                     id |-> candidates[i].id, at |-> i] : i \in kept}
        ranked  == SortedBy(scored, {p \in scored \X scored : Better(p[1], p[2])})
    IN  [n \in DOMAIN ranked |-> candidates[ranked[n].at]]

-----------------------------------------------------------------------------
(* Retrieval.  A pending edit is [section, type, target, strength].  Scores *)
(* are in twelfths.                                                         *)

Buckets == <<"minimal", "moderate", "aggressive">>
BucketIndex(name) == IF name \in ToSet(Buckets) THEN SelectInSeq(Buckets, LAMBDA b : b = name)
                     ELSE 2

\* _record_aggressiveness: by the edit distance (in tenths), else by the size.
RecordAggressiveness(r) ==
    LET size == Abs(r.proposed - r.original)
    IN  CASE r.distance # None -> IF r.distance >= 5 THEN "aggressive"
                                  ELSE IF r.distance <= 1 THEN "minimal" ELSE "moderate"
          [] r.distance = None /\ r.original = 0 -> "aggressive"
          [] OTHER -> IF 2 * size >= r.original THEN "aggressive"
                      ELSE IF 100 * size <= 15 * r.original THEN "minimal" ELSE "moderate"

TermsOf(phrases) == UNION {PhraseWords[p] : p \in phrases}
Overlap12(a, b)  == IF a = {} \/ b = {} THEN 0
                    ELSE (24 * Cardinality(a \cap b)) \div Cardinality(a \cup b)

Similarity(edit, r) ==
    36 * One(r.section = edit.section) + 24 * One(r.type = edit.type)
      + Overlap12(TermsOf(edit.target), TermsOf(r.target))
      + 12 - 6 * Abs(BucketIndex(edit.strength) - BucketIndex(RecordAggressiveness(r)))

\* Mutant: the timestamps are compared without the inversion.
Newer_Ascending(s, t) ==
    \E n \in 1 .. Len(t) :
        /\ n <= Len(s) + 1
        /\ \A i \in 1 .. n - 1 : s[i] = t[i]
        /\ n <= Len(s) => s[n] < t[n]

\* _recency_key: s sorts before t when its characters are inverted.  Nothing is
\* parsed: at the first place where they differ the greater character is newer,
\* and a proper prefix is newer than what continues it.
Newer(s, t) ==
    \E n \in 1 .. Len(t) :
        /\ n <= Len(s) + 1
        /\ \A i \in 1 .. n - 1 : s[i] = t[i]
        /\ n <= Len(s) => s[n] > t[n]

\* _sort_key
Closer(a, b) ==
    \/ a.score > b.score
    \/ /\ a.score = b.score
       /\ \/ Newer(a.time, b.time)
          \/ a.time = b.time /\ (a.id < b.id \/ (a.id = b.id /\ a.at < b.at))

\* retrieve_preference_context: at most k accepted and k rejected exemplars.
Retrieve(edit, records, k) ==
    LET scored == {[score |-> Similarity(edit, records[i]), time |-> records[i].time,
                    id |-> records[i].id, at |-> i] : i \in DOMAIN records}
        near   == {s \in scored : s.score > 0}
        order  == SortedBy(near, {p \in near \X near : Closer(p[1], p[2])})
        ranked == [n \in DOMAIN order |-> records[order[n].at]]
        First(those) == SubSeq(those, 1, Min({k, Len(those)}))
    IN  [accepted |-> First(ItemsAt(ranked, {n \in DOMAIN ranked : Accepts(ranked[n])})),
         rejected |-> First(ItemsAt(ranked, {n \in DOMAIN ranked : Dislikes(ranked[n])}))]
=============================================================================
