-------------------------- MODULE PreferenceProfile --------------------------
(***************************************************************************)
(* What the toolkit learns from the user's edits                           *)
(* (resume_kit_feedback.preferences): the append-only edit-feedback log    *)
(* and the log of preference pairs, aggregated into a preference profile.  *)
(*                                                                         *)
(* Times are counted in half-lives of a signal, and Decay is what the      *)
(* weight exp(-lambda * age) is at an age, in integers: a signal never     *)
(* weighs more when it is older, and FullWeight is the weight 1.0.  A      *)
(* phrase is a model value; CleanForm is the surface form without stop     *)
(* words, NoTerm when nothing is left.                                     *)
(***************************************************************************)
EXTENDS Items, FiniteSetsExt

CONSTANTS
    Phrase,       \* the phrases a record or a pair can carry
    NoTerm,       \* the clean form of a phrase of stop words only
    CleanForm,    \* phrase -> its clean form
    Alphabet,     \* the clean terms and the other keys, in string order
    Decay,        \* age -> the weight of a signal of that age
    Generic, ToolOrNumber, Compound,  \* the terms by what makes them specific
    Opaque,       \* the labels of a pair that are identifiers, not phrases
    ConciseType,  \* the edit types that name a trim, a tightening, ...
    Instant,      \* timestamp, as its characters -> the half-life it falls in
    Undated,      \* the instant of a timestamp that does not parse
    None,         \* an absent text, distance, tone, ...
    MaxTime       \* bound: the last half-life of a run

ASSUME ProfileAssumption ==
    /\ DOMAIN CleanForm = Phrase /\ IsFiniteSet(Phrase)
    /\ Generic \cap ToolOrNumber = {}
    /\ MaxTime \in Nat
    /\ Decay \in [0 .. MaxTime -> Nat] /\ Decay[0] > 0
    /\ \A a, b \in 0 .. MaxTime : a <= b => Decay[b] <= Decay[a]
    \* the string order: every key is in it, and once
    /\ Alphabet \in Seq(ToSet(Alphabet))
    /\ {CleanForm[p] : p \in Phrase} \ {NoTerm} \subseteq ToSet(Alphabet)
    /\ {"concise", "impactful", "shorter", "detailed", "aggressive", "minimal"}
          \subseteq ToSet(Alphabet)
    /\ Undated \notin Int /\ None \notin Int
    \* a timestamp is whatever text the callers supply
    /\ DOMAIN Instant \subseteq Seq(Nat) /\ None \notin DOMAIN Instant
    /\ Instant \in [DOMAIN Instant -> Nat \cup {Undated}]

Stamp     == DOMAIN Instant
CleanTerm == {CleanForm[p] : p \in Phrase} \ {NoTerm}

FullWeight        == Decay[0]
MODERATE          == 3 * FullWeight
UndoneMultiplier  == 2

CleanTerms(phrases) == {CleanForm[p] : p \in phrases} \ {NoTerm}

\* Mutant: the sign of the exponent is lost.
DecayWeight_Growing(stamp, now) ==
    LET time == Instant[stamp]
    IN  IF Undated \in {time, now} \/ time > now THEN FullWeight
        ELSE 2 * FullWeight - Decay[now - time]

\* _decay_weight: a malformed timestamp never decays, a future one is fresh.
DecayWeight(stamp, now) ==
    LET time == Instant[stamp]
    IN  IF Undated \in {time, now} \/ time > now THEN FullWeight
        ELSE Decay[now - time]

Accepts(r)  == r.outcome \in {"accepted", "accepted_modified"}
Dislikes(r) == r.outcome \in {"rejected", "undone"}

\* _record_diff_terms: the explicit terms, or those an old record aimed at.
DiffTerms(r) ==
    LET diff == [removed |-> CleanTerms(r.removed), added |-> CleanTerms(r.added),
                 preserved |-> CleanTerms(r.preserved)]
        aims == CleanTerms(r.target)
        None3 == [removed |-> {}, added |-> {}, preserved |-> {}]
    IN  IF diff # None3   THEN diff
        ELSE IF Accepts(r) THEN [None3 EXCEPT !.preserved = aims]
        ELSE [None3 EXCEPT !.removed = aims]

One(condition) == IF condition THEN 1 ELSE 0

\* Each record's vote for a key, before the decay.
AcceptedVote(r, t) ==
    IF Accepts(r) THEN One(t \in DiffTerms(r).added) + One(t \in DiffTerms(r).preserved) ELSE 0

DislikedTerms(r) ==
    LET d == DiffTerms(r)
    IN  IF d.added # {} THEN d.added ELSE IF d.preserved # {} THEN d.preserved ELSE d.removed

NegativeVote(r) == IF ~Dislikes(r) THEN 0 ELSE IF r.outcome = "undone" THEN UndoneMultiplier ELSE 1

RejectedVote(r, t) ==
    One(r.outcome = "accepted_modified" /\ t \in DiffTerms(r).removed)
    + (IF t \in DislikedTerms(r) THEN NegativeVote(r) ELSE 0)

PatternVote(r, type) == IF r.type = type THEN NegativeVote(r) ELSE 0

Kept(r)   == IF r.final # None THEN r.final ELSE r.proposed
Bucket(r) == IF Kept(r) < r.original THEN "shorter"
             ELSE IF Kept(r) > r.original THEN "detailed" ELSE None
LengthVote(r, bucket) == One(Accepts(r) /\ bucket = Bucket(r))

Abs(n) == IF n < 0 THEN -n ELSE n

\* _edit_strength_vote: by the edit distance (in tenths), else by the size.
Strength(r) ==
    IF \/ r.distance # None /\ r.distance >= 5
       \/ r.distance = None /\ (r.original = 0 \/ 2 * Abs(r.proposed - r.original) >= r.original)
    THEN "aggressive" ELSE "minimal"
StrengthVote(r, strength) == One(Accepts(r) /\ strength = Strength(r))

Tone(r) == IF r.type \in ConciseType THEN "concise" ELSE "impactful"
ToneVote(r, tone) == One(Accepts(r) /\ tone = Tone(r))

\* The decayed sum of the votes for each key.
Weights(keys, records, now, Vote(_, _)) ==
    [k \in keys |-> SumFunction([i \in DOMAIN records |->
                                    Vote(records[i], k) * DecayWeight(records[i].time, now)])]

\* Mutant: one fresh signal is enough.
TierSelected_Weak(weight) == weight >= FullWeight

\* _tier_selected
TierSelected(weight) == weight >= MODERATE

Position(k) == SelectInSeq(Alphabet, LAMBDA a : a = k)

ByWeight(weights, keys) ==
    SortedBy(keys, {p \in keys \X keys :
                       \/ weights[p[1]] > weights[p[2]]
                       \/ weights[p[1]] = weights[p[2]] /\ Position(p[1]) < Position(p[2])})

\* _sorted_by_weight, _top_emitted, _top_terms
SortedByWeight(weights) ==
    ByWeight(weights, {k \in DOMAIN weights : TierSelected(weights[k])})
TopEmitted(weights) ==
    IF SortedByWeight(weights) = << >> THEN None ELSE Head(SortedByWeight(weights))
TopTerms(weights) ==
    LET supported == ByWeight(weights, {k \in DOMAIN weights : weights[k] > 0})
    IN  SubSeq(supported, 1, Min({6, Len(supported)}))

-----------------------------------------------------------------------------
(* Vague terms replaced by specific ones. *)

SpecificityScore(t) ==
    CASE t \in Generic -> 0 [] t \in ToolOrNumber -> 3 [] t \in Compound -> 2 [] OTHER -> 1

IsSpecificityUpgrade(old, new) ==
    \/ SpecificityScore(old) = 0 /\ SpecificityScore(new) > 0
    \/ SpecificityScore(old) < SpecificityScore(new) /\ SpecificityScore(new) >= 2

\* A signal replaces some terms by others, with a weight: an accepted record,
\* or a preference pair between two phrases.
RecordSignals(records, now) ==
    [i \in {j \in DOMAIN records : Accepts(records[j])} |->
        [removed |-> DiffTerms(records[i]).removed, added |-> DiffTerms(records[i]).added,
         weight |-> DecayWeight(records[i].time, now)]]

PairWeight(pair, now) ==
    (IF pair.strength > 0 THEN pair.strength ELSE 0)
        * (IF pair.time = None THEN FullWeight ELSE DecayWeight(pair.time, now))

PairTerms(pair) ==
    LET terms == <<CleanForm[pair.preferred], CleanForm[pair.rejected]>>
    IN  IF {terms[1], terms[2]} \cap (Opaque \cup {NoTerm}) = {} THEN terms ELSE << >>

PairSignals(pairs, now) ==
    [i \in {j \in DOMAIN pairs : PairTerms(pairs[j]) # << >>} |->
        [removed |-> {PairTerms(pairs[i])[2]}, added |-> {PairTerms(pairs[i])[1]},
         weight |-> PairWeight(pairs[i], now)]]

Upgrades(s) == {u \in s.removed \X s.added : IsSpecificityUpgrade(u[1], u[2])}

\* The weight of the signals, each as often as Times says.
Weighed(signals, Times(_)) ==
    SumFunction([i \in DOMAIN signals |-> signals[i].weight * Times(signals[i])])

VagueWeights(records, pairs) ==
    LET Times(t, s) == Cardinality({u \in Upgrades(s) : u[1] = t})
    IN  [t \in CleanTerm |-> Weighed(records, LAMBDA s : Times(t, s))
                             + Weighed(pairs, LAMBDA s : Times(t, s))]
SpecificWeights(records, pairs) ==
    LET Times(t, s) == Cardinality({u \in Upgrades(s) : u[2] = t})
    IN  [t \in CleanTerm |-> Weighed(records, LAMBDA s : Times(t, s))
                             + Weighed(pairs, LAMBDA s : Times(t, s))]
UpgradeWeight(records, pairs) ==
    LET Times(s) == One(Upgrades(s) # {})
    IN  Weighed(records, Times) + Weighed(pairs, Times)

\* _extend_with_specificity_patterns: terms that are not corroborated
\* themselves are named when none is.
SpecificityPatterns(records, pairs) ==
    LET Named(weights) == IF SortedByWeight(weights) # << >> THEN SortedByWeight(weights)
                          ELSE TopTerms(weights)
    IN  IF ~TierSelected(UpgradeWeight(records, pairs)) THEN << >>
        ELSE << [specific |-> Named(SpecificWeights(records, pairs)),
                 vague |-> Named(VagueWeights(records, pairs))] >>

-----------------------------------------------------------------------------
(* The profile. *)

\* _max_length_growth: the weighted mean of the growth, in percent.
MaxLengthGrowth(records, now) ==
    LET grown == {i \in DOMAIN records : /\ Accepts(records[i]) /\ records[i].original > 0
                                         /\ Kept(records[i]) > records[i].original}
        weight == [i \in grown |-> DecayWeight(records[i].time, now)]
        Growth(r) == (100 * (Kept(r) - r.original)) \div r.original
    IN  IF SumFunction(weight) < MODERATE THEN None
        ELSE SumFunction([i \in grown |-> weight[i] * Growth(records[i])]) \div SumFunction(weight)

Emitted(weights) ==
    SumFunction([k \in {j \in DOMAIN weights : TierSelected(weights[j])} |-> weights[k]])

PairKeys(pairs)         == {<<pairs[i].preferred, pairs[i].rejected>> : i \in DOMAIN pairs}
PairWeights(pairs, now) ==
    [k \in PairKeys(pairs) |->
        SumFunction([i \in {j \in DOMAIN pairs : <<pairs[j].preferred, pairs[j].rejected>> = k} |->
                        PairWeight(pairs[i], now)])]

EditTypes(records) == {records[i].type : i \in DOMAIN records}

\* derive_preferences.  The confidence is 1 - exp(-total / 7): the total.
DerivePreferences(records, pairs, now) ==
    LET accepted == Weights(CleanTerm, records, now, AcceptedVote)
        rejected == Weights(CleanTerm, records, now, RejectedVote)
        disliked == Weights(EditTypes(records), records, now, PatternVote)
        tone     == Weights({"concise", "impactful"}, records, now, ToneVote)
        length   == Weights({"shorter", "detailed"}, records, now, LengthVote)
        strength == Weights({"aggressive", "minimal"}, records, now, StrengthVote)
        edits    == RecordSignals(records, now)
        choices  == PairSignals(pairs, now)
        pattern  == UpgradeWeight(edits, choices)
    IN  [accepted |-> SortedByWeight(accepted), rejected |-> SortedByWeight(rejected),
         disliked |-> SortedByWeight(disliked), patterns |-> SpecificityPatterns(edits, choices),
         tone |-> TopEmitted(tone), length |-> TopEmitted(length),
         strength |-> TopEmitted(strength), growth |-> MaxLengthGrowth(records, now),
         confidence |-> Emitted(accepted) + Emitted(rejected) + Emitted(disliked) + Emitted(tone)
                        + Emitted(length) + Emitted(strength) + Emitted(PairWeights(pairs, now))
                        + (IF TierSelected(pattern) THEN pattern ELSE 0)]
=============================================================================
