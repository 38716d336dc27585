------------------------------- MODULE Learning -------------------------------
(***************************************************************************)
(* The learning directory of a project (resume_kit_feedback and the        *)
(* capabilities of the facade over it): three append-only logs - edit      *)
(* feedback, preference pairs, answers to job requirements - and the       *)
(* preference profile, derived on demand and used, as stale as it is, by   *)
(* the ranker.  Beside it, the interview that asks only what no answer     *)
(* suppresses.                                                             *)
(***************************************************************************)
EXTENDS EditRanker

CONSTANTS
    Feedback,       \* the records the callers append, with time None for the current one
    StampAt,        \* instant -> the timestamp the callers give it
    Form,           \* timestamp -> its precision and offset
    Pairs,          \* the preference pairs that may come with a record
    Key, Context,   \* requirement keys, and the coarse context tags of jobs
    RankContexts,   \* the [doc, evidence] a ranking is asked for
    Candidates,     \* the candidate edits of a ranking, a sequence
    PendingEdits,   \* the edits history is retrieved for
    MaxRecords,     \* bound on the records of the three logs together
    MaxAnswers      \* bound on the answers

\* The records of the three logs, as they are appended.
Outcome == {"accepted", "accepted_modified", "rejected", "undone"}
LogRecord ==
    [id : Nat, outcome : Outcome, section : STRING, type : ToSet(Alphabet),
     removed : SUBSET Phrase, added : SUBSET Phrase, preserved : SUBSET Phrase,
     target : SUBSET Phrase, original : Nat, proposed : Nat, final : Nat \cup {None},
     distance : Nat \cup {None}, time : Stamp]
LogPair ==
    [preferred : Phrase, rejected : Phrase, strength : Int, time : Stamp \cup {None}]

ASSUME LearningAssumption ==
    /\ \A r \in Feedback :
          (IF r.time = None THEN [r EXCEPT !.time = StampAt[0]] ELSE r) \in LogRecord
    /\ StampAt \in [0 .. MaxTime -> Stamp]
    /\ \A n \in 0 .. MaxTime : Instant[StampAt[n]] = n
    \* of two ISO-8601 dates of one precision and one offset, the earlier has the
    \* lower character at the first place where they differ
    /\ \A s, t \in Stamp :
          /\ Form[s] = Form[t] /\ Undated \notin {Instant[s], Instant[t]}
          /\ Instant[s] < Instant[t]
          => \E n \in 1 .. Len(s) \cap 1 .. Len(t) :
                s[n] < t[n] /\ \A i \in 1 .. n - 1 : s[i] = t[i]
    /\ Pairs \subseteq LogPair
    /\ \A i \in DOMAIN Candidates :
          /\ Candidates[i].id \in Int /\ Candidates[i].section \in DOMAIN Slot
          /\ Candidates[i].words \in Seq(Word) /\ Candidates[i].original \in Nat
          /\ Candidates[i].gain \in [ats : Int, keyword : Int]
    /\ Candidates \in Seq(ToSet(Candidates))
    /\ \A context \in RankContexts : context.doc \in [Field -> Value]
    /\ \A context \in RankContexts : \A f \in Field :
          IsListField(f) => IsList(context.doc[f])
    /\ \A edit \in PendingEdits : edit.target \subseteq Phrase

VARIABLES
    log,       \* learning/edit-feedback.jsonl
    pairs,     \* learning/preference-pairs.jsonl
    answers,   \* learning/requirement-answers.jsonl
    profile,   \* learning/preferences.json, None before the first refresh
    derived,   \* history: the inputs [log, pairs, now] of the last refresh
    now,       \* the time the callers supply
    asking     \* the question before the user, None when there is none

learningVars == <<log, pairs, answers, profile, derived, now, asking>>

\* Mutant: an answer for one context suppresses the question in all of them.
IsAlreadyAnswered_AnyContext(key, context, records) ==
    LET same == {i \in DOMAIN records : records[i].key = key}
    IN  IF same = {} THEN None ELSE records[Max(same)].answer

\* is_already_answered: the last record of the key decides, whatever context
\* it was given for.
IsAlreadyAnswered(key, context, records) ==
    LET same == {i \in DOMAIN records : records[i].key = key}
        last == records[Max(same)]
    IN  IF same = {} THEN None
        ELSE IF \/ last.answer \in {"yes", "no"}
                \/ context # None /\ last.context = context
             THEN last.answer ELSE None

LearningInit ==
    /\ log = << >> /\ pairs = << >> /\ answers = << >>
    /\ profile = None /\ derived = None
    /\ now = 0
    /\ asking = None

LogsHaveRoom == Len(log) + Len(pairs) + Len(answers) < MaxRecords

Stamped(r) == [r EXCEPT !.id = Len(log) + 1, !.time = IF @ = None THEN StampAt[now] ELSE @]

\* record_edit_feedback_capability: two appends; the second may fail and leave
\* the first.
RecordEditFeedback ==
    /\ LogsHaveRoom
    /\ \E r \in Feedback :
        /\ log' = Append(log, Stamped(r))
        /\ \/ pairs' = pairs
           \/ \E p \in Pairs : pairs' = Append(pairs, p)
    /\ UNCHANGED <<answers, profile, derived, now, asking>>

\* refresh_preferences_capability over the log on disk.
RefreshPreferences ==
    /\ profile' = DerivePreferences(log, pairs, now)
    /\ derived' = [log |-> Len(log), pairs |-> Len(pairs), now |-> now]
    /\ UNCHANGED <<log, pairs, answers, now, asking>>

TimePasses ==
    /\ now < MaxTime
    /\ now' = now + 1
    /\ UNCHANGED <<log, pairs, answers, profile, derived, asking>>

\* The interview asks what requirement_answer_capability does not report as
\* answered.
AskRequirement ==
    /\ asking = None
    /\ \E k \in Key, c \in Context :
        /\ IsAlreadyAnswered(k, c, answers) = None
        /\ asking' = [key |-> k, context |-> c]
    /\ UNCHANGED <<log, pairs, answers, profile, derived, now>>

\* append_requirement_answer: the context is kept for a scoped no only.
AnswerRequirement ==
    /\ asking # None
    /\ LogsHaveRoom /\ Len(answers) < MaxAnswers
    /\ \E a \in {"yes", "no", "not_in_context"} :
        answers' = Append(answers, [key |-> asking.key, answer |-> a,
                                    context |-> IF a = "not_in_context" THEN asking.context
                                                ELSE None])
    /\ asking' = None
    /\ UNCHANGED <<log, pairs, profile, derived, now>>

LearningNext ==
    \/ RecordEditFeedback
    \/ RefreshPreferences
    \/ TimePasses
    \/ AskRequirement
    \/ AnswerRequirement

LearningSpec == LearningInit /\ [][LearningNext]_learningVars
-----------------------------------------------------------------------------
\* The records a profile was derived from that vote for a key.
Votes(Vote(_, _), key) == {i \in 1..derived.log : Vote(log[i], key) > 0}

\* A single action never establishes a preference: every phrase, pattern of
\* edits, tone, length and strength of the profile is backed by two records
\* at least (module docstring of preferences.py, lines 7-11).
OneActionIsNoPreference ==
    profile # None =>
        /\ \A i \in DOMAIN profile.accepted : Cardinality(Votes(AcceptedVote, profile.accepted[i])) >= 2
        /\ \A i \in DOMAIN profile.rejected : Cardinality(Votes(RejectedVote, profile.rejected[i])) >= 2
        /\ \A i \in DOMAIN profile.disliked : Cardinality(Votes(PatternVote, profile.disliked[i])) >= 2
        /\ profile.tone # None => Cardinality(Votes(ToneVote, profile.tone)) >= 3
        /\ profile.length # None => Cardinality(Votes(LengthVote, profile.length)) >= 3
        /\ profile.strength # None => Cardinality(Votes(StrengthVote, profile.strength)) >= 3

\* Without new records, time only forgets: a later refresh keeps no phrase and
\* no pattern the earlier profile had not, and is not more confident
\* (_decay_weight, lines 160-178).
TimeOnlyForgets ==
    [][/\ derived # None
       /\ derived' # derived
       /\ derived'.log = derived.log /\ derived'.pairs = derived.pairs
       => /\ ToSet(profile'.accepted) \subseteq ToSet(profile.accepted)
          /\ ToSet(profile'.rejected) \subseteq ToSet(profile.rejected)
          /\ ToSet(profile'.disliked) \subseteq ToSet(profile.disliked)
          /\ profile'.patterns # << >> => profile.patterns # << >>
          /\ profile'.confidence <= profile.confidence]_learningVars

EmptyProfile == [accepted |-> << >>, rejected |-> << >>, disliked |-> << >>, length |-> None]
Ranked(context) ==
    Rank(Candidates, [evidence |-> context.evidence, history |-> log],
         IF profile = None THEN EmptyProfile ELSE profile, Seed)

Failing(doc, evidence) ==
    {c \in CollectClaims(doc) : ClaimStatus(doc, c, evidence, Seed) \in FailingStatus}

\* The truth block looks at a candidate alone and still protects the resume it
\* goes to: a candidate surfaced for a list of a grounded resume leaves it
\* grounded when it is applied (rank, lines 169-200).
RankedKeepsTruth ==
    \A context \in RankContexts :
        Failing(context.doc, context.evidence) = {} =>
            \A c \in ToSet(Ranked(context)) :
                c.section # "summary" =>
                    Failing(ApplyCandidate(context.doc, c), context.evidence) = {}

\* An exemplar is never further from the pending edit than a past edit of the
\* same outcome that was left out.  At the same distance its timestamp is not the
\* lower text, and it is not older when both are dates of one precision and one
\* offset (retrieve_preference_context, lines 190-237).  Of other pairs the older
\* may be chosen: "2024-01-01" sorts before every time of its day.
ExemplarsAreTheClosest ==
    \A edit \in PendingEdits :
        LET found == Retrieve(edit, log, 1)
            Best(e, r) == \/ Similarity(edit, e) > Similarity(edit, r)
                          \/ /\ Similarity(edit, e) = Similarity(edit, r)
                             /\ ~Newer(r.time, e.time)
                             /\ \/ Form[e.time] # Form[r.time]
                                \/ Undated \in {Instant[e.time], Instant[r.time]}
                                \/ Instant[e.time] >= Instant[r.time]
        IN  /\ \A i \in DOMAIN found.accepted, j \in DOMAIN log :
                  Accepts(log[j]) => Best(found.accepted[i], log[j])
            /\ \A i \in DOMAIN found.rejected, j \in DOMAIN log :
                  Dislikes(log[j]) => Best(found.rejected[i], log[j])

\* A question is suppressed only by an answer that holds for its context: a
\* durable yes or no, or a no for this very context (lines 96-103).
SuppressedByAValidAnswer ==
    \A k \in Key, c \in Context :
        IsAlreadyAnswered(k, c, answers) # None =>
            \E i \in DOMAIN answers :
                /\ answers[i].key = k
                /\ answers[i].answer \in {"yes", "no"} \/ answers[i].context = c

=============================================================================
