---------------------------- MODULE TruthReport -----------------------------
(***************************************************************************)
(* The truth validator (resume_kit_evidence.truth): every material claim   *)
(* of a resume is classified against the candidate's evidence.             *)
(*                                                                         *)
(* A piece of evidence is a record                                         *)
(*   [content, tags, refuting, refuted, confirmed, grounds]                *)
(* : its text, its plain tags, whether one tag is a bare refutation marker,*)
(* the values of its "refuted:value" tags, whether the user confirmed it,  *)
(* and the resume sections its kind puts into the master projection.       *)
(***************************************************************************)
EXTENDS ResumeDiffs, AliasIndex

CONSTANT ClaimFields   \* the fields _collect_claims reads

Claim(f, i, words) == [field |-> f, index |-> i, words |-> words]

\* _collect_claims: the non-empty texts of the material fields.
CollectClaims(doc) ==
    UNION { IF IsText(doc[f])
            THEN {c \in {Claim(f, 0, doc[f].words)} : c.words # <<>>}
            ELSE IF IsList(doc[f])
            THEN {c \in {Claim(f, i, doc[f].items[i]) : i \in DOMAIN doc[f].items} :
                    c.words # <<>>}
            ELSE {}
          : f \in ClaimFields \cap DOMAIN doc }

EvidenceTerms(ev) == {ev.content} \cup ev.tags
Tokens(words)     == {Surface[words[i]] : i \in DOMAIN words}
Overlap(words, ev) == Cardinality(Tokens(words) \cap Tokens(ev.content))

\* Mutant: "refuted:value" tags are not read.
Refuted_MarkersOnly(words, evidence, index) ==
    \E ev \in evidence :
        ev.refuting /\ \E t \in EvidenceTerms(ev) : TermsMatch(index, words, t)

\* _refuted_by_evidence
Refuted(words, evidence, index) ==
    \E ev \in evidence :
        \/ ev.refuting /\ \E t \in EvidenceTerms(ev) : TermsMatch(index, words, t)
        \/ \E v \in ev.refuted : TermsMatch(index, words, v)

MatchesEvidence(words, ev, index) ==
    \/ Fold(ev.content) = Fold(words)
    \/ \E t \in EvidenceTerms(ev) : TermsMatch(index, words, t)

\* _classify: the first rule that fits decides.
Classify(words, evidence, index) ==
    LET exact   == {ev \in evidence : MatchesEvidence(words, ev, index)}
        partial == evidence \ exact
        size    == Cardinality(Tokens(words))
        Reaches(evs, tenths) == \E ev \in evs : 10 * Overlap(words, ev) >= tenths * size
        Confirmed(evs) == {ev \in evs : ev.confirmed}
    IN  CASE Refuted(words, evidence, index)      -> "contradicted"
          [] OTHER ->
             IF Confirmed(exact) # {}             THEN "verified"
             ELSE IF exact # {}                   THEN "supported"
             ELSE IF Reaches(Confirmed(partial), 8) THEN "user_confirmed"
             ELSE IF Reaches(partial, 6)          THEN "partially_supported"
             ELSE IF \E ev \in partial : Overlap(words, ev) > 0 THEN "ambiguous"
             ELSE "unsupported"

\* sections_preserved: a section the evidence grounds is still populated.
Populated(v) == \/ IsText(v) /\ v.words # <<>>
                \/ IsList(v) /\ v.items # <<>>
SectionsPreserved(doc, evidence) ==
    \A ev \in evidence : \A s \in ev.grounds :
        \E f \in DOMAIN doc : FieldSection[f] = s /\ Populated(doc[f])

\* validate_resume_truth: a dropped section contradicts every claim that is
\* not simply unsupported.
ClaimStatus(doc, claim, evidence, index) ==
    LET status == Classify(claim.words, evidence, index)
    IN  IF ~SectionsPreserved(doc, evidence) /\ status # "unsupported"
        THEN "contradicted" ELSE status

ContradictedClaims(doc, evidence, index) ==
    {c \in CollectClaims(doc) : ClaimStatus(doc, c, evidence, index) = "contradicted"}
=============================================================================
