----------------------------- MODULE AliasIndex -----------------------------
(***************************************************************************)
(* The alias lexicon (resume_kit_terms.aliases, resume_kit_terms.match)    *)
(* and its growth from accepted terminology edits                          *)
(* (resume_kit_facade.edit_session).                                       *)
(*                                                                         *)
(* A mapping is a function from the normalized canonicals of a file to the *)
(* sets of their normalized aliases.  Merging by normalized canonical and  *)
(* building the index forget how the entries are spelt, so the spelling of *)
(* a project file is left out.                                             *)
(***************************************************************************)
EXTENDS ResumeText, FiniteSets

CONSTANT Seed    \* the packaged lexicon, as a mapping

\* No term normalizes to the empty one, so it stands for "not in the index".
NoCanonical == <<>>

\* canonical plus every alias: the members of one group.
Members(mapping, canonical) == {canonical} \cup mapping[canonical]

\* AliasIndex.__init__ raises LexiconError when a term is in two groups.
Unambiguous(mapping) ==
    \A c1, c2 \in DOMAIN mapping :
        c1 # c2 => Members(mapping, c1) \cap Members(mapping, c2) = {}

\* Mutant: a project group replaces the packaged group of its canonical.
Merge_ProjectWins(seed, project) ==
    [c \in DOMAIN seed \cup DOMAIN project |->
        IF c \in DOMAIN project THEN project[c] ELSE seed[c]]

\* _merge_mappings: union keyed by normalized canonical.
Merge(seed, project) ==
    [c \in DOMAIN seed \cup DOMAIN project |->
        (IF c \in DOMAIN seed THEN seed[c] ELSE {})
            \cup (IF c \in DOMAIN project THEN project[c] ELSE {})]

Effective(project) == Merge(Seed, project)

CanonicalFor(mapping, term) ==
    IF \E c \in DOMAIN mapping : term \in Members(mapping, c)
    THEN CHOOSE c \in DOMAIN mapping : term \in Members(mapping, c)
    ELSE NoCanonical

\* match(a, b, allow_stem=True): equal surfaces, equal stems, or one group.
TermsMatch(mapping, a, b) ==
    /\ a # <<>>
    /\ b # <<>>
    /\ \/ Fold(a) = Fold(b)
       \/ Normalize(a) = Normalize(b)
       \/ /\ CanonicalFor(mapping, Normalize(a)) # NoCanonical
          /\ CanonicalFor(mapping, Normalize(a)) = CanonicalFor(mapping, Normalize(b))

-----------------------------------------------------------------------------
(* Growth.  A candidate [alias, canonical] is a pair of normalized terms.  *)

\* _candidate_from_text_swap: two texts of one length whose changed words all
\* swap the same term for the same other term give a candidate; else none.
SwapCandidates(before, after) ==
    LET changed == {i \in DOMAIN before : Surface[before[i]] # Surface[after[i]]}
        olds    == {Stem[before[i]] : i \in changed}
        news    == {Stem[after[i]] : i \in changed}
    IN  IF /\ Len(before) = Len(after)
           /\ Cardinality(olds) = 1
           /\ Cardinality(news) = 1
           /\ olds # news
        THEN {[alias |-> <<o>>, canonical |-> <<n>>] : o \in olds, n \in news}
        ELSE {}

\* Mutant: the grown index is not rebuilt before the candidate is kept.
GrowOne_Unchecked(project, cand) ==
    LET known     == CanonicalFor(Effective(project), cand.canonical)
        canonical == IF known # NoCanonical THEN known ELSE cand.canonical
    IN  [c \in DOMAIN project \cup {canonical} |->
            (IF c \in DOMAIN project THEN project[c] ELSE {})
                \cup (IF c = canonical THEN {cand.alias} ELSE {})]

\* One pass of the loop of _append_project_aliases: add the alias to the group
\* of its canonical, unless both are known already or the index would become
\* ambiguous, in which case the candidate is deferred.
GrowOne(project, cand) ==
    LET index     == Effective(project)
        ofAlias   == CanonicalFor(index, cand.alias)
        ofCanon   == CanonicalFor(index, cand.canonical)
        canonical == IF ofCanon # NoCanonical THEN ofCanon ELSE cand.canonical
        group     == IF canonical \in DOMAIN project THEN project[canonical] ELSE {}
        trial     == [c \in DOMAIN project \cup {canonical} |->
                        IF c = canonical THEN group \cup {cand.alias} ELSE project[c]]
    IN  IF \/ ofAlias # NoCanonical /\ ofCanon # NoCanonical
           \/ cand.alias \in group \cup {canonical}
           \/ ~Unambiguous(Effective(trial))
        THEN project ELSE trial

-----------------------------------------------------------------------------
(* What growth must keep.                                                   *)

\* A loadable index stays loadable and every known term keeps its canonical.
KeepsIndex(before, after) ==
    Unambiguous(before) =>
        /\ Unambiguous(after)
        /\ \A c \in DOMAIN before : \A t \in Members(before, c) :
               CanonicalFor(after, t) = CanonicalFor(before, t)
=============================================================================
