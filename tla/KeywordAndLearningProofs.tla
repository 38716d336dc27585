---------------------- MODULE KeywordAndLearningProofs ----------------------
(***************************************************************************)
(* Theorems about two specifications that share no variable, each from its *)
(* own assumptions.                                                        *)
(*                                                                         *)
(* KeywordLoop (Spec): the caches of the two engines against the alias     *)
(* file, for every resume, job, lexicon, alias file and bound.             *)
(*                                                                         *)
(* Learning (LearningSpec): what the profile, the ranker, the exemplars    *)
(* and the interview take from the logs, for every set of records, pairs   *)
(* and candidates, every order of the keys and every decay that does not   *)
(* grow.  The inductive invariant LearningInv types the logs and says that *)
(* the profile is what the prefix of the logs gave at the last refresh; a  *)
(* preference is a sum of votes that no FullWeight exceeds, and a ranking  *)
(* is a sort of a finite set by a strict total order.                      *)
(***************************************************************************)
EXTENDS KeywordLoop, Learning, LoopProofs

-----------------------------------------------------------------------------
(* KeywordLoop.                                                             *)

\* What an engine holds is what the file gives, as long as nobody edited the
\* file by hand since the caches were empty.
Fresh(caches, mapping) ==
    \A e \in Engines : caches[e] \in {Unloaded, Effective(mapping)}

Inv == /\ TypeOK
       /\ CachesFollowCommits

\* Loading keeps fresh caches fresh: an engine loads the file, or keeps its index.
LEMMA LoadedIsFresh ==
    ASSUME NEW S \in SUBSET Engines, Fresh(cached, file)
    PROVE  Fresh(Loaded(S), file)
<1> SUFFICES ASSUME NEW e \in Engines
             PROVE  Loaded(S)[e] \in {Unloaded, Effective(file)}
    BY DEF Fresh
<1>1. cached[e] \in {Unloaded, Effective(file)}
    BY DEF Fresh
<1>2. Index(e) \in {Unloaded, Effective(file)}
    BY <1>1 DEF Index
<1> QED
    BY <1>1, <1>2 DEF Loaded

\* Both caches start empty.
LEMMA InitInv == Init => Inv
    BY DEF Init, Inv, TypeOK, CachesFollowCommits, Empty

\* Every step keeps the type and the caches in line with the last commit.
LEMMA NextInv == Inv /\ [Next]_vars => Inv'
<1> SUFFICES ASSUME Inv, [Next]_vars
             PROVE  Inv'
    OBVIOUS
<1> USE DEF Inv
<1>1. CASE CheckResumeJobMatch
    <2>1. TypeOK'
        BY <1>1 DEF CheckResumeJobMatch, TypeOK, Loaded
    <2>2. CachesFollowCommits'
        BY <1>1, LoadedIsFresh DEF CheckResumeJobMatch, CachesFollowCommits, Fresh
    <2> QED
        BY <2>1, <2>2
<1>2. CASE AskKeywordEngine
    <2>1. TypeOK'
        BY <1>2 DEF AskKeywordEngine, TypeOK, Loaded
    <2>2. CachesFollowCommits'
        BY <1>2, LoadedIsFresh DEF AskKeywordEngine, CachesFollowCommits, Fresh, Engines
    <2> QED
        BY <2>1, <2>2
<1>3. CASE Grow
    <2>1. PICK leaf \in DOMAIN resume : \E w \in ToSet(resume[leaf].words) :
                \E k \in {t \in JdKeywords(job) : Len(t) = 1} : GrowByCommit(leaf, w, k[1])
        BY <1>3 DEF Grow
    <2>2. /\ cached' = [e \in DOMAIN cached |-> Unloaded]
          /\ byHand' = FALSE
          /\ UNCHANGED <<resume, job>>
        BY <2>1 DEF GrowByCommit, Cleared
    <2> QED
        BY <2>2 DEF TypeOK, CachesFollowCommits
<1>4. CASE Learn
    <2>1. byHand' = TRUE /\ UNCHANGED <<resume, job, cached>>
        BY <1>4 DEF Learn, LearnByHand
    <2> QED
        BY <2>1 DEF TypeOK, CachesFollowCommits
<1>5. CASE Restart
    BY <1>5 DEF Restart, Empty, TypeOK, CachesFollowCommits
<1>6. CASE UNCHANGED vars
    BY <1>6 DEF vars, TypeOK, CachesFollowCommits
<1> QED
    BY <1>1, <1>2, <1>3, <1>4, <1>5, <1>6 DEF Next

\* The invariant of the caches.
LEMMA SpecInv == Spec => []Inv
    BY InitInv, NextInv, PTL DEF Spec

\* No engine ever answers from an index a commit has replaced, whatever the
\* resume, the job and the file (_clear_alias_index_caches of edit_session.py).
THEOREM SpecCachesFollowCommits == Spec => []CachesFollowCommits
<1>1. Inv => CachesFollowCommits
    BY DEF Inv
<1> QED
    BY <1>1, SpecInv, PTL

-----------------------------------------------------------------------------
(* Growth by a commit.                                                      *)

\* One pass of the growth loop leaves a file that loads, or the file it got.
LEMMA GrowOneLoads ==
    ASSUME NEW mapping, NEW cand
    PROVE  GrowOne(mapping, cand) # mapping => Unambiguous(Effective(GrowOne(mapping, cand)))
    BY DEF GrowOne

\* A commit that grew the file left one that every engine can load, also when
\* the file it grew could not be loaded (_append_project_aliases rebuilds the
\* index before it keeps a candidate).
THEOREM SpecGrownFileLoads == Spec => [][Grow => Unambiguous(Effective(file'))]_vars
<1>1. Grow => Unambiguous(Effective(file'))
    BY GrowOneLoads DEF Grow, GrowByCommit
<1> QED
    BY <1>1, PTL DEF Spec
-----------------------------------------------------------------------------
(* The terms of a job and of a resume.                                      *)

\* A text joined from texts is a text, of their words.
LEMMA Joined ==
    ASSUME NEW X, NEW s \in Seq(Seq(X))
    PROVE  /\ FlattenSeq(s) \in Seq(X)
           /\ \A i \in DOMAIN s : \A j \in DOMAIN s[i] : s[i][j] \in ToSet(FlattenSeq(s))
<1>1. FlattenSeq(s) \in Seq(X)
    BY FlattenSeqMembers
<1>2. ASSUME NEW i \in DOMAIN s, NEW j \in DOMAIN s[i]
      PROVE  s[i][j] \in ToSet(FlattenSeq(s))
    <2>1. Inside(s[i], FlattenSeq(s))
        BY FlattenSeqBlocks
    <2>2. PICK p \in Nat : /\ p + Len(s[i]) <= Len(FlattenSeq(s))
                           /\ \A k \in 1 .. Len(s[i]) : FlattenSeq(s)[p + k] = s[i][k]
        BY <2>1 DEF Inside
    <2>3. s[i] \in Seq(X) /\ j \in 1 .. Len(s[i]) /\ Len(s[i]) \in Nat
        OBVIOUS
    <2>4. p + j \in DOMAIN FlattenSeq(s)
        BY <1>1, <2>2, <2>3
    <2> QED
        BY <2>2, <2>3, <2>4 DEF ToSet
<1> QED
    BY <1>1, <1>2

\* The texts of a resume are sequences of words.
LEMMA ResumeTyped ==
    ASSUME NEW r \in Seq(Leaf)
    PROVE  /\ FullText(r) \in Seq(Word)
           /\ \A S : WordsIn(r, S) \in Seq(Word)
           /\ \A i \in DOMAIN r : r[i].words \in Seq(Word)
           /\ \A i \in DOMAIN r : \A w \in ToSet(r[i].words) : w \in ToSet(FullText(r))
<1>1. \A i \in DOMAIN r : r[i].words \in Seq(Word)
    <2>1. \A i \in DOMAIN r : r[i] \in Leaf
        OBVIOUS
    <2>2. \A leaf \in Leaf : leaf.words \in Seq(Word)
        BY DEF Leaf
    <2> QED
        BY <2>1, <2>2
<1>2. [i \in DOMAIN r |-> r[i].words] \in Seq(Seq(Word))
    BY <1>1
<1>3. ASSUME NEW S
      PROVE  WordsIn(r, S) \in Seq(Word)
    <2> DEFINE read == [i \in DOMAIN r |-> IF r[i].section \in S THEN r[i].words ELSE <<>>]
    <2>1. read \in Seq(Seq(Word))
        <3>1. /\ Len(r) \in Nat /\ DOMAIN r = 1 .. Len(r)
              /\ <<>> \in Seq(Word)
            OBVIOUS
        <3>2. \A i \in DOMAIN r :
                  (IF r[i].section \in S THEN r[i].words ELSE <<>>) \in Seq(Word)
            BY <1>1, <3>1
        <3> QED
            BY <3>1, <3>2
    <2> HIDE DEF read
    <2>2. FlattenSeq(read) \in Seq(Word)
        BY <2>1, Joined
    <2> QED
        BY <2>2 DEF WordsIn, read
<1>4. FullText(r) \in Seq(Word)
    BY <1>2, Joined DEF FullText
<1>5. ASSUME NEW i \in DOMAIN r, NEW w \in ToSet(r[i].words)
      PROVE  w \in ToSet(FullText(r))
    <2> DEFINE s == [j \in DOMAIN r |-> r[j].words]
    <2>1. i \in DOMAIN s /\ s[i] = r[i].words
        OBVIOUS
    <2>2. PICK j \in DOMAIN s[i] : w = s[i][j]
        BY DEF ToSet
    <2> HIDE DEF s
    <2>3. w \in ToSet(FlattenSeq(s))
        BY <1>2, <2>1, <2>2, Joined DEF s
    <2> QED
        BY <2>3 DEF FullText, s
<1> QED
    BY <1>1, <1>3, <1>4, <1>5

\* The keywords of a job are terms.
LEMMA JobTyped ==
    ASSUME NEW j \in Jobs
    PROVE  JdKeywords(j) \subseteq Seq(Word)
<1>1. /\ j.requirements \in Seq(Requirement)
      /\ j.qualifications \in Seq(Requirement)
      /\ j.keywords \in Seq(Seq(Word))
    BY LoopAssumption
<1>2. ASSUME NEW entries \in Seq(Seq(Word))
      PROVE  Sanitize(entries) \subseteq Seq(Word)
    BY DEF Sanitize
<1>3. ASSUME NEW reqs \in Seq(Requirement)
      PROVE  RequirementEntries(reqs) \in Seq(Seq(Word))
    <2>1. \A i \in DOMAIN reqs : <<reqs[i].text>> \o reqs[i].keywords \in Seq(Seq(Word))
        <3> TAKE i \in DOMAIN reqs
        <3>1. reqs[i].text \in Seq(Word) /\ reqs[i].keywords \in Seq(Seq(Word))
            <4>1. reqs[i] \in Requirement
                OBVIOUS
            <4> QED
                BY <4>1 DEF Requirement
        <3>2. <<reqs[i].text>> \in Seq(Seq(Word))
            BY <3>1
        <3> QED
            BY <3>1, <3>2
    <2> DEFINE s == [i \in DOMAIN reqs |-> <<reqs[i].text>> \o reqs[i].keywords]
    <2>2. s \in Seq(Seq(Seq(Word)))
        <3>1. Len(reqs) \in Nat /\ DOMAIN reqs = 1 .. Len(reqs)
            OBVIOUS
        <3> QED
            BY <2>1, <3>1
    <2> HIDE DEF s
    <2>3. FlattenSeq(s) \in Seq(Seq(Word))
        BY <2>2, Joined
    <2> QED
        BY <2>3 DEF RequirementEntries, s
<1> QED
    BY <1>1, <1>2, <1>3 DEF JdKeywords

\* A normalised text is a sequence of words.
LEMMA NormalizeTyped ==
    ASSUME NEW words \in Seq(Word)
    PROVE  Normalize(words) \in Term /\ Len(Normalize(words)) = Len(words)
<1>1. \A i \in DOMAIN words : Stem[words[i]] \in {Stem[w] : w \in Word}
    OBVIOUS
<1>2. Normalize(words) \in Term
    BY <1>1 DEF Normalize, Term
<1>3. DOMAIN Normalize(words) = DOMAIN words
    BY DEF Normalize
<1> QED
    BY <1>2, <1>3 DEF Term

\* A window of a text of words is one, as long as its ends say.
LEMMA WindowTyped ==
    ASSUME NEW words \in Seq(Word), NEW width, NEW w \in Windows(words, width)
    PROVE  /\ w \in Seq(Word)
           /\ \A n \in Nat : Len(w) <= n => w \in Windows(words, n)
<1>1. PICK s \in (DOMAIN words) \X (DOMAIN words) :
          s[1] <= s[2] /\ w = SubSeq(words, s[1], s[2])
    BY DEF Windows
<1>2. /\ s[1] \in 1 .. Len(words) /\ s[2] \in 1 .. Len(words)
      /\ Len(words) \in Nat
    BY <1>1
<1>3. w \in Seq(Word) /\ Len(w) = s[2] - s[1] + 1
    BY <1>1, <1>2
<1>4. \A n \in Nat : Len(w) <= n => s[2] - s[1] < n
    BY <1>2, <1>3
<1> QED
    BY <1>1, <1>3, <1>4 DEF Windows

\* A window of a text lies inside it.
LEMMA WindowInside ==
    ASSUME NEW u \in Seq(Word), NEW v \in Seq(Word), Inside(u, v), NEW width,
           NEW w \in Windows(u, width)
    PROVE  w \in Windows(v, width)
<1>1. PICK p \in Nat : p + Len(u) <= Len(v) /\ \A k \in 1 .. Len(u) : v[p + k] = u[k]
    BY DEF Inside
<1>2. PICK s \in (DOMAIN u) \X (DOMAIN u) :
          s[1] <= s[2] /\ s[2] - s[1] < width /\ w = SubSeq(u, s[1], s[2])
    BY DEF Windows
<1> DEFINE a == s[1]
           b == s[2]
<1>3. a \in 1 .. Len(u) /\ b \in 1 .. Len(u)
    BY <1>2
<1>4. /\ a <= b /\ b - a < width /\ w = SubSeq(u, a, b)
      /\ Len(u) \in Nat /\ Len(v) \in Nat
    BY <1>2
<1> HIDE DEF a, b
<1> DEFINE x == SubSeq(u, a, b)
           y == SubSeq(v, p + a, p + b)
<1>5. /\ p + a \in 1 .. Len(v) /\ p + b \in 1 .. Len(v)
      /\ p + a <= p + b /\ (p + b) - (p + a) = b - a
    BY <1>1, <1>3, <1>4
<1>6. x = y
    <2>1. x \in Seq(Word) /\ Len(x) = b - a + 1
        BY <1>3, <1>4
    <2>2. y \in Seq(Word) /\ Len(y) = b - a + 1
        BY <1>5
    <2>3. \A i \in 1 .. (b - a + 1) : x[i] = u[a + i - 1] /\ y[i] = v[p + a + i - 1]
        BY <1>3, <1>4, <1>5
    <2>4. \A i \in 1 .. (b - a + 1) : /\ a + i - 1 \in 1 .. Len(u)
                                      /\ p + (a + i - 1) = p + a + i - 1
        BY <1>3, <1>4
    <2>5. \A i \in 1 .. (b - a + 1) : x[i] = y[i]
        BY <1>1, <2>3, <2>4
    <2>6. DOMAIN x = 1 .. (b - a + 1) /\ DOMAIN y = 1 .. (b - a + 1)
        <3> HIDE DEF x, y
        <3> QED
            BY <2>1, <2>2
    <2>7. x = [i \in DOMAIN x |-> x[i]] /\ y = [i \in DOMAIN y |-> y[i]]
        <3> HIDE DEF x, y
        <3> QED
            BY <2>1, <2>2
    <2> HIDE DEF x, y
    <2> QED
        BY <2>5, <2>6, <2>7
<1>7. /\ <<p + a, p + b>> \in (DOMAIN v) \X (DOMAIN v)
      /\ (p + b) - (p + a) < width
      /\ w = SubSeq(v, p + a, p + b)
    BY <1>4, <1>5, <1>6
<1>8. \E t \in (DOMAIN v) \X (DOMAIN v) :
          t[1] <= t[2] /\ t[2] - t[1] < width /\ w = SubSeq(v, t[1], t[2])
    <2> DEFINE t == <<p + a, p + b>>
    <2>1. t[1] = p + a /\ t[2] = p + b
        OBVIOUS
    <2> HIDE DEF t
    <2>2. t \in (DOMAIN v) \X (DOMAIN v)
        BY <1>7 DEF t
    <2> QED
        BY <1>5, <1>7, <2>1, <2>2
<1> QED
    BY <1>8 DEF Windows

\* The text of a leaf the keyword engine reads is a part of the text it joins.
LEMMA LeafInGapText ==
    ASSUME NEW r \in Seq(Leaf), NEW i \in DOMAIN r, r[i].section \in GapSections
    PROVE  /\ r[i].words \in Seq(Word) /\ GapText(r) \in Seq(Word)
           /\ Inside(r[i].words, GapText(r))
<1> DEFINE read == [j \in DOMAIN r |->
                       IF r[j].section \in GapSections THEN r[j].words ELSE <<>>]
<1>1. /\ \A j \in DOMAIN r : r[j].words \in Seq(Word)
      /\ GapText(r) \in Seq(Word)
    BY ResumeTyped DEF GapText
<1>2. read \in Seq(Seq(Word))
    <2>1. Len(r) \in Nat /\ DOMAIN r = 1 .. Len(r) /\ <<>> \in Seq(Word)
        OBVIOUS
    <2>2. \A j \in DOMAIN r :
              (IF r[j].section \in GapSections THEN r[j].words ELSE <<>>) \in Seq(Word)
        BY <1>1, <2>1
    <2> QED
        BY <2>1, <2>2
<1>3. i \in DOMAIN read /\ read[i] = r[i].words
    OBVIOUS
<1>4. GapText(r) = FlattenSeq(read)
    BY DEF GapText, WordsIn
<1> HIDE DEF read
<1>5. Inside(read[i], FlattenSeq(read))
    BY <1>2, <1>3, FlattenSeqBlocks
<1> QED
    BY <1>1, <1>3, <1>4, <1>5

\* A candidate for the alias file is a pair of terms.
LEMMA CandidateTyped ==
    ASSUME NEW j \in Jobs, NEW r \in Seq(Leaf), NEW index,
           NEW c \in TerminologyCandidates(j, r, index)
    PROVE  c.keyword \in Seq(Word) /\ c.phrase \in Seq(Word)
<1>1. PICK k \in JdKeywords(j), i \in DOMAIN r : \E w \in Windows(r[i].words, Len(k)) :
          c = [keyword |-> k, phrase |-> w, location |-> i]
    BY DEF TerminologyCandidates
<1>2. k \in Seq(Word) /\ r[i].words \in Seq(Word)
    BY JobTyped, ResumeTyped
<1>3. PICK w \in Windows(r[i].words, Len(k)) : c = [keyword |-> k, phrase |-> w, location |-> i]
    BY <1>1
<1>4. w \in Seq(Word)
    BY <1>2, WindowTyped
<1> QED
    BY <1>2, <1>3, <1>4

-----------------------------------------------------------------------------
(* The lexicon.                                                             *)

\* A larger mapping has every group of a smaller one, with all its terms.
Below(I, J) ==
    /\ DOMAIN I \subseteq DOMAIN J
    /\ \A c \in DOMAIN I : I[c] \subseteq J[c]

\* A finite set of numbers has a largest.
LEMMA LargestOfFinite ==
    ASSUME NEW S \in SUBSET Nat, IsFiniteSet(S), S # {}
    PROVE  Max(S) \in S /\ \A x \in S : x <= Max(S)
<1>1. PICK n \in Nat : ExistsSurjection(1 .. n, S)
    BY FS_NatSurjection
<1>2. PICK f \in Surjection(1 .. n, S) : TRUE
    BY <1>1 DEF ExistsSurjection
<1>3. f \in [1 .. n -> S] /\ \A x \in S : \E i \in 1 .. n : f[i] = x
    BY <1>2 DEF Surjection
<1> DEFINE good == {i \in 0 .. n : i = 0 \/ \E m \in 1 .. i : \A j \in 1 .. i : f[j] <= f[m]}
<1>4. 0 \in good
    OBVIOUS
<1>5. \A i \in 1 .. n : i - 1 \in good => i \in good
    <2> SUFFICES ASSUME NEW i \in 1 .. n, i - 1 \in good
                 PROVE  i \in good
        OBVIOUS
    <2>1. \A j \in 1 .. n : f[j] \in Nat
        BY <1>3
    <2>2. CASE i = 1
        <3>1. 1 \in 1 .. i /\ (\A j \in 1 .. i : j = 1) /\ f[1] <= f[1]
            BY <2>1, <2>2
        <3>2. \A j \in 1 .. i : f[j] <= f[1]
            BY <3>1
        <3>3. \E m \in 1 .. i : \A j \in 1 .. i : f[j] <= f[m]
            BY <3>1, <3>2
        <3>4. i \in 0 .. n
            OBVIOUS
        <3> QED
            BY <3>3, <3>4
    <2>3. CASE i # 1
        <3>1. PICK m \in 1 .. (i - 1) : \A j \in 1 .. (i - 1) : f[j] <= f[m]
            BY <2>3
        <3>2. i \in 1 .. i /\ m \in 1 .. i /\ m \in 1 .. n
            OBVIOUS
        <3>3. \A j \in 1 .. i : j = i \/ j \in 1 .. (i - 1)
            OBVIOUS
        <3>4. CASE f[i] <= f[m]
            <4>1. \A j \in 1 .. i : f[j] <= f[m]
                BY <3>1, <3>3, <3>4
            <4>2. \E l \in 1 .. i : \A j \in 1 .. i : f[j] <= f[l]
                BY <3>2, <4>1
            <4>3. i \in 0 .. n
                OBVIOUS
            <4> QED
                BY <4>2, <4>3
        <3>5. CASE ~(f[i] <= f[m])
            <4>1. \A j \in 1 .. i : f[j] <= f[i]
                BY <2>1, <3>1, <3>2, <3>3, <3>5
            <4> QED
                BY <3>2, <4>1
        <3> QED
            BY <3>4, <3>5
    <2> QED
        BY <2>2, <2>3
<1>6. n \in good
    <2> HIDE DEF good
    <2> QED
        BY <1>4, <1>5, StepsUp
<1>7. n # 0
    <2>1. PICK x \in S : TRUE
        OBVIOUS
    <2>2. PICK i \in 1 .. n : f[i] = x
        BY <1>3, <2>1
    <2> QED
        BY <2>2
<1>8. PICK m \in 1 .. n : \A j \in 1 .. n : f[j] <= f[m]
    BY <1>6, <1>7
<1>9. f[m] \in S /\ \A x \in S : f[m] >= x
    BY <1>3, <1>8
<1>10. \E x \in S : \A y \in S : x >= y
    BY <1>9
<1>11. Max(S) \in S /\ \A y \in S : Max(S) >= y
    BY <1>10 DEF Max
<1> QED
    BY <1>11

\* No term of a lexicon is longer than the width the engines scan with.
LEMMA LongestMember ==
    ASSUME NEW J, IsLexicon(J)
    PROVE  /\ MaxMemberTokens(J) \in Nat
           /\ 1 <= MaxMemberTokens(J)
           /\ \A c \in DOMAIN J : \A t \in Members(J, c) : Len(t) <= MaxMemberTokens(J)
<1> DEFINE groups == {Members(J, c) : c \in DOMAIN J}
           all    == UNION groups
           lens   == {Len(t) : t \in all}
<1>1. \A c \in DOMAIN J : IsFiniteSet(Members(J, c)) /\ Members(J, c) \subseteq Term
    BY FS_Singleton, FS_Union DEF IsLexicon, Members
<1>2. IsFiniteSet(groups)
    <2> DEFINE f == [c \in DOMAIN J |-> Members(J, c)]
    <2>1. f \in Surjection(DOMAIN J, groups)
        BY DEF Surjection
    <2> HIDE DEF f, groups
    <2> QED
        BY <2>1, FS_Surjection DEF IsLexicon
<1>3. IsFiniteSet(all) /\ all \subseteq Term
    <2>1. \A g \in groups : IsFiniteSet(g) /\ g \subseteq Term
        BY <1>1
    <2> HIDE DEF groups
    <2>2. IsFiniteSet(UNION groups)
        BY <1>2, <2>1, FS_UNION
    <2> QED
        BY <2>1, <2>2
<1> HIDE DEF all
<1>4. IsFiniteSet(lens) /\ lens \subseteq Nat
    <2> DEFINE f == [t \in all |-> Len(t)]
    <2>1. f \in Surjection(all, lens)
        BY DEF Surjection
    <2>2. lens \subseteq Nat
        BY <1>3 DEF Term
    <2> HIDE DEF f, lens
    <2> QED
        BY <1>3, <2>1, <2>2, FS_Surjection
<1> HIDE DEF lens
<1>5. IsFiniteSet({1} \cup lens) /\ {1} \cup lens \in SUBSET Nat /\ {1} \cup lens # {}
    <2>1. IsFiniteSet({1})
        BY FS_Singleton
    <2>2. IsFiniteSet({1} \cup lens)
        BY <1>4, <2>1, FS_Union
    <2> QED
        BY <1>4, <2>2
<1>6. /\ Max({1} \cup lens) \in {1} \cup lens
      /\ \A x \in {1} \cup lens : x <= Max({1} \cup lens)
    BY <1>5, LargestOfFinite
<1>7. MaxMemberTokens(J) = Max({1} \cup lens)
    BY DEF MaxMemberTokens, lens, all
<1>8. \A c \in DOMAIN J : \A t \in Members(J, c) : Len(t) \in lens
    BY DEF lens, all
<1>9. 1 \in {1} \cup lens /\ Max({1} \cup lens) \in Nat
    <2>1. \A x \in {1} \cup lens : x \in Nat
        BY <1>4
    <2> QED
        BY <1>6, <2>1
<1>10. 1 <= Max({1} \cup lens) /\ \A l \in lens : l <= Max({1} \cup lens)
    BY <1>6, <1>9
<1> QED
    BY <1>7, <1>8, <1>9, <1>10

\* A larger file keeps the members of every group.
LEMMA BelowMembers ==
    ASSUME NEW I, NEW J, Below(I, J), NEW c \in DOMAIN I
    PROVE  c \in DOMAIN J /\ Members(I, c) \subseteq Members(J, c)
BY DEF Below, Members

\* Growth is transitive.
LEMMA BelowIsTransitive ==
    ASSUME NEW I, NEW J, NEW K, Below(I, J), Below(J, K)
    PROVE  Below(I, K)
BY DEF Below

\* What is below a file that loads, loads.
LEMMA BelowLoads ==
    ASSUME NEW I, NEW J, Below(I, J), Unambiguous(J)
    PROVE  Unambiguous(I)
BY BelowMembers DEF Unambiguous, Below

\* The canonical of a term of a loaded index is the one of its group.
LEMMA CanonicalOfMember ==
    ASSUME NEW J, Unambiguous(J), NEW c \in DOMAIN J, NEW t \in Members(J, c)
    PROVE  CanonicalFor(J, t) = c
<1>1. \A d \in DOMAIN J : t \in Members(J, d) => d = c
    BY DEF Unambiguous
<1> QED
    BY <1>1 DEF CanonicalFor

\* The canonical form of a term names a group it belongs to.
LEMMA CanonicalIsGroup ==
    ASSUME NEW I, NEW t, CanonicalFor(I, t) # NoCanonical
    PROVE  CanonicalFor(I, t) \in DOMAIN I /\ t \in Members(I, CanonicalFor(I, t))
BY DEF CanonicalFor

\* Two terms one group makes equal stay equal in every larger index that loads.
LEMMA GroupStays ==
    ASSUME NEW I, NEW J, Below(I, J), Unambiguous(J), NEW a, NEW b,
           CanonicalFor(I, a) # NoCanonical, CanonicalFor(I, a) = CanonicalFor(I, b)
    PROVE  /\ CanonicalFor(J, a) # NoCanonical
           /\ CanonicalFor(J, a) = CanonicalFor(J, b)
           /\ \E c \in DOMAIN J : b \in Members(J, c)
<1> DEFINE c == CanonicalFor(I, a)
<1>1. c \in DOMAIN I /\ a \in Members(I, c) /\ b \in Members(I, c)
    BY CanonicalIsGroup
<1>2. c # NoCanonical
    OBVIOUS
<1> HIDE DEF c
<1>3. c \in DOMAIN J /\ a \in Members(J, c) /\ b \in Members(J, c)
    BY <1>1, BelowMembers
<1>4. CanonicalFor(J, a) = c /\ CanonicalFor(J, b) = c
    BY <1>3, CanonicalOfMember
<1> QED
    BY <1>2, <1>3, <1>4

\* What two terms match by, with the stem rule and without it.
WithStem(a, b, index)    == Match(a, b, index, TRUE)
WithoutStem(a, b, index) == Match(a, b, index, FALSE)

\* What two terms match by, with the stem rule and without it, they match by
\* in every larger index that loads.
LEMMA MatchStays ==
    ASSUME NEW I, NEW J, Below(I, J), Unambiguous(J), NEW a, NEW b
    PROVE  /\ WithStem(a, b, I) # "none" => WithStem(a, b, J) = WithStem(a, b, I)
           /\ WithoutStem(a, b, I) # "none" => WithoutStem(a, b, J) = WithoutStem(a, b, I)
           /\ WithStem(a, b, I) = "alias" =>
                  \E c \in DOMAIN J : Normalize(b) \in Members(J, c)
<1> DEFINE p == Normalize(a)
           q == Normalize(b)
           linked(index) == CanonicalFor(index, p) # NoCanonical
                            /\ CanonicalFor(index, p) = CanonicalFor(index, q)
<1>1. \A index :
          /\ WithStem(a, b, index) =
                 IF a = <<>> \/ b = <<>> THEN "none"
                 ELSE IF Fold(a) = Fold(b) THEN "exact"
                 ELSE IF p = q THEN "stem"
                 ELSE IF linked(index) THEN "alias" ELSE "none"
          /\ WithoutStem(a, b, index) =
                 IF a = <<>> \/ b = <<>> THEN "none"
                 ELSE IF Fold(a) = Fold(b) THEN "exact"
                 ELSE IF linked(index) THEN "alias" ELSE "none"
    BY DEF Match, WithStem, WithoutStem
<1>2. linked(I) => linked(J) /\ \E c \in DOMAIN J : q \in Members(J, c)
    <2> HIDE DEF p, q
    <2> QED
        BY GroupStays
<1> HIDE DEF linked, p
<1> QED
    BY <1>1, <1>2

-----------------------------------------------------------------------------
(* What the two engines find under a larger index.                          *)

\* The two engines under an index that has every alias of an earlier one.
LEMMA AliasWindowsStay ==
    ASSUME NEW I, NEW J, Below(I, J), IsLexicon(J), Unambiguous(J),
           NEW keyword, NEW words \in Seq(Word)
    PROVE  AliasWindows(keyword, words, I) \subseteq AliasWindows(keyword, words, J)
<1> SUFFICES ASSUME NEW w \in AliasWindows(keyword, words, I)
             PROVE  w \in AliasWindows(keyword, words, J)
    OBVIOUS
<1>1. w \in Windows(words, MaxMemberTokens(I)) /\ WithStem(keyword, w, I) = "alias"
    BY DEF AliasWindows, WithStem
<1>2. /\ WithStem(keyword, w, J) = "alias"
      /\ \E c \in DOMAIN J : Normalize(w) \in Members(J, c)
    <2>1. WithStem(keyword, w, I) # "none"
        BY <1>1
    <2>2. /\ WithStem(keyword, w, J) = WithStem(keyword, w, I)
          /\ WithStem(keyword, w, I) = "alias" =>
                 \E c \in DOMAIN J : Normalize(w) \in Members(J, c)
        BY <2>1, MatchStays
    <2> QED
        BY <1>1, <2>2
<1>3. w \in Seq(Word) /\ Len(w) \in Nat
    BY <1>1, WindowTyped
<1>4. Len(w) <= MaxMemberTokens(J)
    BY <1>2, <1>3, NormalizeTyped, LongestMember
<1>5. MaxMemberTokens(J) \in Nat
    BY LongestMember
<1>6. w \in Windows(words, MaxMemberTokens(J))
    BY <1>1, <1>4, <1>5, WindowTyped
<1> QED
    BY <1>2, <1>6 DEF AliasWindows, WithStem

\* A keyword the matcher finds it finds under every larger index.
LEMMA MatchKeywordStays ==
    ASSUME NEW I, NEW J, Below(I, J), IsLexicon(J), Unambiguous(J),
           NEW keyword, NEW words \in Seq(Word), MatchKeyword(keyword, words, I) # "none"
    PROVE  MatchKeyword(keyword, words, J) # "none"
<1>1. Written(keyword, words) \/ AliasWindows(keyword, words, I) # {}
    BY DEF MatchKeyword
<1>2. Written(keyword, words) \/ AliasWindows(keyword, words, J) # {}
    BY <1>1, AliasWindowsStay
<1> QED
    BY <1>2 DEF MatchKeyword

\* So does the ATS check.
LEMMA AtsMatchStays ==
    ASSUME NEW I, NEW J, Below(I, J), Unambiguous(J), NEW keyword, NEW r,
           AtsMatch(keyword, r, I) # "none"
    PROVE  AtsMatch(keyword, r, J) # "none"
<1> DEFINE terms == SkillLeaves(r)
                       \cup {w \in Windows(FullText(r), Len(keyword)) : Len(w) = Len(keyword)}
           kinds(index) == {WithoutStem(keyword, t, index) : t \in terms} \ {"none"}
<1>1. \A index : AtsMatch(keyword, r, index) =
          IF "exact" \in kinds(index) THEN "exact"
          ELSE IF kinds(index) = {} THEN "none" ELSE "alias"
    BY DEF AtsMatch, WithoutStem
<1>2. kinds(I) \subseteq kinds(J)
    <2> HIDE DEF terms
    <2>1. \A t \in terms : WithoutStem(keyword, t, I) # "none" =>
                               WithoutStem(keyword, t, J) = WithoutStem(keyword, t, I)
        BY MatchStays
    <2> QED
        BY <2>1
<1> HIDE DEF kinds
<1> QED
    BY <1>1, <1>2

\* What a report says of a resume and a job.
GapMatched(r, j, index) == AnalyzeKeywordGaps(j, r, r, <<>>, index).matched
AtsMatched(r, j, index) == SkillsCoverage(r, j, index).matched

\* A report lists as matched what its engine finds.
LEMMA ReportMatches ==
    ASSUME NEW r, NEW j, NEW index, NEW atsIndex
    PROVE  /\ CheckJobMatch(r, j, index, atsIndex).gap.matched = GapMatched(r, j, index)
           /\ CheckJobMatch(r, j, index, atsIndex).ats.matched = AtsMatched(r, j, atsIndex)
BY DEF CheckJobMatch, ComputeAtsScore, GapMatched, AtsMatched

\* A larger index that loads finds all that a smaller one found.
LEMMA MatchedStays ==
    ASSUME NEW I, NEW J, Below(I, J), IsLexicon(J), Unambiguous(J),
           NEW r \in Seq(Leaf), NEW j
    PROVE  /\ GapMatched(r, j, I) \subseteq GapMatched(r, j, J)
           /\ AtsMatched(r, j, I) \subseteq AtsMatched(r, j, J)
<1>1. GapText(r) \in Seq(Word)
    BY ResumeTyped DEF GapText
<1>2. \A index : GapMatched(r, j, index) =
                     {k \in JdKeywords(j) : MatchKeyword(k, GapText(r), index) # "none"}
    BY DEF GapMatched, AnalyzeKeywordGaps
<1>3. \A index : AtsMatched(r, j, index) =
                     {AtsSkills(j)[i] : i \in {n \in DOMAIN AtsSkills(j) :
                                                  AtsMatch(AtsSkills(j)[n], r, index) # "none"}}
    BY DEF AtsMatched, SkillsCoverage
<1>4. \A k : MatchKeyword(k, GapText(r), I) # "none" => MatchKeyword(k, GapText(r), J) # "none"
    BY <1>1, MatchKeywordStays
<1>5. \A k : AtsMatch(k, r, I) # "none" => AtsMatch(k, r, J) # "none"
    BY AtsMatchStays
<1> QED
    BY <1>2, <1>3, <1>4, <1>5

-----------------------------------------------------------------------------
(* Every way the file grows.                                                *)

\* The lexicon grows with the file.
LEMMA LexiconGrows ==
    ASSUME NEW mapping, IsLexicon(mapping), NEW c \in Term, NEW D \in SUBSET Term, IsFiniteSet(D),
           NEW grown,
           DOMAIN grown = DOMAIN mapping \cup {c},
           \A d \in DOMAIN grown :
               grown[d] = (IF d \in DOMAIN mapping THEN mapping[d] ELSE {})
                             \cup (IF d = c THEN D ELSE {})
    PROVE  IsLexicon(grown) /\ Below(mapping, grown)
<1>1. IsFiniteSet(DOMAIN grown)
    <2>1. IsFiniteSet({c}) /\ IsFiniteSet(DOMAIN mapping)
        BY FS_Singleton DEF IsLexicon
    <2>2. IsFiniteSet(DOMAIN mapping \cup {c})
        BY <2>1, FS_Union
    <2> QED
        BY <2>2
<1>2. ASSUME NEW d \in DOMAIN grown
      PROVE  grown[d] \subseteq Term /\ IsFiniteSet(grown[d])
    <2> DEFINE old == IF d \in DOMAIN mapping THEN mapping[d] ELSE {}
               new == IF d = c THEN D ELSE {}
    <2>1. IsFiniteSet(old) /\ old \subseteq Term /\ IsFiniteSet(new) /\ new \subseteq Term
        BY FS_EmptySet DEF IsLexicon
    <2>2. grown[d] = old \cup new
        OBVIOUS
    <2> HIDE DEF old, new
    <2>3. IsFiniteSet(old \cup new)
        BY <2>1, FS_Union
    <2> QED
        BY <2>1, <2>2, <2>3
<1>3. DOMAIN grown \subseteq Term
    BY DEF IsLexicon
<1> QED
    BY <1>1, <1>2, <1>3 DEF IsLexicon, Below

\* What the engines load grows with the file.
LEMMA EffectiveGrows ==
    ASSUME NEW mapping, NEW grown, Below(mapping, grown)
    PROVE  Below(Effective(mapping), Effective(grown))
BY DEF Below, Effective, Merge

\* What the engines load is a lexicon.
LEMMA EffectiveIsLexicon ==
    ASSUME NEW mapping, IsLexicon(mapping)
    PROVE  IsLexicon(Effective(mapping))
<1>1. IsLexicon(Seed)
    BY LoopAssumption
<1>2. IsFiniteSet(DOMAIN Seed \cup DOMAIN mapping)
    BY <1>1, FS_Union DEF IsLexicon
<1>3. ASSUME NEW c \in DOMAIN Seed \cup DOMAIN mapping
      PROVE  Effective(mapping)[c] \subseteq Term /\ IsFiniteSet(Effective(mapping)[c])
    <2> DEFINE ofSeed == IF c \in DOMAIN Seed THEN Seed[c] ELSE {}
               ofFile == IF c \in DOMAIN mapping THEN mapping[c] ELSE {}
    <2>1. /\ IsFiniteSet(ofSeed) /\ ofSeed \subseteq Term
          /\ IsFiniteSet(ofFile) /\ ofFile \subseteq Term
        BY <1>1, FS_EmptySet DEF IsLexicon
    <2>2. Effective(mapping)[c] = ofSeed \cup ofFile
        BY DEF Effective, Merge
    <2> HIDE DEF ofSeed, ofFile
    <2> QED
        BY <2>1, <2>2, FS_Union
<1>4. DOMAIN Effective(mapping) = DOMAIN Seed \cup DOMAIN mapping
    BY DEF Effective, Merge
<1> QED
    BY <1>1, <1>2, <1>3, <1>4 DEF IsLexicon

\* A text with a keyword written over a word (GrowByCommit).
Swapped(words, word, keyword) ==
    [i \in DOMAIN words |-> IF words[i] = word THEN keyword ELSE words[i]]

\* The candidate of a swap is the pair of the two words, and they differ.
LEMMA SwapIsThePair ==
    ASSUME NEW before \in Seq(Word), NEW word, NEW keyword \in Word, NEW cand,
           cand \in SwapCandidates(before, Swapped(before, word, keyword))
    PROVE  /\ word \in Word
           /\ cand.alias = <<Stem[word]>> /\ cand.canonical = <<Stem[keyword]>>
           /\ Stem[word] # Stem[keyword] /\ Surface[word] # Surface[keyword]
<1> DEFINE after   == Swapped(before, word, keyword)
           changed == {i \in DOMAIN before : Surface[before[i]] # Surface[after[i]]}
           olds    == {Stem[before[i]] : i \in changed}
           news    == {Stem[after[i]] : i \in changed}
           swaps   == {[alias |-> <<o>>, canonical |-> <<n>>] : o \in olds, n \in news}
<1>1. olds # news /\ cand \in swaps
    <2>1. SwapCandidates(before, after) =
              IF /\ Len(before) = Len(after)
                 /\ Cardinality(olds) = 1
                 /\ Cardinality(news) = 1
                 /\ olds # news
              THEN swaps ELSE {}
        BY DEF SwapCandidates
    <2>2. cand \in SwapCandidates(before, after)
        OBVIOUS
    <2> HIDE DEF olds, news, swaps
    <2> QED
        BY <2>1, <2>2
<1>2. \A i \in changed : /\ before[i] = word /\ after[i] = keyword
                         /\ before[i] \in Word /\ Surface[word] # Surface[keyword]
    BY DEF Swapped
<1> HIDE DEF after
<1>3. PICK o \in olds, n \in news : cand = [alias |-> <<o>>, canonical |-> <<n>>]
    BY <1>1
<1>4. PICK i \in changed : o = Stem[before[i]]
    BY <1>3
<1>5. olds = {Stem[word]} /\ news = {Stem[keyword]}
    BY <1>2, <1>4
<1> HIDE DEF olds, news, changed
<1>6. cand = [alias |-> <<Stem[word]>>, canonical |-> <<Stem[keyword]>>]
    BY <1>3, <1>5
<1> QED
    BY <1>1, <1>2, <1>4, <1>5, <1>6

\* A pass that grows the file keeps all it had, leaves a file that loads, and
\* puts the two terms of its candidate into one group.
LEMMA GrowOneJoins ==
    ASSUME NEW mapping, IsLexicon(mapping), NEW cand,
           cand.alias \in Term, cand.canonical \in Term, cand.canonical # NoCanonical,
           GrowOne(mapping, cand) # mapping
    PROVE  LET grown == GrowOne(mapping, cand)
           IN  /\ IsLexicon(grown)
               /\ Below(mapping, grown)
               /\ Unambiguous(Effective(grown))
               /\ CanonicalFor(Effective(grown), cand.alias) # NoCanonical
               /\ CanonicalFor(Effective(grown), cand.alias)
                      = CanonicalFor(Effective(grown), cand.canonical)
<1> DEFINE ofCanon   == CanonicalFor(Effective(mapping), cand.canonical)
           canonical == IF ofCanon # NoCanonical THEN ofCanon ELSE cand.canonical
           group     == IF canonical \in DOMAIN mapping THEN mapping[canonical] ELSE {}
           grown     == [c \in DOMAIN mapping \cup {canonical} |->
                            IF c = canonical THEN group \cup {cand.alias} ELSE mapping[c]]
<1>1. GrowOne(mapping, cand) = grown /\ Unambiguous(Effective(grown))
    BY DEF GrowOne
<1>2. /\ canonical \in Term /\ canonical # NoCanonical
      /\ canonical = cand.canonical
            \/ /\ canonical \in DOMAIN Effective(mapping)
               /\ cand.canonical \in Members(Effective(mapping), canonical)
    BY EffectiveIsLexicon, CanonicalIsGroup DEF IsLexicon
<1> HIDE DEF canonical
<1>3. IsLexicon(grown) /\ Below(mapping, grown)
    <2> DEFINE D == {cand.alias}
    <2>1. IsFiniteSet(D) /\ D \in SUBSET Term
        BY FS_Singleton
    <2>2. \A d \in DOMAIN grown :
              grown[d] = (IF d \in DOMAIN mapping THEN mapping[d] ELSE {})
                            \cup (IF d = canonical THEN D ELSE {})
        OBVIOUS
    <2>3. DOMAIN grown = DOMAIN mapping \cup {canonical}
        OBVIOUS
    <2> HIDE DEF grown, D
    <2> QED
        BY <1>2, <2>1, <2>2, <2>3, LexiconGrows
<1>4. /\ canonical \in DOMAIN grown
      /\ cand.alias \in grown[canonical]
    OBVIOUS
<1> HIDE DEF grown
<1>5. Below(Effective(mapping), Effective(grown))
    BY <1>3, EffectiveGrows
<1>6. /\ canonical \in DOMAIN Effective(grown)
      /\ cand.alias \in Members(Effective(grown), canonical)
    BY <1>4 DEF Effective, Merge, Members
<1>7. cand.canonical \in Members(Effective(grown), canonical)
    <2>1. CASE canonical = cand.canonical
        BY <2>1 DEF Members
    <2>2. CASE canonical # cand.canonical
        BY <1>2, <1>5, <2>2, BelowMembers
    <2> QED
        BY <2>1, <2>2
<1>8. /\ CanonicalFor(Effective(grown), cand.alias) = canonical
      /\ CanonicalFor(Effective(grown), cand.canonical) = canonical
    BY <1>1, <1>6, <1>7, CanonicalOfMember
<1> QED
    BY <1>1, <1>2, <1>3, <1>8

\* What a commit that grew the file had in its hands, and what it left.
LEMMA CommitGrows ==
    ASSUME IsLexicon(file), resume \in Resumes, job \in Jobs,
           NEW leaf \in DOMAIN resume, NEW word,
           NEW k \in {t \in JdKeywords(job) : Len(t) = 1},
           GrowByCommit(leaf, word, k[1])
    PROVE  /\ IsLexicon(file')
           /\ Below(file, file')
           /\ Unambiguous(Effective(file'))
           /\ k = <<k[1]>> /\ k[1] \in Word /\ word \in Word
           /\ Stem[word] # Stem[k[1]] /\ Surface[word] # Surface[k[1]]
           /\ CanonicalFor(Effective(file'), <<Stem[k[1]]>>) # NoCanonical
           /\ CanonicalFor(Effective(file'), <<Stem[k[1]]>>)
                  = CanonicalFor(Effective(file'), <<Stem[word]>>)
<1> DEFINE before == resume[leaf].words
<1>1. resume \in Seq(Leaf)
    BY LoopAssumption
<1>2. before \in Seq(Word)
    BY <1>1, ResumeTyped
<1>3. k \in Seq(Word) /\ Len(k) = 1
    BY JobTyped
<1>4. k = <<k[1]>> /\ k[1] \in Word
    <2>1. k[1] \in Word /\ DOMAIN k = 1 .. 1
        BY <1>3
    <2>2. k = [i \in 1 .. 1 |-> k[i]]
        BY <1>3, <2>1
    <2>3. [i \in 1 .. 1 |-> k[i]] = <<k[1]>>
        OBVIOUS
    <2> QED
        BY <2>1, <2>2, <2>3
<1>5. PICK cand \in SwapCandidates(before, Swapped(before, word, k[1])) :
          file' = GrowOne(file, cand) /\ file' # file
    BY DEF GrowByCommit, Swapped
<1>6. /\ word \in Word
      /\ cand.alias = <<Stem[word]>> /\ cand.canonical = <<Stem[k[1]]>>
      /\ Stem[word] # Stem[k[1]] /\ Surface[word] # Surface[k[1]]
    <2>1. k[1] \in Word
        BY <1>4
    <2>2. cand \in SwapCandidates(before, Swapped(before, word, k[1]))
        OBVIOUS
    <2> HIDE DEF before
    <2> QED
        BY <1>2, <2>1, <2>2, SwapIsThePair
<1>7. /\ cand.alias \in Term /\ cand.canonical \in Term
      /\ cand.canonical # NoCanonical
    BY <1>4, <1>6 DEF Term, NoCanonical
<1>8. /\ IsLexicon(file') /\ Below(file, file')
      /\ Unambiguous(Effective(file'))
      /\ CanonicalFor(Effective(file'), cand.alias) # NoCanonical
      /\ CanonicalFor(Effective(file'), cand.alias)
             = CanonicalFor(Effective(file'), cand.canonical)
    BY <1>5, <1>7, GrowOneJoins
<1> QED
    BY <1>4, <1>6, <1>8

\* What learn-terminology appends only adds to the groups of the file.
LEMMA LearningGrows ==
    ASSUME IsLexicon(file), NEW keyword \in Term, NEW phrase \in Term,
           LearnByHand(keyword, phrase)
    PROVE  IsLexicon(file') /\ Below(file, file')
<1> DEFINE groups == {c \in DOMAIN file : {keyword, phrase} \cap Members(file, c) # {}}
<1>1. PICK c \in IF groups = {} THEN {keyword} ELSE groups :
          file' = [d \in DOMAIN file \cup {c} |->
                      (IF d \in DOMAIN file THEN file[d] ELSE {})
                         \cup (IF d = c THEN {keyword, phrase} \ {c} ELSE {})]
    BY DEF LearnByHand
<1>2. c \in Term
    <2>1. groups \subseteq Term
        BY DEF IsLexicon
    <2> HIDE DEF groups
    <2> QED
        BY <2>1
<1> DEFINE D == {keyword, phrase} \ {c}
<1>3. D \in SUBSET Term /\ IsFiniteSet(D)
    <2>1. IsFiniteSet({keyword}) /\ IsFiniteSet({phrase})
        BY FS_Singleton
    <2>2. IsFiniteSet({keyword} \cup {phrase})
        BY <2>1, FS_Union
    <2>3. D \subseteq {keyword} \cup {phrase}
        OBVIOUS
    <2>4. IsFiniteSet(D)
        BY <2>2, <2>3, FS_Subset
    <2> QED
        BY <2>4
<1>4. /\ DOMAIN file' = DOMAIN file \cup {c}
      /\ \A d \in DOMAIN file' :
             file'[d] = (IF d \in DOMAIN file THEN file[d] ELSE {})
                           \cup (IF d = c THEN D ELSE {})
    BY <1>1
<1> HIDE DEF D
<1> QED
    BY <1>2, <1>3, <1>4, LexiconGrows

-----------------------------------------------------------------------------
(* A grown pair in a text.                                                  *)

\* One group makes two words equal that neither the fold nor the stem does.
LEMMA PairIsAlias ==
    ASSUME NEW index, NEW keyword \in Word, NEW word \in Word,
           Stem[word] # Stem[keyword], Surface[word] # Surface[keyword],
           CanonicalFor(index, <<Stem[keyword]>>) # NoCanonical,
           CanonicalFor(index, <<Stem[keyword]>>) = CanonicalFor(index, <<Stem[word]>>)
    PROVE  /\ WithStem(<<keyword>>, <<word>>, index) = "alias"
           /\ WithoutStem(<<keyword>>, <<word>>, index) = "alias"
<1>1. \A w \in Word : Fold(<<w>>) = <<Surface[w]>> /\ Normalize(<<w>>) = <<Stem[w]>>
    BY DEF Fold, Normalize
<1>2. Fold(<<keyword>>) # Fold(<<word>>) /\ Normalize(<<keyword>>) # Normalize(<<word>>)
    BY <1>1
<1>3. <<keyword>> # <<>> /\ <<word>> # <<>>
    OBVIOUS
<1> QED
    BY <1>1, <1>2, <1>3 DEF Match, WithStem, WithoutStem

\* A word of a text is a window of it, whatever the width.
LEMMA WordIsWindow ==
    ASSUME NEW words \in Seq(Word), NEW w \in ToSet(words), NEW width \in Nat, 1 <= width
    PROVE  <<w>> \in Windows(words, width)
<1>1. PICK i \in DOMAIN words : w = words[i]
    BY DEF ToSet
<1>2. i \in 1 .. Len(words) /\ Len(words) \in Nat /\ DOMAIN words = 1 .. Len(words)
    BY <1>1
<1>3. SubSeq(words, i, i) = <<words[i]>>
    <2>1. Len(SubSeq(words, i, i)) = 1 /\ SubSeq(words, i, i)[1] = words[i]
        BY <1>2
    <2>2. SubSeq(words, i, i) \in Seq(Word)
        BY <1>2
    <2> DEFINE s == SubSeq(words, i, i)
    <2> HIDE DEF s
    <2>3. s = [j \in 1 .. 1 |-> s[j]]
        <3>1. s \in Seq(Word) /\ Len(s) = 1
            BY <2>1, <2>2 DEF s
        <3>2. DOMAIN s = 1 .. 1
            BY <3>1
        <3> QED
            BY <3>1, <3>2
    <2>4. [j \in 1 .. 1 |-> s[j]] = <<s[1]>>
        OBVIOUS
    <2> QED
        BY <2>1, <2>3, <2>4 DEF s
<1>4. /\ <<i, i>> \in (DOMAIN words) \X (DOMAIN words)
      /\ i <= i /\ i - i < width
    BY <1>2
<1> QED
    BY <1>1, <1>3, <1>4 DEF Windows

\* A pair of the file is found in a text with its alias.
LEMMA PairIsFound ==
    ASSUME NEW index, IsLexicon(index), NEW keyword \in Word, NEW word \in Word,
           Stem[word] # Stem[keyword], Surface[word] # Surface[keyword],
           CanonicalFor(index, <<Stem[keyword]>>) # NoCanonical,
           CanonicalFor(index, <<Stem[keyword]>>) = CanonicalFor(index, <<Stem[word]>>),
           NEW r \in Seq(Leaf), NEW leaf \in DOMAIN r, word \in ToSet(r[leaf].words)
    PROVE  /\ MatchKeyword(<<keyword>>, r[leaf].words, index) # "none"
           /\ AtsMatch(<<keyword>>, r, index) # "none"
<1>1. /\ WithStem(<<keyword>>, <<word>>, index) = "alias"
      /\ WithoutStem(<<keyword>>, <<word>>, index) = "alias"
    BY PairIsAlias
<1>2. MatchKeyword(<<keyword>>, r[leaf].words, index) # "none"
    <2>1. /\ MaxMemberTokens(index) \in Nat /\ 1 <= MaxMemberTokens(index)
          /\ r[leaf].words \in Seq(Word)
        BY LongestMember, ResumeTyped
    <2>2. <<word>> \in Windows(r[leaf].words, MaxMemberTokens(index))
        BY <2>1, WordIsWindow
    <2>3. <<word>> \in AliasWindows(<<keyword>>, r[leaf].words, index)
        BY <1>1, <2>2 DEF AliasWindows, WithStem
    <2> QED
        BY <2>3 DEF MatchKeyword
<1>3. AtsMatch(<<keyword>>, r, index) # "none"
    <2>1. FullText(r) \in Seq(Word) /\ word \in ToSet(FullText(r))
        BY ResumeTyped
    <2>2. /\ Len(<<keyword>>) = 1 /\ Len(<<word>>) = Len(<<keyword>>)
          /\ Len(<<keyword>>) \in Nat /\ 1 <= Len(<<keyword>>)
        OBVIOUS
    <2>3. <<word>> \in Windows(FullText(r), Len(<<keyword>>))
        BY <2>1, <2>2, WordIsWindow
    <2> DEFINE terms == SkillLeaves(r) \cup
                   {w \in Windows(FullText(r), Len(<<keyword>>)) : Len(w) = Len(<<keyword>>)}
               kinds == {WithoutStem(<<keyword>>, t, index) : t \in terms} \ {"none"}
    <2>4. <<word>> \in terms
        BY <2>2, <2>3
    <2> HIDE DEF terms
    <2>5. "alias" \in kinds
        BY <1>1, <2>4
    <2>6. AtsMatch(<<keyword>>, r, index) =
              IF "exact" \in kinds THEN "exact" ELSE IF kinds = {} THEN "none" ELSE "alias"
        BY DEF AtsMatch, WithoutStem, terms
    <2> HIDE DEF kinds
    <2> QED
        BY <2>5, <2>6
<1> QED
    BY <1>2, <1>3

-----------------------------------------------------------------------------
(* The invariant of the growing file.                                       *)

\* What an engine holds loads, and the file gives all its terms.
CachesAreBelow ==
    \A e \in Engines : cached[e] # Unloaded =>
        /\ IsLexicon(cached[e])
        /\ Unambiguous(cached[e])
        /\ Below(cached[e], Effective(file))

\* What the last report found, every index an engine holds or may load finds.
ReportIsFound ==
    report # NoReport =>
        /\ Unambiguous(Effective(file)) =>
              /\ report.gap.matched \subseteq GapMatched(resume, job, Effective(file))
              /\ report.ats.matched \subseteq AtsMatched(resume, job, Effective(file))
        /\ cached["matching"] # Unloaded =>
              report.gap.matched \subseteq GapMatched(resume, job, cached["matching"])
        /\ cached["ats"] # Unloaded =>
              report.ats.matched \subseteq AtsMatched(resume, job, cached["ats"])

GrowthInv ==
    /\ TypeOK
    /\ IsLexicon(file)
    /\ CachesAreBelow
    /\ ReportIsFound

\* An index that an engine answers from loads, and the file gives all its terms.
LEMMA IndexIsBelow ==
    ASSUME GrowthInv, NEW e \in Engines, Loadable(e)
    PROVE  /\ IsLexicon(Index(e)) /\ Unambiguous(Index(e))
           /\ Below(Index(e), Effective(file))
<1>1. Below(Effective(file), Effective(file))
    BY DEF Below
<1> QED
    BY <1>1, EffectiveIsLexicon DEF GrowthInv, CachesAreBelow, Loadable, Index

\* Loading keeps the caches below the file.
LEMMA LoadedIsBelow ==
    ASSUME GrowthInv, NEW S \in SUBSET Engines, \A e \in S : Loadable(e),
           cached' = Loaded(S), UNCHANGED <<resume, job, file>>
    PROVE  CachesAreBelow'
<1> SUFFICES ASSUME NEW e \in Engines, cached'[e] # Unloaded
             PROVE  /\ IsLexicon(cached'[e]) /\ Unambiguous(cached'[e])
                    /\ Below(cached'[e], Effective(file'))
    BY DEF CachesAreBelow
<1>1. cached'[e] = IF e \in S THEN Index(e) ELSE cached[e]
    BY DEF Loaded
<1>2. file' = file
    OBVIOUS
<1>3. CASE e \in S
    BY <1>1, <1>2, <1>3, IndexIsBelow
<1>4. CASE e \notin S
    BY <1>1, <1>2, <1>4 DEF GrowthInv, CachesAreBelow
<1> QED
    BY <1>3, <1>4

\* What the last report found, the index an engine answers from finds.
LEMMA IndexFinds ==
    ASSUME GrowthInv, report # NoReport
    PROVE  /\ Loadable("matching") =>
                  report.gap.matched \subseteq GapMatched(resume, job, Index("matching"))
           /\ Loadable("ats") =>
                  report.ats.matched \subseteq AtsMatched(resume, job, Index("ats"))
BY DEF GrowthInv, ReportIsFound, Loadable, Index

\* A file that only grew keeps the invariant, caches cleared or not.
LEMMA GrowthKeeps ==
    ASSUME GrowthInv, IsLexicon(file'), Below(file, file'),
           UNCHANGED <<resume, job, report>>, byHand' \in BOOLEAN,
           cached' \in {cached, Cleared(cached)}
    PROVE  GrowthInv'
<1>1. Below(Effective(file), Effective(file'))
    BY EffectiveGrows
<1>2. DOMAIN cached = Engines /\ DOMAIN cached' = Engines
    BY DEF GrowthInv, TypeOK, Cleared
<1>3. \A e \in Engines : cached'[e] \in {cached[e], Unloaded}
    BY <1>2 DEF Cleared
<1>4. TypeOK'
    BY <1>2 DEF GrowthInv, TypeOK
<1>5. CachesAreBelow'
    <2> SUFFICES ASSUME NEW e \in Engines, cached'[e] # Unloaded
                 PROVE  /\ IsLexicon(cached'[e]) /\ Unambiguous(cached'[e])
                        /\ Below(cached'[e], Effective(file'))
        BY DEF CachesAreBelow
    <2>1. cached'[e] = cached[e]
        BY <1>3
    <2>2. /\ IsLexicon(cached[e]) /\ Unambiguous(cached[e])
          /\ Below(cached[e], Effective(file))
        BY <2>1 DEF GrowthInv, CachesAreBelow
    <2>3. Below(cached[e], Effective(file'))
        BY <1>1, <2>2, BelowIsTransitive
    <2> QED
        BY <2>1, <2>2, <2>3
<1>6. ReportIsFound'
    <2> SUFFICES ASSUME report' # NoReport
                 PROVE  ReportIsFound'
        BY DEF ReportIsFound
    <2>1. report = report' /\ resume' = resume /\ job' = job
        OBVIOUS
    <2>2. ASSUME Unambiguous(Effective(file'))
          PROVE  /\ report.gap.matched \subseteq GapMatched(resume, job, Effective(file'))
                 /\ report.ats.matched \subseteq AtsMatched(resume, job, Effective(file'))
        <3>1. Unambiguous(Effective(file)) /\ IsLexicon(Effective(file'))
            BY <1>1, <2>2, BelowLoads, EffectiveIsLexicon
        <3>2. resume \in Seq(Leaf)
            BY LoopAssumption DEF GrowthInv, TypeOK
        <3>3. /\ GapMatched(resume, job, Effective(file))
                     \subseteq GapMatched(resume, job, Effective(file'))
              /\ AtsMatched(resume, job, Effective(file))
                     \subseteq AtsMatched(resume, job, Effective(file'))
            BY <1>1, <2>2, <3>1, <3>2, MatchedStays
        <3> QED
            BY <2>1, <3>1, <3>3 DEF GrowthInv, ReportIsFound
    <2>3. "matching" \in Engines /\ "ats" \in Engines
        BY DEF Engines
    <2> QED
        BY <1>3, <2>1, <2>2, <2>3 DEF GrowthInv, ReportIsFound
<1> QED
    BY <1>4, <1>5, <1>6 DEF GrowthInv

\* The invariant of the growing file holds at the start.
LEMMA InitGrowth == Init => GrowthInv
    BY LoopAssumption DEF Init, GrowthInv, TypeOK, CachesAreBelow, ReportIsFound, Empty, Engines

\* A check of the resume against the job keeps it.
LEMMA CheckKeepsGrowth ==
    ASSUME GrowthInv, CheckResumeJobMatch
    PROVE  GrowthInv'
<1>1. /\ \A e \in Engines : Loadable(e)
      /\ report' = CheckJobMatch(resume, job, Index("matching"), Index("ats"))
      /\ cached' = Loaded(Engines)
      /\ UNCHANGED <<resume, job, file, byHand>>
    BY DEF CheckResumeJobMatch
<1>2. TypeOK' /\ IsLexicon(file')
    BY <1>1 DEF GrowthInv, TypeOK, Loaded
<1>3. CachesAreBelow'
    BY <1>1, LoadedIsBelow
<1>4. ReportIsFound'
    <2>1. "matching" \in Engines /\ "ats" \in Engines
        BY DEF Engines
    <2>2. cached'["matching"] = Index("matching") /\ cached'["ats"] = Index("ats")
        BY <1>1, <2>1 DEF Loaded
    <2>3. /\ report'.gap.matched = GapMatched(resume, job, Index("matching"))
          /\ report'.ats.matched = AtsMatched(resume, job, Index("ats"))
        BY <1>1, ReportMatches
    <2>4. ASSUME Unambiguous(Effective(file))
          PROVE  /\ GapMatched(resume, job, Index("matching"))
                       \subseteq GapMatched(resume, job, Effective(file))
                 /\ AtsMatched(resume, job, Index("ats"))
                       \subseteq AtsMatched(resume, job, Effective(file))
        <3>1. resume \in Seq(Leaf)
            BY LoopAssumption DEF GrowthInv, TypeOK
        <3>2. \A e \in Engines : Below(Index(e), Effective(file))
            BY <1>1, IndexIsBelow
        <3>3. IsLexicon(Effective(file))
            BY EffectiveIsLexicon DEF GrowthInv
        <3>4. Below(Index("matching"), Effective(file)) /\ Below(Index("ats"), Effective(file))
            BY <2>1, <3>2
        <3>5. GapMatched(resume, job, Index("matching"))
                  \subseteq GapMatched(resume, job, Effective(file))
            BY <2>4, <3>1, <3>3, <3>4, MatchedStays
        <3>6. AtsMatched(resume, job, Index("ats"))
                  \subseteq AtsMatched(resume, job, Effective(file))
            BY <2>4, <3>1, <3>3, <3>4, MatchedStays
        <3> QED
            BY <3>5, <3>6
    <2>5. resume' = resume /\ job' = job /\ file' = file
        BY <1>1
    <2> QED
        BY <2>2, <2>3, <2>4, <2>5 DEF ReportIsFound
<1> QED
    BY <1>2, <1>3, <1>4 DEF GrowthInv

\* So does a question to one engine.
LEMMA AskKeepsGrowth ==
    ASSUME GrowthInv, AskKeywordEngine
    PROVE  GrowthInv'
<1> DEFINE S == {"matching"}
<1>1. /\ Loadable("matching")
      /\ cached' = Loaded(S)
      /\ UNCHANGED <<resume, job, file, report, byHand>>
    BY DEF AskKeywordEngine
<1>2. TypeOK' /\ IsLexicon(file')
    BY <1>1 DEF GrowthInv, TypeOK, Loaded
<1>3. CachesAreBelow'
    <2>1. S \in SUBSET Engines /\ \A e \in S : Loadable(e)
        BY <1>1 DEF Engines
    <2> HIDE DEF S
    <2> QED
        BY <1>1, <2>1, LoadedIsBelow
<1>4. cached'["matching"] = Index("matching") /\ cached'["ats"] = cached["ats"]
    BY <1>1 DEF Loaded, Engines
<1>5. ReportIsFound'
    <2> SUFFICES ASSUME report' # NoReport
                 PROVE  ReportIsFound'
        BY DEF ReportIsFound
    <2>1. report' = report /\ resume' = resume /\ job' = job /\ file' = file
        BY <1>1
    <2>2. report.gap.matched \subseteq GapMatched(resume, job, Index("matching"))
        BY <1>1, <2>1, IndexFinds
    <2> QED
        BY <1>4, <2>1, <2>2 DEF GrowthInv, ReportIsFound
<1> QED
    BY <1>2, <1>3, <1>5 DEF GrowthInv

\* So does every step.
LEMMA NextGrowth == GrowthInv /\ [Next]_vars => GrowthInv'
<1> SUFFICES ASSUME GrowthInv, [Next]_vars
             PROVE  GrowthInv'
    OBVIOUS
<1>1. CASE CheckResumeJobMatch
    BY <1>1, CheckKeepsGrowth
<1>2. CASE AskKeywordEngine
    BY <1>2, AskKeepsGrowth
<1>3. CASE Grow
    <2>1. PICK leaf \in DOMAIN resume : \E w \in ToSet(resume[leaf].words) :
                \E k \in {t \in JdKeywords(job) : Len(t) = 1} : GrowByCommit(leaf, w, k[1])
        BY <1>3 DEF Grow
    <2>2. PICK w \in ToSet(resume[leaf].words), k \in {t \in JdKeywords(job) : Len(t) = 1} :
              GrowByCommit(leaf, w, k[1])
        BY Zenon, <2>1
    <2>3. IsLexicon(file) /\ resume \in Resumes /\ job \in Jobs
        BY DEF GrowthInv, TypeOK
    <2>4. IsLexicon(file') /\ Below(file, file')
        BY <2>2, <2>3, CommitGrows
    <2>5. /\ cached' = Cleared(cached) /\ byHand' = FALSE
          /\ UNCHANGED <<resume, job, report>>
        BY <2>2 DEF GrowByCommit
    <2> QED
        BY <2>4, <2>5, GrowthKeeps
<1>4. CASE Learn
    <2>1. PICK c \in TerminologyCandidates(job, resume, Index("matching")) :
              LearnByHand(Normalize(c.keyword), Normalize(c.phrase))
        BY <1>4 DEF Learn
    <2>2. IsLexicon(file) /\ resume \in Seq(Leaf) /\ job \in Jobs
        BY LoopAssumption DEF GrowthInv, TypeOK
    <2>3. c.keyword \in Seq(Word) /\ c.phrase \in Seq(Word)
        BY <2>2, CandidateTyped
    <2>4. Normalize(c.keyword) \in Term /\ Normalize(c.phrase) \in Term
        BY <2>3, NormalizeTyped
    <2>5. IsLexicon(file') /\ Below(file, file')
        BY <2>1, <2>2, <2>4, LearningGrows
    <2>6. byHand' = TRUE /\ UNCHANGED <<resume, job, cached, report>>
        BY <2>1 DEF LearnByHand
    <2> QED
        BY <2>5, <2>6, GrowthKeeps
<1>5. CASE Restart
    BY <1>5 DEF Restart, Empty, GrowthInv, TypeOK, CachesAreBelow, ReportIsFound, Engines
<1>6. CASE UNCHANGED vars
    <2>1. /\ resume' = resume /\ job' = job /\ file' = file /\ cached' = cached
          /\ report' = report /\ byHand' = byHand
        BY <1>6 DEF vars
    <2> QED
        BY <2>1 DEF GrowthInv, TypeOK, CachesAreBelow, ReportIsFound
<1> QED
    BY <1>1, <1>2, <1>3, <1>4, <1>5, <1>6 DEF Next

\* The invariant of the growing file.
LEMMA SpecGrowth == Spec => []GrowthInv
    BY InitGrowth, NextGrowth, PTL DEF Spec

\* A keyword or a skill that a report credits is credited by every later report
\* on the same resume and job, however the file grew and however old the index
\* of either engine is (_merge_mappings unions, growth never moves a term).
THEOREM SpecCoverageNeverFalls == Spec => CoverageNeverFalls
<1>1. ASSUME GrowthInv, [Next]_vars, report # NoReport
      PROVE  /\ report.gap.matched \subseteq report'.gap.matched
             /\ report.ats.matched \subseteq report'.ats.matched
    <2>1. CASE CheckResumeJobMatch
        <3>1. /\ Loadable("matching") /\ Loadable("ats")
              /\ report' = CheckJobMatch(resume, job, Index("matching"), Index("ats"))
            BY <2>1 DEF CheckResumeJobMatch, Engines
        <3>2. /\ report'.gap.matched = GapMatched(resume, job, Index("matching"))
              /\ report'.ats.matched = AtsMatched(resume, job, Index("ats"))
            BY <3>1, ReportMatches
        <3> QED
            BY <1>1, <3>1, <3>2, IndexFinds
    <2>2. CASE AskKeywordEngine \/ Grow \/ Learn \/ Restart \/ UNCHANGED vars
        <3>1. report' = report
            BY <2>2 DEF AskKeywordEngine, Grow, GrowByCommit, Learn, LearnByHand, Restart, vars
        <3> QED
            BY <3>1
    <2> QED
        BY <1>1, <2>1, <2>2 DEF Next
<1> QED
    BY <1>1, SpecGrowth, PTL DEF Spec, CoverageNeverFalls

\* The pair a commit grew is found where its word was written: the file still
\* loads, and both engines match the keyword in the text of the leaf
\* (_append_project_aliases, _match_keyword_in_text, _keyword_match_in_candidates).
THEOREM SpecGrownPairClosesItsGap == Spec => GrownPairClosesItsGap
<1>1. ASSUME GrowthInv, NEW leaf \in DOMAIN resume, NEW w \in ToSet(resume[leaf].words),
             NEW k \in {t \in JdKeywords(job) : Len(t) = 1}, GrowByCommit(leaf, w, k[1])
      PROVE  /\ Unambiguous(Effective(file'))
             /\ MatchKeyword(k, resume[leaf].words, Effective(file')) # "none"
             /\ AtsMatch(k, resume, Effective(file')) # "none"
    <2>1. IsLexicon(file) /\ resume \in Resumes /\ job \in Jobs /\ resume \in Seq(Leaf)
        BY <1>1, LoopAssumption DEF GrowthInv, TypeOK
    <2>2. /\ IsLexicon(file')
          /\ Unambiguous(Effective(file'))
          /\ k = <<k[1]>> /\ k[1] \in Word /\ w \in Word
          /\ Stem[w] # Stem[k[1]] /\ Surface[w] # Surface[k[1]]
          /\ CanonicalFor(Effective(file'), <<Stem[k[1]]>>) # NoCanonical
          /\ CanonicalFor(Effective(file'), <<Stem[k[1]]>>)
                 = CanonicalFor(Effective(file'), <<Stem[w]>>)
        BY <1>1, <2>1, CommitGrows
    <2>3. IsLexicon(Effective(file'))
        BY <2>2, EffectiveIsLexicon
    <2>4. /\ MatchKeyword(<<k[1]>>, resume[leaf].words, Effective(file')) # "none"
          /\ AtsMatch(<<k[1]>>, resume, Effective(file')) # "none"
        BY <2>1, <2>2, <2>3, PairIsFound
    <2> QED
        BY <2>2, <2>4
<1>2. GrowthInv /\ [Next]_vars =>
        (file' # file =>
           \A leaf \in DOMAIN resume : \A w \in ToSet(resume[leaf].words) :
              \A k \in {t \in JdKeywords(job) : Len(t) = 1} :
                 GrowByCommit(leaf, w, k[1]) =>
                    LET index == Effective(file')
                    IN  /\ Unambiguous(index)
                        /\ MatchKeyword(k, resume[leaf].words, index) # "none"
                        /\ AtsMatch(k, resume, index) # "none")
    BY <1>1
<1> QED
    BY <1>2, SpecGrowth, PTL DEF Spec, GrownPairClosesItsGap

\* The two scans of the keyword engine agree: a keyword that it calls missing
\* has no wording to mirror in a leaf of the text it read, for every lexicon,
\* ambiguous or not (analyze_terminology_alignment, _match_keyword_in_text).
THEOREM SpecMissingHasNoMirror == Spec => []MissingHasNoMirror
<1>1. TypeOK => MissingHasNoMirror
    <2> SUFFICES ASSUME TypeOK,
                        NEW s \in TerminologySuggestions(job, resume, Index("matching")),
                        resume[s.location].section \in GapSections
                 PROVE  MatchKeyword(s.keyword, GapText(resume), Index("matching")) # "none"
        BY DEF MissingHasNoMirror
    <2>1. resume \in Seq(Leaf)
        BY LoopAssumption DEF TypeOK
    <2>2. PICK k \in JdKeywords(job), i \in DOMAIN resume :
              \E w \in AliasWindows(k, resume[i].words, Index("matching")) :
                  s = [keyword |-> k, current |-> Fold(w), location |-> i]
        BY DEF TerminologySuggestions
    <2>3. PICK w \in AliasWindows(k, resume[i].words, Index("matching")) :
              s = [keyword |-> k, current |-> Fold(w), location |-> i]
        BY <2>2
    <2>4. s.keyword = k /\ s.location = i
        BY <2>3
    <2>5. /\ resume[i].words \in Seq(Word) /\ GapText(resume) \in Seq(Word)
          /\ Inside(resume[i].words, GapText(resume))
        BY <2>1, <2>4, LeafInGapText
    <2>6. w \in AliasWindows(k, GapText(resume), Index("matching"))
        BY <2>5, WindowInside DEF AliasWindows
    <2> QED
        BY <2>4, <2>6 DEF MatchKeyword
<1>2. Inv => TypeOK
    BY DEF Inv
<1> QED
    BY <1>1, <1>2, SpecInv, PTL

-----------------------------------------------------------------------------
(* Learning: the profile and its votes.                                     *)

\* A key of the alphabet has its place there.
LEMMA PositionOfKey ==
    ASSUME NEW k \in ToSet(Alphabet)
    PROVE  Position(k) \in Nat /\ Alphabet[Position(k)] = k
<1> DEFINE I == {i \in 1 .. Len(Alphabet) : Alphabet[i] = k}
<1>1. DOMAIN Alphabet = 1 .. Len(Alphabet) /\ Len(Alphabet) \in Nat
    BY ProfileAssumption
<1>2. I # {} /\ I \in SUBSET Nat
    BY <1>1 DEF ToSet
<1>3. Min(I) \in I
    BY <1>2, MinOfNaturals
<1>4. Position(k) = Min(I)
    BY <1>2 DEF Position, SelectInSeq
<1> HIDE DEF Position
<1> QED
    BY <1>3, <1>4

\* The keys by weight: each of them, once.
LEMMA ByWeightMembers ==
    ASSUME NEW K \in SUBSET ToSet(Alphabet), NEW weights \in [K -> Int], NEW keys \in SUBSET K
    PROVE  ByWeight(weights, keys) \in Seq(keys) /\ ToSet(ByWeight(weights, keys)) = keys
<1> DEFINE before == {p \in keys \X keys :
                         \/ weights[p[1]] > weights[p[2]]
                         \/ weights[p[1]] = weights[p[2]] /\ Position(p[1]) < Position(p[2])}
<1>1. IsFiniteSet(keys)
    <2>1. IsFiniteSet(ToSet(Alphabet))
        BY ProfileAssumption, ToSetFinite
    <2> QED
        BY <2>1, FS_Subset
<1>2. \A k \in keys : weights[k] \in Int /\ Position(k) \in Nat
    BY PositionOfKey
<1>3. \A k, l \in keys : Position(k) = Position(l) => k = l
    BY PositionOfKey
<1>4. \A k, l \in keys : <<k, l>> \in before <=>
         \/ weights[k] > weights[l]
         \/ weights[k] = weights[l] /\ Position(k) < Position(l)
    OBVIOUS
<1>5. ByWeight(weights, keys) = SortedBy(keys, before)
    BY DEF ByWeight
<1> HIDE DEF before
<1>6. Orders(before, keys)
    <2>1. \A x \in keys : <<x, x>> \notin before
        BY <1>2, <1>4
    <2>2. \A x, y, z \in keys : <<x, y>> \in before /\ <<y, z>> \in before => <<x, z>> \in before
        BY <1>2, <1>4
    <2>3. \A x, y \in keys : x = y \/ <<x, y>> \in before \/ <<y, x>> \in before
        <3> SUFFICES ASSUME NEW x \in keys, NEW y \in keys, x # y
                     PROVE  <<x, y>> \in before \/ <<y, x>> \in before
            OBVIOUS
        <3>1. weights[x] \in Int /\ weights[y] \in Int /\ Position(x) \in Nat
              /\ Position(y) \in Nat /\ Position(x) # Position(y)
            BY <1>2, <1>3
        <3>2. \/ weights[x] > weights[y] \/ weights[y] > weights[x]
              \/ weights[x] = weights[y] /\ Position(x) < Position(y)
              \/ weights[y] = weights[x] /\ Position(y) < Position(x)
            BY <3>1
        <3> QED
            BY <1>4, <3>2
    <2> QED
        BY <2>1, <2>2, <2>3 DEF Orders
<1> QED
    BY <1>1, <1>5, <1>6, SortedByOrder

\* The emitted keys: those of enough weight, and the top one of them.
LEMMA SortedByWeightMembers ==
    ASSUME NEW K \in SUBSET ToSet(Alphabet), NEW weights \in [K -> Int]
    PROVE  /\ SortedByWeight(weights) \in Seq(K)
           /\ ToSet(SortedByWeight(weights)) = {k \in K : TierSelected(weights[k])}
           /\ TopEmitted(weights) # None =>
                 TopEmitted(weights) \in K /\ TierSelected(weights[TopEmitted(weights)])
<1> DEFINE keys == {k \in K : TierSelected(weights[k])}
           s == SortedByWeight(weights)
<1>1. s \in Seq(keys) /\ ToSet(s) = keys
    BY ByWeightMembers DEF SortedByWeight
<1>2. TopEmitted(weights) = None \/ TopEmitted(weights) \in keys
    <2> HIDE DEF keys, s
    <2>1. s # << >> => Head(s) \in keys
        BY <1>1
    <2> QED
        BY <2>1 DEF TopEmitted, s
<1>3. s \in Seq(K)
    <2>1. keys \in SUBSET K
        OBVIOUS
    <2> HIDE DEF keys, s
    <2> QED
        BY <1>1, <2>1
<1> QED
    BY <1>1, <1>2, <1>3

\* No signal weighs more than a fresh one, and none less than nothing.
LEMMA DecayWeightIs ==
    ASSUME NEW t \in Stamp, NEW n \in 0 .. MaxTime
    PROVE  DecayWeight(t, n) \in Nat /\ DecayWeight(t, n) <= FullWeight
<1>1. Decay[0] \in Nat /\ MaxTime \in Nat /\ \A a \in 0 .. MaxTime : Decay[a] \in Nat /\ Decay[a] <= Decay[0]
    BY ProfileAssumption
<1> DEFINE at == Instant[t]
<1>2. at \in Nat \cup {Undated}
    BY ProfileAssumption DEF Stamp
<1>3. DecayWeight(t, n) = IF Undated \in {at, n} \/ at > n THEN FullWeight ELSE Decay[n - at]
    BY DEF DecayWeight
<1> HIDE DEF at
<1>4. CASE Undated \in {at, n} \/ at > n
    BY <1>1, <1>3, <1>4 DEF FullWeight
<1>5. CASE ~(Undated \in {at, n} \/ at > n)
    <2>1. at \in Nat /\ n - at \in 0 .. MaxTime
        BY <1>1, <1>2, <1>5
    <2> QED
        BY <1>1, <1>3, <1>5, <2>1 DEF FullWeight
<1> QED
    BY <1>4, <1>5

\* A key that is selected has the votes of enough records.
LEMMA SelectedHasVotes ==
    ASSUME NEW records \in Seq(LogRecord), NEW n \in 0 .. MaxTime, NEW c \in {1, 2},
           NEW vote \in [DOMAIN records -> 0 .. c]
    PROVE  LET w == [i \in DOMAIN records |-> vote[i] * DecayWeight(records[i].time, n)]
           IN  /\ SumFunction(w) \in Int
               /\ TierSelected(SumFunction(w)) =>
                     Cardinality({i \in DOMAIN records : vote[i] > 0}) >= 4 - c
<1> DEFINE D == DOMAIN records
           w == [i \in D |-> vote[i] * DecayWeight(records[i].time, n)]
           votes == {i \in D : vote[i] > 0}
<1>1. IsFiniteSet(D)
    BY FS_Interval
<1>2. FullWeight \in Nat /\ FullWeight > 0
    BY ProfileAssumption DEF FullWeight
<1>3. \A i \in D : /\ DecayWeight(records[i].time, n) \in Nat
                   /\ DecayWeight(records[i].time, n) <= FullWeight
    <2> TAKE i \in D
    <2>1. records[i] \in LogRecord
        OBVIOUS
    <2>2. records[i].time \in Stamp
        BY <2>1 DEF LogRecord
    <2> QED
        BY <2>2, DecayWeightIs
<1>4. \A i \in D : w[i] \in Nat /\ w[i] <= c * FullWeight /\ (w[i] > 0 => vote[i] > 0)
    <2> TAKE i \in D
    <2> DEFINE d == DecayWeight(records[i].time, n)
    <2>1. w[i] = vote[i] * d
        OBVIOUS
    <2>2. d \in Nat /\ d <= FullWeight
        BY <1>3
    <2> HIDE DEF d, w
    <2>3. vote[i] \in {0, 1, 2} /\ vote[i] <= c
        OBVIOUS
    <2>4. 0 * d = 0 /\ 1 * d = d /\ 2 * d = d + d /\ 1 * FullWeight = FullWeight
          /\ 2 * FullWeight = FullWeight + FullWeight
        BY <1>2, <2>2
    <2> QED
        BY <1>2, <2>1, <2>2, <2>3, <2>4
<1>5. c * FullWeight \in Nat
    BY <1>2
<1> DEFINE heavy == {i \in D : w[i] > 0}
<1>6. SumFunction(w) \in Int /\ SumFunction(w) <= (c * FullWeight) * Cardinality(heavy)
    <2>1. w \in [D -> Int]
        BY <1>4
    <2> HIDE DEF w
    <2> QED
        BY <1>1, <1>4, <1>5, <2>1, SumType, SumBounded
<1>7. IsFiniteSet(votes) /\ Cardinality(votes) \in Nat /\ Cardinality(heavy) \in Nat
      /\ Cardinality(heavy) <= Cardinality(votes)
    <2>1. votes \in SUBSET D /\ heavy \in SUBSET votes
        BY <1>4
    <2> HIDE DEF votes, heavy
    <2> QED
        BY <1>1, <2>1, FS_Subset, FS_CardinalityType
<1> HIDE DEF w
<1>8. ASSUME TierSelected(SumFunction(w)) PROVE Cardinality(votes) >= 4 - c
    <2> DEFINE h == Cardinality(heavy)
               v == Cardinality(votes)
               total == SumFunction(w)
    <2>1. total >= 3 * FullWeight /\ total \in Int /\ total <= (c * FullWeight) * h
        BY <1>6, <1>8 DEF TierSelected, MODERATE
    <2>2. h \in Nat /\ v \in Nat /\ h <= v
        BY <1>7
    <2> HIDE DEF h, v, total
    <2>3. v < 4 - c => h \in {0, 1} \/ (c = 1 /\ h = 2)
        BY <2>2
    <2>4. (c * FullWeight) * 0 = 0 /\ (c * FullWeight) * 1 = c * FullWeight
          /\ (1 * FullWeight) * 2 = 2 * FullWeight /\ 1 * FullWeight = FullWeight
        BY <1>2
    <2>5. ~(v < 4 - c)
        BY <1>2, <2>1, <2>3, <2>4
    <2> QED
        BY <2>2, <2>5 DEF v
<1> QED
    BY <1>6, <1>8 DEF w


\* The keys that are selected from weighed votes, and the top one of them.
WeighedVotes(keys, records, n, votes) ==
    [k \in keys |-> SumFunction([i \in DOMAIN records |->
                                    votes[<<k, i>>] * DecayWeight(records[i].time, n)])]

HasVotes(k, records, votes, m) ==
    Cardinality({i \in DOMAIN records : votes[<<k, i>>] > 0}) >= m

\* Every key that is emitted has the votes of enough records.
LEMMA SelectedKeysHaveVotes ==
    ASSUME NEW records \in Seq(LogRecord), NEW n \in 0 .. MaxTime, NEW c \in {1, 2},
           NEW keys \in SUBSET ToSet(Alphabet),
           NEW votes \in [keys \X DOMAIN records -> 0 .. c],
           NEW weights, weights = WeighedVotes(keys, records, n, votes)
    PROVE  /\ weights \in [keys -> Int]
           /\ SortedByWeight(weights) \in Seq(keys)
           /\ \A i \in DOMAIN SortedByWeight(weights) :
                 HasVotes(SortedByWeight(weights)[i], records, votes, 4 - c)
           /\ TopEmitted(weights) # None =>
                 /\ TopEmitted(weights) \in keys
                 /\ HasVotes(TopEmitted(weights), records, votes, 4 - c)
<1> DEFINE Enough(k) == HasVotes(k, records, votes, 4 - c)
           W == WeighedVotes(keys, records, n, votes)
<1>1. \A k \in keys : W[k] \in Int /\ (TierSelected(W[k]) => Enough(k))
    <2> TAKE k \in keys
    <2> DEFINE vote == [i \in DOMAIN records |-> votes[<<k, i>>]]
               w == [i \in DOMAIN records |-> vote[i] * DecayWeight(records[i].time, n)]
    <2>1. vote \in [DOMAIN records -> 0 .. c]
        OBVIOUS
    <2>2. \A i \in DOMAIN records : vote[i] = votes[<<k, i>>]
        OBVIOUS
    <2>3. W[k] = SumFunction(w)
        <3>1. w = [i \in DOMAIN records |-> votes[<<k, i>>] * DecayWeight(records[i].time, n)]
            BY <2>2
        <3> HIDE DEF w
        <3> QED
            BY <3>1 DEF WeighedVotes
    <2>4. {i \in DOMAIN records : vote[i] > 0} = {i \in DOMAIN records : votes[<<k, i>>] > 0}
        BY <2>2
    <2> HIDE DEF vote, W
    <2>5. /\ SumFunction(w) \in Int
          /\ TierSelected(SumFunction(w)) => Cardinality({i \in DOMAIN records : vote[i] > 0}) >= 4 - c
        BY <2>1, SelectedHasVotes
    <2> HIDE DEF w
    <2> QED
        BY <2>3, <2>4, <2>5 DEF HasVotes
<1>2. weights = W /\ W = [k \in keys |-> W[k]]
    BY DEF WeighedVotes
<1> HIDE DEF W, Enough
<1>3. weights \in [keys -> Int]
    BY <1>1, <1>2
<1>4. /\ SortedByWeight(weights) \in Seq(keys)
      /\ ToSet(SortedByWeight(weights)) = {k \in keys : TierSelected(weights[k])}
      /\ TopEmitted(weights) # None =>
            TopEmitted(weights) \in keys /\ TierSelected(weights[TopEmitted(weights)])
    BY <1>3, SortedByWeightMembers
<1>5. \A i \in DOMAIN SortedByWeight(weights) : Enough(SortedByWeight(weights)[i])
    <2> TAKE i \in DOMAIN SortedByWeight(weights)
    <2>1. SortedByWeight(weights)[i] \in ToSet(SortedByWeight(weights))
        BY DEF ToSet
    <2> QED
        BY <1>1, <1>2, <1>4, <2>1
<1>6. TopEmitted(weights) # None => Enough(TopEmitted(weights))
    BY <1>1, <1>2, <1>4
<1> QED
    BY <1>3, <1>4, <1>5, <1>6 DEF Enough

\* A record has one vote for a tone, a length or a strength, and two at most for
\* a phrase or against a pattern.
LEMMA VotesOfRecord ==
    ASSUME NEW r \in LogRecord, NEW k
    PROVE  /\ AcceptedVote(r, k) \in 0 .. 2 /\ RejectedVote(r, k) \in 0 .. 2
           /\ PatternVote(r, k) \in 0 .. 2
           /\ ToneVote(r, k) \in 0 .. 1 /\ LengthVote(r, k) \in 0 .. 1
           /\ StrengthVote(r, k) \in 0 .. 1
<1>1. \A b \in BOOLEAN : One(b) \in {0, 1}
    BY DEF One
<1>2. NegativeVote(r) \in {0, 1, 2} /\ (r.outcome = "accepted_modified" => NegativeVote(r) = 0)
    BY DEF NegativeVote, Dislikes, UndoneMultiplier
<1>3. AcceptedVote(r, k) \in 0 .. 2
    BY DEF AcceptedVote, One
<1>4. RejectedVote(r, k) \in 0 .. 2
    <2>1. CASE r.outcome = "accepted_modified"
        BY <1>2, <2>1 DEF RejectedVote, One
    <2>2. CASE r.outcome # "accepted_modified"
        BY <1>2, <2>2 DEF RejectedVote, One
    <2> QED
        BY <2>1, <2>2
<1>5. PatternVote(r, k) \in 0 .. 2
    BY <1>2 DEF PatternVote
<1>6. ToneVote(r, k) \in 0 .. 1 /\ LengthVote(r, k) \in 0 .. 1 /\ StrengthVote(r, k) \in 0 .. 1
    BY DEF ToneVote, LengthVote, StrengthVote, One
<1> QED
    BY <1>3, <1>4, <1>5, <1>6

\* The keys of the profile: clean terms, edit types and the rest of the alphabet.
LEMMA KeysAreInTheAlphabet ==
    ASSUME NEW records \in Seq(LogRecord)
    PROVE  /\ CleanTerm \in SUBSET ToSet(Alphabet)
           /\ EditTypes(records) \in SUBSET ToSet(Alphabet)
           /\ {"concise", "impactful"} \in SUBSET ToSet(Alphabet)
           /\ {"shorter", "detailed"} \in SUBSET ToSet(Alphabet)
           /\ {"aggressive", "minimal"} \in SUBSET ToSet(Alphabet)
<1>1. \A i \in DOMAIN records : records[i].type \in ToSet(Alphabet)
    <2> TAKE i \in DOMAIN records
    <2>1. records[i] \in LogRecord
        OBVIOUS
    <2> QED
        BY <2>1 DEF LogRecord
<1> QED
    BY <1>1, ProfileAssumption DEF CleanTerm, EditTypes

\* What a profile names has enough votes in the records.
BackedBy(p, records) ==
    LET Count(Vote(_, _), k) == Cardinality({i \in DOMAIN records : Vote(records[i], k) > 0})
    IN  /\ \A i \in DOMAIN p.accepted : Count(AcceptedVote, p.accepted[i]) >= 2
        /\ \A i \in DOMAIN p.rejected : Count(RejectedVote, p.rejected[i]) >= 2
        /\ \A i \in DOMAIN p.disliked : Count(PatternVote, p.disliked[i]) >= 2
        /\ p.tone # None => Count(ToneVote, p.tone) >= 3
        /\ p.length # None => Count(LengthVote, p.length) >= 3
        /\ p.strength # None => Count(StrengthVote, p.strength) >= 3

\* A derived profile is backed by the records it is derived from.
LEMMA ProfileHasVotes ==
    ASSUME NEW records \in Seq(LogRecord), NEW ps, NEW n \in 0 .. MaxTime
    PROVE  LET p == DerivePreferences(records, ps, n)
           IN  /\ p.accepted \in Seq(CleanTerm) /\ p.rejected \in Seq(CleanTerm)
               /\ p.disliked \in Seq(EditTypes(records))
               /\ BackedBy(p, records)
<1> DEFINE p == DerivePreferences(records, ps, n)
<1>1. \A i \in DOMAIN records : records[i] \in LogRecord
    OBVIOUS
<1>2. /\ p.accepted \in Seq(CleanTerm)
      /\ \A i \in DOMAIN p.accepted :
            Cardinality({j \in DOMAIN records : AcceptedVote(records[j], p.accepted[i]) > 0}) >= 2
    <2> DEFINE keys == CleanTerm
               votes == [q \in keys \X DOMAIN records |-> AcceptedVote(records[q[2]], q[1])]
               weights == Weights(keys, records, n, AcceptedVote)
               c == 2
    <2>1. p.accepted = SortedByWeight(weights)
        BY DEF DerivePreferences
    <2>2. \A k \in keys, i \in DOMAIN records : votes[<<k, i>>] = AcceptedVote(records[i], k)
        OBVIOUS
    <2>3. votes \in [keys \X DOMAIN records -> 0 .. c]
        BY <1>1, VotesOfRecord
    <2>4. weights = WeighedVotes(keys, records, n, votes)
        <3> HIDE DEF votes, keys
        <3> QED
            BY <2>2 DEF Weights, WeighedVotes
    <2>5. keys \in SUBSET ToSet(Alphabet)
        BY KeysAreInTheAlphabet
    <2>6. c \in {1, 2} /\ 4 - c = 2
        OBVIOUS
    <2> HIDE DEF votes, weights, keys, c
    <2>7. /\ SortedByWeight(weights) \in Seq(keys)
          /\ \A i \in DOMAIN SortedByWeight(weights) :
                HasVotes(SortedByWeight(weights)[i], records, votes, 4 - c)
          /\ TopEmitted(weights) # None =>
                /\ TopEmitted(weights) \in keys
                /\ HasVotes(TopEmitted(weights), records, votes, 4 - c)
        BY <2>3, <2>4, <2>5, <2>6, SelectedKeysHaveVotes
    <2>8. \A k \in keys : HasVotes(k, records, votes, 4 - c) <=>
              Cardinality({i \in DOMAIN records : AcceptedVote(records[i], k) > 0}) >= 2
        <3>1. \A k \in keys : {i \in DOMAIN records : votes[<<k, i>>] > 0}
                               = {i \in DOMAIN records : AcceptedVote(records[i], k) > 0}
            BY <2>2
        <3> QED
            BY <2>6, <3>1 DEF HasVotes
    <2>9. \A i \in DOMAIN p.accepted : p.accepted[i] \in keys
        BY <2>1, <2>7
    <2> HIDE DEF p
    <2> QED
        BY <2>1, <2>7, <2>8, <2>9 DEF keys
<1>3. /\ p.rejected \in Seq(CleanTerm)
      /\ \A i \in DOMAIN p.rejected :
            Cardinality({j \in DOMAIN records : RejectedVote(records[j], p.rejected[i]) > 0}) >= 2
    <2> DEFINE keys == CleanTerm
               votes == [q \in keys \X DOMAIN records |-> RejectedVote(records[q[2]], q[1])]
               weights == Weights(keys, records, n, RejectedVote)
               c == 2
    <2>1. p.rejected = SortedByWeight(weights)
        BY DEF DerivePreferences
    <2>2. \A k \in keys, i \in DOMAIN records : votes[<<k, i>>] = RejectedVote(records[i], k)
        OBVIOUS
    <2>3. votes \in [keys \X DOMAIN records -> 0 .. c]
        BY <1>1, VotesOfRecord
    <2>4. weights = WeighedVotes(keys, records, n, votes)
        <3> HIDE DEF votes, keys
        <3> QED
            BY <2>2 DEF Weights, WeighedVotes
    <2>5. keys \in SUBSET ToSet(Alphabet)
        BY KeysAreInTheAlphabet
    <2>6. c \in {1, 2} /\ 4 - c = 2
        OBVIOUS
    <2> HIDE DEF votes, weights, keys, c
    <2>7. /\ SortedByWeight(weights) \in Seq(keys)
          /\ \A i \in DOMAIN SortedByWeight(weights) :
                HasVotes(SortedByWeight(weights)[i], records, votes, 4 - c)
          /\ TopEmitted(weights) # None =>
                /\ TopEmitted(weights) \in keys
                /\ HasVotes(TopEmitted(weights), records, votes, 4 - c)
        BY <2>3, <2>4, <2>5, <2>6, SelectedKeysHaveVotes
    <2>8. \A k \in keys : HasVotes(k, records, votes, 4 - c) <=>
              Cardinality({i \in DOMAIN records : RejectedVote(records[i], k) > 0}) >= 2
        <3>1. \A k \in keys : {i \in DOMAIN records : votes[<<k, i>>] > 0}
                               = {i \in DOMAIN records : RejectedVote(records[i], k) > 0}
            BY <2>2
        <3> QED
            BY <2>6, <3>1 DEF HasVotes
    <2>9. \A i \in DOMAIN p.rejected : p.rejected[i] \in keys
        BY <2>1, <2>7
    <2> HIDE DEF p
    <2> QED
        BY <2>1, <2>7, <2>8, <2>9 DEF keys
<1>4. /\ p.disliked \in Seq(EditTypes(records))
      /\ \A i \in DOMAIN p.disliked :
            Cardinality({j \in DOMAIN records : PatternVote(records[j], p.disliked[i]) > 0}) >= 2
    <2> DEFINE keys == EditTypes(records)
               votes == [q \in keys \X DOMAIN records |-> PatternVote(records[q[2]], q[1])]
               weights == Weights(keys, records, n, PatternVote)
               c == 2
    <2>1. p.disliked = SortedByWeight(weights)
        BY DEF DerivePreferences
    <2>2. \A k \in keys, i \in DOMAIN records : votes[<<k, i>>] = PatternVote(records[i], k)
        OBVIOUS
    <2>3. votes \in [keys \X DOMAIN records -> 0 .. c]
        BY <1>1, VotesOfRecord
    <2>4. weights = WeighedVotes(keys, records, n, votes)
        <3> HIDE DEF votes, keys
        <3> QED
            BY <2>2 DEF Weights, WeighedVotes
    <2>5. keys \in SUBSET ToSet(Alphabet)
        BY KeysAreInTheAlphabet
    <2>6. c \in {1, 2} /\ 4 - c = 2
        OBVIOUS
    <2> HIDE DEF votes, weights, keys, c
    <2>7. /\ SortedByWeight(weights) \in Seq(keys)
          /\ \A i \in DOMAIN SortedByWeight(weights) :
                HasVotes(SortedByWeight(weights)[i], records, votes, 4 - c)
          /\ TopEmitted(weights) # None =>
                /\ TopEmitted(weights) \in keys
                /\ HasVotes(TopEmitted(weights), records, votes, 4 - c)
        BY <2>3, <2>4, <2>5, <2>6, SelectedKeysHaveVotes
    <2>8. \A k \in keys : HasVotes(k, records, votes, 4 - c) <=>
              Cardinality({i \in DOMAIN records : PatternVote(records[i], k) > 0}) >= 2
        <3>1. \A k \in keys : {i \in DOMAIN records : votes[<<k, i>>] > 0}
                               = {i \in DOMAIN records : PatternVote(records[i], k) > 0}
            BY <2>2
        <3> QED
            BY <2>6, <3>1 DEF HasVotes
    <2>9. \A i \in DOMAIN p.disliked : p.disliked[i] \in keys
        BY <2>1, <2>7
    <2> HIDE DEF p
    <2> QED
        BY <2>1, <2>7, <2>8, <2>9 DEF keys
<1>5. p.tone # None =>
          Cardinality({j \in DOMAIN records : ToneVote(records[j], p.tone) > 0}) >= 3
    <2> DEFINE keys == {"concise", "impactful"}
               votes == [q \in keys \X DOMAIN records |-> ToneVote(records[q[2]], q[1])]
               weights == Weights(keys, records, n, ToneVote)
               c == 1
    <2>1. p.tone = TopEmitted(weights)
        BY DEF DerivePreferences
    <2>2. \A k \in keys, i \in DOMAIN records : votes[<<k, i>>] = ToneVote(records[i], k)
        OBVIOUS
    <2>3. votes \in [keys \X DOMAIN records -> 0 .. c]
        BY <1>1, VotesOfRecord
    <2>4. weights = WeighedVotes(keys, records, n, votes)
        <3> HIDE DEF votes, keys
        <3> QED
            BY <2>2 DEF Weights, WeighedVotes
    <2>5. keys \in SUBSET ToSet(Alphabet)
        BY KeysAreInTheAlphabet
    <2>6. c \in {1, 2} /\ 4 - c = 3
        OBVIOUS
    <2> HIDE DEF votes, weights, keys, c
    <2>7. /\ SortedByWeight(weights) \in Seq(keys)
          /\ \A i \in DOMAIN SortedByWeight(weights) :
                HasVotes(SortedByWeight(weights)[i], records, votes, 4 - c)
          /\ TopEmitted(weights) # None =>
                /\ TopEmitted(weights) \in keys
                /\ HasVotes(TopEmitted(weights), records, votes, 4 - c)
        BY <2>3, <2>4, <2>5, <2>6, SelectedKeysHaveVotes
    <2>8. \A k \in keys : HasVotes(k, records, votes, 4 - c) <=>
              Cardinality({i \in DOMAIN records : ToneVote(records[i], k) > 0}) >= 3
        <3>1. \A k \in keys : {i \in DOMAIN records : votes[<<k, i>>] > 0}
                               = {i \in DOMAIN records : ToneVote(records[i], k) > 0}
            BY <2>2
        <3> QED
            BY <2>6, <3>1 DEF HasVotes
    <2> HIDE DEF p
    <2>9. p.tone # None => p.tone \in keys
        BY <2>1, <2>7
    <2> QED
        BY <2>1, <2>7, <2>8, <2>9
<1>6. p.length # None =>
          Cardinality({j \in DOMAIN records : LengthVote(records[j], p.length) > 0}) >= 3
    <2> DEFINE keys == {"shorter", "detailed"}
               votes == [q \in keys \X DOMAIN records |-> LengthVote(records[q[2]], q[1])]
               weights == Weights(keys, records, n, LengthVote)
               c == 1
    <2>1. p.length = TopEmitted(weights)
        BY DEF DerivePreferences
    <2>2. \A k \in keys, i \in DOMAIN records : votes[<<k, i>>] = LengthVote(records[i], k)
        OBVIOUS
    <2>3. votes \in [keys \X DOMAIN records -> 0 .. c]
        BY <1>1, VotesOfRecord
    <2>4. weights = WeighedVotes(keys, records, n, votes)
        <3> HIDE DEF votes, keys
        <3> QED
            BY <2>2 DEF Weights, WeighedVotes
    <2>5. keys \in SUBSET ToSet(Alphabet)
        BY KeysAreInTheAlphabet
    <2>6. c \in {1, 2} /\ 4 - c = 3
        OBVIOUS
    <2> HIDE DEF votes, weights, keys, c
    <2>7. /\ SortedByWeight(weights) \in Seq(keys)
          /\ \A i \in DOMAIN SortedByWeight(weights) :
                HasVotes(SortedByWeight(weights)[i], records, votes, 4 - c)
          /\ TopEmitted(weights) # None =>
                /\ TopEmitted(weights) \in keys
                /\ HasVotes(TopEmitted(weights), records, votes, 4 - c)
        BY <2>3, <2>4, <2>5, <2>6, SelectedKeysHaveVotes
    <2>8. \A k \in keys : HasVotes(k, records, votes, 4 - c) <=>
              Cardinality({i \in DOMAIN records : LengthVote(records[i], k) > 0}) >= 3
        <3>1. \A k \in keys : {i \in DOMAIN records : votes[<<k, i>>] > 0}
                               = {i \in DOMAIN records : LengthVote(records[i], k) > 0}
            BY <2>2
        <3> QED
            BY <2>6, <3>1 DEF HasVotes
    <2> HIDE DEF p
    <2>9. p.length # None => p.length \in keys
        BY <2>1, <2>7
    <2> QED
        BY <2>1, <2>7, <2>8, <2>9
<1>7. p.strength # None =>
          Cardinality({j \in DOMAIN records : StrengthVote(records[j], p.strength) > 0}) >= 3
    <2> DEFINE keys == {"aggressive", "minimal"}
               votes == [q \in keys \X DOMAIN records |-> StrengthVote(records[q[2]], q[1])]
               weights == Weights(keys, records, n, StrengthVote)
               c == 1
    <2>1. p.strength = TopEmitted(weights)
        BY DEF DerivePreferences
    <2>2. \A k \in keys, i \in DOMAIN records : votes[<<k, i>>] = StrengthVote(records[i], k)
        OBVIOUS
    <2>3. votes \in [keys \X DOMAIN records -> 0 .. c]
        BY <1>1, VotesOfRecord
    <2>4. weights = WeighedVotes(keys, records, n, votes)
        <3> HIDE DEF votes, keys
        <3> QED
            BY <2>2 DEF Weights, WeighedVotes
    <2>5. keys \in SUBSET ToSet(Alphabet)
        BY KeysAreInTheAlphabet
    <2>6. c \in {1, 2} /\ 4 - c = 3
        OBVIOUS
    <2> HIDE DEF votes, weights, keys, c
    <2>7. /\ SortedByWeight(weights) \in Seq(keys)
          /\ \A i \in DOMAIN SortedByWeight(weights) :
                HasVotes(SortedByWeight(weights)[i], records, votes, 4 - c)
          /\ TopEmitted(weights) # None =>
                /\ TopEmitted(weights) \in keys
                /\ HasVotes(TopEmitted(weights), records, votes, 4 - c)
        BY <2>3, <2>4, <2>5, <2>6, SelectedKeysHaveVotes
    <2>8. \A k \in keys : HasVotes(k, records, votes, 4 - c) <=>
              Cardinality({i \in DOMAIN records : StrengthVote(records[i], k) > 0}) >= 3
        <3>1. \A k \in keys : {i \in DOMAIN records : votes[<<k, i>>] > 0}
                               = {i \in DOMAIN records : StrengthVote(records[i], k) > 0}
            BY <2>2
        <3> QED
            BY <2>6, <3>1 DEF HasVotes
    <2> HIDE DEF p
    <2>9. p.strength # None => p.strength \in keys
        BY <2>1, <2>7
    <2> QED
        BY <2>1, <2>7, <2>8, <2>9
<1> HIDE DEF p
<1> QED
    BY <1>2, <1>3, <1>4, <1>5, <1>6, <1>7 DEF p, BackedBy

-----------------------------------------------------------------------------
(* Learning: the invariant, and the interview.                              *)

Answer == [key : Key, answer : {"yes", "no", "not_in_context"}, context : Context \cup {None}]

\* The profile is what the log and the pairs of its refresh gave then.
ProfileIsDerived ==
    \/ profile = None /\ derived = None
    \/ /\ derived \in [log : 0 .. Len(log), pairs : 0 .. Len(pairs), now : 0 .. now]
       /\ profile = DerivePreferences(SubSeq(log, 1, derived.log),
                                      SubSeq(pairs, 1, derived.pairs), derived.now)

LearningInv ==
    /\ log \in Seq(LogRecord) /\ pairs \in Seq(LogPair) /\ answers \in Seq(Answer)
    /\ now \in 0 .. MaxTime
    /\ asking # None => asking \in [key : Key, context : Context]
    /\ ProfileIsDerived

\* A record is stamped with its number and, when it has none, the time.
LEMMA StampedIsRecord ==
    ASSUME LearningInv, NEW r \in Feedback
    PROVE  Stamped(r) \in LogRecord
<1> DEFINE t == IF r.time = None THEN StampAt[now] ELSE r.time
           d == IF r.time = None THEN [r EXCEPT !.time = StampAt[0]] ELSE r
<1>1. d \in LogRecord
    BY LearningAssumption
<1>2. now \in Nat /\ Len(log) + 1 \in Nat
    BY ProfileAssumption DEF LearningInv
<1>3. /\ DOMAIN r = DOMAIN d
      /\ \A x \in DOMAIN r \ {"time"} : r[x] = d[x]
    OBVIOUS
<1>4. t \in Stamp
    <2>1. StampAt[now] \in Stamp
        BY LearningAssumption DEF LearningInv
    <2>2. d.time \in Stamp
        BY <1>1 DEF LogRecord
    <2> QED
        BY <2>1, <2>2
<1>5. Stamped(r) = [x \in DOMAIN r |-> IF x = "id" THEN Len(log) + 1
                                       ELSE IF x = "time" THEN t ELSE r[x]]
    <2>1. DOMAIN r = {"id", "outcome", "section", "type", "removed", "added", "preserved",
                      "target", "original", "proposed", "final", "distance", "time"}
        BY <1>1, <1>3 DEF LogRecord
    <2>2. Stamped(r) = [r EXCEPT !.id = Len(log) + 1, !.time = t]
        BY <2>1 DEF Stamped
    <2> HIDE DEF t, d
    <2> QED
        BY <2>1, <2>2
<1> HIDE DEF t, d
<1> QED
    BY <1>1, <1>2, <1>3, <1>4, <1>5 DEF LogRecord

\* The logs start empty, and there is no profile.
LEMMA InitLearning == LearningInit => LearningInv
BY ProfileAssumption DEF LearningInit, LearningInv, ProfileIsDerived

\* The logs only grow, so the inputs of the last refresh are still their prefix.
LEMMA LogsOnlyGrow ==
    ASSUME NEW X, NEW s \in Seq(X), NEW x \in X, NEW n \in 0 .. Len(s)
    PROVE  /\ Append(s, x) \in Seq(X) /\ n \in 0 .. Len(Append(s, x))
           /\ SubSeq(Append(s, x), 1, n) = SubSeq(s, 1, n)
OBVIOUS

\* Appends keep the prefix of the last refresh; a refresh takes the whole logs.
LEMMA NextLearning == LearningInv /\ [LearningNext]_learningVars => LearningInv'
<1> SUFFICES ASSUME LearningInv, [LearningNext]_learningVars PROVE LearningInv'
    OBVIOUS
<1>1. CASE RecordEditFeedback
    <2>1. PICK r \in Feedback :
            /\ log' = Append(log, Stamped(r))
            /\ pairs' = pairs \/ \E p \in Pairs : pairs' = Append(pairs, p)
        BY <1>1 DEF RecordEditFeedback
    <2>2. Stamped(r) \in LogRecord /\ log \in Seq(LogRecord) /\ pairs \in Seq(LogPair)
        BY StampedIsRecord DEF LearningInv
    <2>3. log' \in Seq(LogRecord)
        BY <2>1, <2>2
    <2>4. pairs' = pairs \/ \E p \in LogPair : pairs' = Append(pairs, p)
        BY <2>1, LearningAssumption
    <2>5. pairs' \in Seq(LogPair)
        BY <2>2, <2>4
    <2>6. profile' = profile /\ derived' = derived /\ now' = now /\ answers' = answers
          /\ asking' = asking
        BY <1>1 DEF RecordEditFeedback
    <2>7. ProfileIsDerived'
        <3>1. CASE derived = None /\ profile = None
            BY <2>6, <3>1 DEF ProfileIsDerived
        <3>2. CASE ~(derived = None /\ profile = None)
            <4>1. derived \in [log : 0 .. Len(log), pairs : 0 .. Len(pairs), now : 0 .. now]
                BY <3>2 DEF LearningInv, ProfileIsDerived
            <4>2. derived.log \in 0 .. Len(log) /\ derived.pairs \in 0 .. Len(pairs)
                BY <4>1
            <4>3. derived.log \in 0 .. Len(log') /\ SubSeq(log', 1, derived.log) = SubSeq(log, 1, derived.log)
                BY <2>1, <2>2, <4>2, LogsOnlyGrow
            <4>4. derived.pairs \in 0 .. Len(pairs')
                  /\ SubSeq(pairs', 1, derived.pairs) = SubSeq(pairs, 1, derived.pairs)
                BY <2>2, <2>4, <4>2, LogsOnlyGrow
            <4>5. derived \in [log : 0 .. Len(log'), pairs : 0 .. Len(pairs'), now : 0 .. now]
                BY <4>1, <4>3, <4>4
            <4> QED
                BY <2>6, <3>2, <4>3, <4>4, <4>5 DEF LearningInv, ProfileIsDerived
        <3> QED
            BY <3>1, <3>2
    <2> QED
        BY <2>3, <2>5, <2>6, <2>7 DEF LearningInv
<1>2. CASE RefreshPreferences
    <2>1. SubSeq(log, 1, Len(log)) = log /\ SubSeq(pairs, 1, Len(pairs)) = pairs
          /\ Len(log) \in 0 .. Len(log) /\ Len(pairs) \in 0 .. Len(pairs) /\ now \in 0 .. now
        BY DEF LearningInv
    <2>2. derived' = [log |-> Len(log), pairs |-> Len(pairs), now |-> now]
          /\ profile' = DerivePreferences(log, pairs, now)
          /\ UNCHANGED <<log, pairs, answers, now, asking>>
        BY <1>2 DEF RefreshPreferences
    <2>3. ProfileIsDerived'
        BY <2>1, <2>2 DEF ProfileIsDerived
    <2> QED
        BY <2>2, <2>3 DEF LearningInv
<1>3. CASE TimePasses
    <2>1. now' = now + 1 /\ now + 1 \in 0 .. MaxTime
          /\ UNCHANGED <<log, pairs, answers, profile, derived, asking>>
        BY <1>3, ProfileAssumption DEF TimePasses, LearningInv
    <2>2. \A d \in 0 .. now : d \in 0 .. (now + 1)
        BY DEF LearningInv
    <2>3. ProfileIsDerived'
        BY <2>1, <2>2 DEF LearningInv, ProfileIsDerived
    <2> QED
        BY <2>1, <2>3 DEF LearningInv
<1>4. CASE AskRequirement
    <2>1. UNCHANGED <<log, pairs, answers, profile, derived, now>>
          /\ asking' \in [key : Key, context : Context]
        BY <1>4 DEF AskRequirement
    <2> QED
        BY <2>1 DEF LearningInv, ProfileIsDerived
<1>5. CASE AnswerRequirement
    <2>1. UNCHANGED <<log, pairs, profile, derived, now>> /\ asking' = None
        BY <1>5 DEF AnswerRequirement
    <2>2. answers' \in Seq(Answer)
        <3>1. PICK a \in {"yes", "no", "not_in_context"} :
                answers' = Append(answers, [key |-> asking.key, answer |-> a,
                                            context |-> IF a = "not_in_context" THEN asking.context
                                                        ELSE None])
            BY <1>5 DEF AnswerRequirement
        <3>2. asking.key \in Key /\ asking.context \in Context /\ answers \in Seq(Answer)
            BY <1>5 DEF AnswerRequirement, LearningInv
        <3> QED
            BY <3>1, <3>2 DEF Answer
    <2> QED
        BY <2>1, <2>2 DEF LearningInv, ProfileIsDerived
<1>6. CASE UNCHANGED learningVars
    BY <1>6 DEF learningVars, LearningInv, ProfileIsDerived
<1> QED
    BY <1>1, <1>2, <1>3, <1>4, <1>5, <1>6 DEF LearningNext

\* The invariant of the learning directory.
LEMMA SpecLearning == LearningSpec => []LearningInv
BY InitLearning, NextLearning, PTL DEF LearningSpec

\* A single action never establishes a preference: whatever the profile names
\* has the votes of two records at least, three for a tone, a length and a
\* strength (module docstring of preferences.py).
THEOREM SpecOneActionIsNoPreference == LearningSpec => []OneActionIsNoPreference
<1>1. LearningInv => OneActionIsNoPreference
    <2> SUFFICES ASSUME LearningInv, profile # None PROVE OneActionIsNoPreference
        BY DEF OneActionIsNoPreference
    <2> DEFINE records == SubSeq(log, 1, derived.log)
    <2>1. /\ derived \in [log : 0 .. Len(log), pairs : 0 .. Len(pairs), now : 0 .. now]
          /\ profile = DerivePreferences(records, SubSeq(pairs, 1, derived.pairs), derived.now)
        BY DEF LearningInv, ProfileIsDerived
    <2>2. /\ derived.log \in 0 .. Len(log) /\ derived.now \in 0 .. MaxTime
          /\ log \in Seq(LogRecord)
        BY <2>1, ProfileAssumption DEF LearningInv
    <2>3. /\ records \in Seq(LogRecord) /\ DOMAIN records = 1 .. derived.log
          /\ \A i \in 1 .. derived.log : records[i] = log[i]
        BY <2>2
    <2> HIDE DEF records
    <2>4. \A k :
            /\ {i \in DOMAIN records : AcceptedVote(records[i], k) > 0} = Votes(AcceptedVote, k)
            /\ {i \in DOMAIN records : RejectedVote(records[i], k) > 0} = Votes(RejectedVote, k)
            /\ {i \in DOMAIN records : PatternVote(records[i], k) > 0} = Votes(PatternVote, k)
            /\ {i \in DOMAIN records : ToneVote(records[i], k) > 0} = Votes(ToneVote, k)
            /\ {i \in DOMAIN records : LengthVote(records[i], k) > 0} = Votes(LengthVote, k)
            /\ {i \in DOMAIN records : StrengthVote(records[i], k) > 0} = Votes(StrengthVote, k)
        BY <2>3 DEF Votes
    <2>5. BackedBy(profile, records)
        BY <2>1, <2>2, <2>3, ProfileHasVotes
    <2> QED
        BY <2>4, <2>5 DEF OneActionIsNoPreference, BackedBy
<1> QED
    BY <1>1, SpecLearning, PTL

\* A question is suppressed only by an answer that holds for its context: a
\* durable yes or no, or a no for this very context.
THEOREM SpecSuppressedByAValidAnswer == LearningSpec => []SuppressedByAValidAnswer
<1>1. LearningInv => SuppressedByAValidAnswer
    <2> SUFFICES ASSUME LearningInv, NEW k \in Key, NEW c \in Context,
                        IsAlreadyAnswered(k, c, answers) # None
                 PROVE  \E i \in DOMAIN answers :
                            /\ answers[i].key = k
                            /\ answers[i].answer \in {"yes", "no"} \/ answers[i].context = c
        BY DEF SuppressedByAValidAnswer
    <2> DEFINE same == {i \in DOMAIN answers : answers[i].key = k}
    <2>1. Len(answers) \in Nat /\ DOMAIN answers = 1 .. Len(answers)
        BY DEF LearningInv
    <2>2. same # {}
        BY DEF IsAlreadyAnswered
    <2>3. Max(same) \in same
        <3>1. same \in SUBSET (1 .. Len(answers))
            BY <2>1
        <3> HIDE DEF same
        <3> QED
            BY <2>1, <2>2, <3>1, MaxOfIndexes
    <2>4. answers[Max(same)].answer \in {"yes", "no"} \/ answers[Max(same)].context = c
        BY <2>2 DEF IsAlreadyAnswered
    <2> QED
        BY <2>3, <2>4
<1> QED
    BY <1>1, SpecLearning, PTL

-----------------------------------------------------------------------------
(* Learning: the ranker.                                                    *)

\* A candidate edit.
IsCandidate(c) ==
    /\ c.id \in Int /\ c.section \in DOMAIN Slot
    /\ c.words \in Seq(Word) /\ c.original \in Nat
    /\ c.gain \in [ats : Int, keyword : Int]

\* Division by a positive number.
LEMMA QuotientType ==
    ASSUME NEW a \in Int, NEW b \in Nat, b > 0
    PROVE  a \div b \in Int
OBVIOUS

\* A clamped number is a number.
LEMMA ClampType == ASSUME NEW n \in Int PROVE Clamp100(n) \in Int
BY DEF Clamp100

\* The parts of a score are numbers.
LEMMA LengthTypes ==
    ASSUME NEW c, IsCandidate(c)
    PROVE  Characters(c.words) \in Int /\ LengthDelta(c) \in Int
           /\ Unique(c) \in Nat /\ Len(c.words) \in Nat
           /\ (c.words # << >> => Len(c.words) > 0)
<1> DEFINE D == DOMAIN c.words
           w == [i \in D |-> Size[c.words[i]]]
           f == [i \in D |-> Surface[c.words[i]]]
<1>1. c.words \in Seq(Word) /\ Len(c.words) \in Nat /\ D = 1 .. Len(c.words)
    BY DEF IsCandidate
<1>2. c.words # << >> => Len(c.words) > 0
    BY <1>1
<1>3. IsFiniteSet(D)
    <2>1. IsFiniteSet(1 .. Len(c.words))
        BY <1>1, FS_Interval
    <2> QED
        BY <1>1, <2>1
<1>4. w \in [D -> Int]
    BY <1>1, RankerAssumption
<1>5. SumFunction(w) \in Int
    <2> HIDE DEF w, D
    <2> QED
        BY <1>3, <1>4, SumType
<1>6. Characters(c.words) \in Int
    <2> HIDE DEF w, D
    <2> QED
        BY <1>1, <1>5 DEF Characters, w, D
<1>7. Unique(c) \in Nat
    <2>1. IsFiniteSet({f[i] : i \in D})
        <3> HIDE DEF f, D
        <3> QED
            BY <1>3, ImageFinite
    <2>2. {f[i] : i \in D} = {Surface[c.words[i]] : i \in DOMAIN c.words}
        OBVIOUS
    <2> HIDE DEF f, D
    <2> QED
        BY <2>1, <2>2, FS_CardinalityType DEF Unique
<1>8. c.original \in Nat
    BY DEF IsCandidate
<1> QED
    BY <1>1, <1>2, <1>6, <1>7, <1>8 DEF LengthDelta

\* A score is a number.
LEMMA ScoreType ==
    ASSUME NEW c, IsCandidate(c), NEW context, context.history \in Seq(LogRecord),
           NEW p, NEW X, p.accepted \in Seq(X), p.rejected \in Seq(X), p.disliked \in Seq(X),
           NEW risk \in Int
    PROVE  Score(c, context, p, risk) \in Int
<1>1. HistoricalSuccess(c, context.history) \in Int
    <2> DEFINE history == context.history
               similar == {i \in DOMAIN history : IF c.type # None THEN history[i].type = c.type
                                                  ELSE history[i].section = c.section}
               good == {i \in similar : Accepts(history[i])}
    <2>1. IsFiniteSet(DOMAIN history)
        BY FS_Interval
    <2>2. similar \in SUBSET DOMAIN history /\ good \in SUBSET similar
        OBVIOUS
    <2>3. HistoricalSuccess(c, history) = IF similar = {} THEN 50
                                          ELSE (100 * Cardinality(good)) \div Cardinality(similar)
        BY DEF HistoricalSuccess
    <2> HIDE DEF similar, good, history
    <2>4. IsFiniteSet(similar) /\ IsFiniteSet(good)
        BY <2>1, <2>2, FS_Subset
    <2>5. /\ Cardinality(similar) \in Nat /\ Cardinality(good) \in Nat
          /\ (similar # {} => Cardinality(similar) > 0)
        BY <2>4, FS_CardinalityType, FS_EmptySet
    <2>6. 100 * Cardinality(good) \in Int
        BY <2>5
    <2>7. HistoricalSuccess(c, history) \in Int
        BY <2>3, <2>5, <2>6, QuotientType
    <2> QED
        BY <2>7 DEF history
<1>2. \A keys \in Seq(X) : MentionedOf(c, keys) \in Nat
    <2> TAKE keys \in Seq(X)
    <2>1. IsFiniteSet(DOMAIN keys)
        BY FS_Interval
    <2> DEFINE hits == {i \in DOMAIN keys : Mentions(c, keys[i])}
    <2>2. IsFiniteSet(hits)
        BY <2>1, FS_Subset
    <2> QED
        BY <2>2, FS_CardinalityType DEF MentionedOf
<1>3. VoiceMatch(c, p) \in Int
    <2> DEFINE fits == \/ p.length = "shorter" /\ LengthDelta(c) <= 0
                       \/ p.length = "detailed" /\ LengthDelta(c) > 0
               a == MentionedOf(c, p.accepted)
               r == MentionedOf(c, p.rejected)
               d == MentionedOf(c, p.disliked)
    <2>1. VoiceMatch(c, p) = Clamp100(50 + 20 * a - 30 * r - 20 * d + (IF fits THEN 10 ELSE 0))
        BY DEF VoiceMatch
    <2>2. a \in Nat /\ r \in Nat /\ d \in Nat
        BY <1>2
    <2> HIDE DEF fits, a, r, d
    <2> QED
        BY <2>1, <2>2, ClampType
<1>4. Specificity(c) \in Int /\ Repetition(c) \in Int
    <2>1. c.words # << >> => (50 * Unique(c)) \div Len(c.words) \in Int
        BY LengthTypes, QuotientType
    <2>2. Len(c.words) > 1 => (100 * Unique(c)) \div Len(c.words) \in Int
        BY LengthTypes, QuotientType
    <2>3. Len(c.words) \in Nat
        BY LengthTypes
    <2> QED
        BY <2>1, <2>2, <2>3 DEF Specificity, Repetition
<1>5. SectionFit(c) \in Int
    <2> DEFINE n == Characters(c.words)
               a == (100 * (IF n > 40 THEN n - 40 ELSE 0)) \div 80
               b == (IF n > 200 THEN n - 200 ELSE 0) \div 2
    <2>1. n \in Int
        BY LengthTypes
    <2>2. a \in Int /\ b \in Int
        BY <2>1
    <2>3. SectionFit(c) =
            IF n = 0 THEN 0
            ELSE IF c.section \in {"skill", "certification"} THEN Clamp100(100 - a)
            ELSE IF n < 20 THEN 5 * n ELSE Clamp100(100 - b)
        BY DEF SectionFit
    <2> HIDE DEF n, a, b
    <2> QED
        BY <2>1, <2>2, <2>3, ClampType
<1>6. Clamp100(c.gain.ats) \in Int /\ Clamp100(c.gain.keyword) \in Int
      /\ Clamp100(LengthDelta(c) \div 2) \in Int
    <2>1. c.gain.ats \in Int /\ c.gain.keyword \in Int
        BY DEF IsCandidate
    <2>2. LengthDelta(c) \div 2 \in Int
        BY LengthTypes
    <2> QED
        BY <2>1, <2>2, ClampType
<1> DEFINE h == HistoricalSuccess(c, context.history)
           a == Clamp100(c.gain.ats)
           k == Clamp100(c.gain.keyword)
           v == VoiceMatch(c, p)
           s == Specificity(c)
           f == SectionFit(c)
           r == Repetition(c)
           l == Clamp100(LengthDelta(c) \div 2)
<1>7. Score(c, context, p, risk) =
        25 * h + 20 * a + 15 * k - 15 * risk + 10 * v + 8 * s + 7 * f - 10 * r - 5 * l
    BY DEF Score
<1>8. h \in Int /\ a \in Int /\ k \in Int /\ v \in Int /\ s \in Int /\ f \in Int /\ r \in Int
      /\ l \in Int
    BY <1>1, <1>3, <1>4, <1>5, <1>6
<1> HIDE DEF h, a, k, v, s, f, r, l
<1> QED
    BY <1>7, <1>8

\* What is ranked is a candidate the truth block lets through.
LEMMA RankedIsLetThrough ==
    ASSUME NEW n \in Nat, NEW candidates, DOMAIN candidates = 1 .. n,
           \A i \in 1 .. n : IsCandidate(candidates[i]),
           NEW context, context.history \in Seq(LogRecord), NEW index,
           NEW p, NEW X, p.accepted \in Seq(X), p.rejected \in Seq(X), p.disliked \in Seq(X)
    PROVE  \A c \in ToSet(Rank(candidates, context, p, index)) :
               /\ \E i \in 1 .. n : c = candidates[i]
               /\ UnsupportedClaimRisk(c, context.evidence, index) < 100
<1> DEFINE Risk(c) == UnsupportedClaimRisk(c, context.evidence, index)
           kept == {i \in DOMAIN candidates : Risk(candidates[i]) < 100}
           entry == [i \in kept |->
                        [score |-> Score(candidates[i], context, p, Risk(candidates[i])),
                         id |-> candidates[i].id, at |-> i]]
           scored == {entry[i] : i \in kept}
           before == {q \in scored \X scored : Better(q[1], q[2])}
           ranked == SortedBy(scored, before)
<1>1. Rank(candidates, context, p, index) = [k \in DOMAIN ranked |-> candidates[ranked[k].at]]
    <2>1. scored = {[score |-> Score(candidates[i], context, p, Risk(candidates[i])),
                     id |-> candidates[i].id, at |-> i] : i \in kept}
        OBVIOUS
    <2> HIDE DEF scored
    <2> QED
        BY <2>1 DEF Rank
<1>2. \A i \in kept : entry[i].score \in Int /\ entry[i].id \in Int /\ entry[i].at = i /\ i \in Int
    <2> TAKE i \in kept
    <2>1. IsCandidate(candidates[i]) /\ candidates[i].id \in Int /\ i \in 1 .. n
        BY DEF IsCandidate
    <2>2. Risk(candidates[i]) \in Int
        BY DEF UnsupportedClaimRisk
    <2>3. Score(candidates[i], context, p, Risk(candidates[i])) \in Int
        <3> HIDE DEF Risk
        <3> QED
            BY <2>1, <2>2, ScoreType
    <2> HIDE DEF Risk
    <2> QED
        BY <2>1, <2>3
<1>3. IsFiniteSet(kept) /\ \A i \in kept : i \in 1 .. n /\ Risk(candidates[i]) < 100
    <2>1. IsFiniteSet(1 .. n)
        BY FS_Interval
    <2>2. kept \in SUBSET (1 .. n)
        OBVIOUS
    <2>3. IsFiniteSet(kept)
        <3> HIDE DEF kept
        <3> QED
            BY <2>1, <2>2, FS_Subset
    <2> QED
        BY <2>3
<1> HIDE DEF entry, kept, Risk
<1>4. IsFiniteSet(scored)
    BY <1>3, ImageFinite
<1>5. \A x, y \in scored : <<x, y>> \in before <=> Better(x, y)
    OBVIOUS
<1>6. \A x \in scored : /\ x.score \in Int /\ x.id \in Int /\ x.at \in Int /\ x.at \in kept
                        /\ x = entry[x.at]
    BY <1>2
<1> HIDE DEF before, scored
<1>7. Orders(before, scored)
    <2>1. \A x \in scored : <<x, x>> \notin before
        BY <1>5, <1>6 DEF Better
    <2>2. \A x, y, z \in scored : <<x, y>> \in before /\ <<y, z>> \in before => <<x, z>> \in before
        <3> SUFFICES ASSUME NEW x \in scored, NEW y \in scored, NEW z \in scored,
                            Better(x, y), Better(y, z)
                     PROVE  Better(x, z)
            BY <1>5
        <3>1. /\ x.score \in Int /\ x.id \in Int /\ x.at \in Int
              /\ y.score \in Int /\ y.id \in Int /\ y.at \in Int
              /\ z.score \in Int /\ z.id \in Int /\ z.at \in Int
            BY <1>6
        <3> QED
            BY <3>1 DEF Better
    <2>3. \A x, y \in scored : x = y \/ <<x, y>> \in before \/ <<y, x>> \in before
        <3> SUFFICES ASSUME NEW x \in scored, NEW y \in scored, x # y
                     PROVE  Better(x, y) \/ Better(y, x)
            BY <1>5
        <3>1. x.at # y.at
            BY <1>6
        <3> QED
            BY <1>6, <3>1 DEF Better
    <2> QED
        BY <2>1, <2>2, <2>3 DEF Orders
<1>8. ranked \in Seq(scored)
    BY <1>4, <1>7, SortedByOrder
<1> HIDE DEF ranked
<1>9. \A k \in DOMAIN ranked : ranked[k].at \in kept
    BY <1>6, <1>8
<1> QED
    BY <1>1, <1>3, <1>9 DEF ToSet, Risk

-----------------------------------------------------------------------------
(* Learning: the truth block.                                               *)

\* A candidate that is let through and goes to a list has a claim that holds,
\* or none that is read, in the resume it is judged in.
LEMMA AppliedToList ==
    ASSUME NEW doc \in [Field -> Value], \A f \in Field : IsListField(f) => IsList(doc[f]),
           NEW c, IsCandidate(c), c.section # "summary", c.words # << >>
    PROVE  LET f == Slot[c.section]
           IN  /\ f \in Field /\ doc[f].items \in Seq(Seq(Word))
               /\ ApplyCandidate(doc, c) = [doc EXCEPT ![f] = List(Append(doc[f].items, c.words))]
<1> DEFINE f == Slot[c.section]
<1>1. f \in Field /\ IsListField(f) /\ c.words \in Seq(Word)
    BY RankerAssumption DEF IsCandidate
<1>2. IsList(doc[f]) /\ doc[f] \in Value
    BY <1>1
<1> HIDE DEF f
<1>3. ~IsText(doc[f])
    BY <1>2 DEF IsList, IsText
<1>4. doc[f].items \in Seq(Seq(Word))
    BY <1>2 DEF Value, IsList, Null
<1>5. [doc EXCEPT ![f] = List(Append(@.items, c.words))]
         = [doc EXCEPT ![f] = List(Append(doc[f].items, c.words))]
    BY <1>1
<1> QED
    BY <1>1, <1>3, <1>4, <1>5 DEF ApplyCandidate, f

ClaimAt(doc, g, claim) ==
    \/ IsText(doc[g]) /\ doc[g].words # << >> /\ claim = Claim(g, 0, doc[g].words)
    \/ /\ ~IsText(doc[g]) /\ IsList(doc[g])
       /\ \E i \in DOMAIN doc[g].items :
            doc[g].items[i] # << >> /\ claim = Claim(g, i, doc[g].items[i])

\* A claim of a resume is a text of it that is read, and not blank.
LEMMA ClaimsOf ==
    ASSUME NEW doc \in [Field -> Value], NEW claim
    PROVE  claim \in CollectClaims(doc) <=>
             \E g \in ClaimFields \cap Field : ClaimAt(doc, g, claim)
<1> DEFINE ClaimsIn(g) == IF IsText(doc[g])
                          THEN {c \in {Claim(g, 0, doc[g].words)} : c.words # <<>>}
                          ELSE IF IsList(doc[g])
                          THEN {c \in {Claim(g, i, doc[g].items[i]) : i \in DOMAIN doc[g].items} :
                                  c.words # <<>>}
                          ELSE {}
<1>1. CollectClaims(doc) = UNION {ClaimsIn(g) : g \in ClaimFields \cap Field}
    BY DEF CollectClaims
<1>2. \A g, i, words : Claim(g, i, words).words = words
    BY DEF Claim
<1>3. \A g \in ClaimFields \cap Field : claim \in ClaimsIn(g) <=> ClaimAt(doc, g, claim)
    BY <1>2 DEF ClaimAt
<1> HIDE DEF ClaimsIn
<1> QED
    BY <1>1, <1>3

\* A claim holds when the sections are preserved and its words hold.
LEMMA HoldsWhen ==
    ASSUME NEW doc, NEW claim, NEW evidence, NEW index
    PROVE  ClaimStatus(doc, claim, evidence, index) \notin FailingStatus <=>
             /\ SectionsPreserved(doc, evidence)
             /\ Classify(claim.words, evidence, index) \notin FailingStatus
BY DEF ClaimStatus, FailingStatus

Extended(doc, f, words) == [doc EXCEPT ![f] = List(Append(doc[f].items, words))]

Adds(doc, after, f, words, evidence) ==
    /\ after \in [Field -> Value]
    /\ \A g \in Field \ {f} : after[g] = doc[g]
    /\ \A claim \in CollectClaims(after) :
          \/ claim \in CollectClaims(doc)
          \/ claim.words = words /\ f \in ClaimFields
    /\ f \in ClaimFields /\ words # << >> =>
          \E claim \in CollectClaims(after) : claim.words = words
    /\ SectionsPreserved(doc, evidence) => SectionsPreserved(after, evidence)
    /\ Populated(after[f])

\* A list that gets one more item: its claims, and what it populates.
LEMMA OneMoreItem ==
    ASSUME NEW doc \in [Field -> Value], NEW f \in Field, IsList(doc[f]),
           doc[f].items \in Seq(Seq(Word)), NEW words \in Seq(Word), NEW evidence
    PROVE  Adds(doc, Extended(doc, f, words), f, words, evidence)
<1> DEFINE after == Extended(doc, f, words)
<1> DEFINE items == doc[f].items
           more == Append(items, words)
<1>1. /\ Len(items) \in Nat /\ more \in Seq(Seq(Word)) /\ Len(more) = Len(items) + 1
      /\ DOMAIN more = 1 .. (Len(items) + 1) /\ DOMAIN items = 1 .. Len(items)
      /\ more[Len(items) + 1] = words /\ \A i \in 1 .. Len(items) : more[i] = items[i]
    OBVIOUS
<1> HIDE DEF items, more, after
<1>2. more # << >>
    BY <1>1
<1>3. /\ List(more) \in Value /\ IsList(List(more)) /\ ~IsText(List(more))
      /\ List(more).items = more
    BY <1>1 DEF Value, List, IsList, IsText
<1>4. after[f] = List(more) /\ \A g \in Field \ {f} : after[g] = doc[g]
    BY DEF items, more, after, Extended
<1>5. after \in [Field -> Value]
    BY <1>3 DEF items, more, after, Extended
<1>6. ~IsText(doc[f])
    BY DEF IsList, IsText
<1>7. \A claim \in CollectClaims(after) :
         claim \in CollectClaims(doc) \/ (claim.words = words /\ f \in ClaimFields)
    <2> SUFFICES ASSUME NEW claim \in CollectClaims(after)
                 PROVE  claim \in CollectClaims(doc) \/ (claim.words = words /\ f \in ClaimFields)
        OBVIOUS
    <2>1. PICK g \in ClaimFields \cap Field : ClaimAt(after, g, claim)
        BY <1>5, ClaimsOf
    <2>2. CASE g # f
        <3>1. ClaimAt(doc, g, claim)
            BY <1>4, <2>1, <2>2 DEF ClaimAt
        <3> QED
            BY <3>1, ClaimsOf
    <2>3. CASE g = f
        <3>1. PICK i \in DOMAIN more : more[i] # << >> /\ claim = Claim(f, i, more[i])
            BY <1>3, <1>4, <2>1, <2>3 DEF ClaimAt
        <3>2. CASE i = Len(items) + 1
            BY <1>1, <2>3, <3>1, <3>2 DEF Claim
        <3>3. CASE i # Len(items) + 1
            <4>1. i \in DOMAIN doc[f].items /\ more[i] = doc[f].items[i]
                <5>1. i \in 1 .. Len(items)
                    BY <1>1, <3>3
                <5>2. i \in DOMAIN items /\ more[i] = items[i]
                    BY <1>1, <5>1
                <5> QED
                    BY <5>2 DEF items
            <4>2. ClaimAt(doc, f, claim)
                BY <1>6, <3>1, <4>1 DEF ClaimAt
            <4> QED
                BY <2>3, <4>2, ClaimsOf
        <3> QED
            BY <3>2, <3>3
    <2> QED
        BY <2>2, <2>3
<1>8. ASSUME f \in ClaimFields, words # << >>
      PROVE  \E claim \in CollectClaims(after) : claim.words = words
    <2>1. Claim(f, Len(items) + 1, words) \in CollectClaims(after)
        <3>1. after[f].items[Len(items) + 1] = words /\ Len(items) + 1 \in DOMAIN after[f].items
            BY <1>1, <1>3, <1>4
        <3>2. ClaimAt(after, f, Claim(f, Len(items) + 1, words))
            BY <1>3, <1>4, <1>8, <3>1 DEF ClaimAt
        <3> QED
            BY <1>5, <1>8, <3>2, ClaimsOf
    <2> QED
        BY <2>1 DEF Claim
<1>9. Populated(after[f])
    BY <1>2, <1>3, <1>4 DEF Populated
<1>10. \A g \in Field : Populated(doc[g]) => Populated(after[g])
    BY <1>4, <1>9
<1>11. SectionsPreserved(doc, evidence) => SectionsPreserved(after, evidence)
    BY <1>5, <1>10 DEF SectionsPreserved
<1> QED
    BY <1>4, <1>5, <1>7, <1>8, <1>9, <1>11 DEF Adds, after

\* What a candidate populates on its own it populates in any resume.
LEMMA GroundedStaysGrounded ==
    ASSUME NEW doc \in [Field -> Value], \A f \in Field : IsListField(f) => IsList(doc[f]),
           NEW c, IsCandidate(c), c.section # "summary", NEW evidence,
           UnsupportedClaimRisk(c, evidence, Seed) < 100, Failing(doc, evidence) = {}
    PROVE  Failing(ApplyCandidate(doc, c), evidence) = {}
<1>1. CASE c.words = << >>
    BY <1>1 DEF ApplyCandidate
<1>2. CASE c.words # << >>
    <2> DEFINE f == Slot[c.section]
               after == ApplyCandidate(doc, c)
               alone == ApplyCandidate(EmptyResume, c)
    <2>1. /\ EmptyResume \in [Field -> Value]
          /\ \A g \in Field : IsListField(g) => IsList(EmptyResume[g])
          /\ \A g \in Field : ~Populated(EmptyResume[g])
        <3>1. List(<< >>) \in Value /\ Text(<< >>) \in Value
            BY DEF Value, List, Text
        <3>2. IsList(List(<< >>)) /\ ~Populated(List(<< >>)) /\ ~Populated(Text(<< >>))
            BY DEF List, Text, IsList, IsText, Populated
        <3> QED
            BY <3>1, <3>2 DEF EmptyResume
    <2>2. /\ f \in Field /\ IsList(doc[f]) /\ IsList(EmptyResume[f]) /\ c.words \in Seq(Word)
          /\ doc[f].items \in Seq(Seq(Word)) /\ EmptyResume[f].items \in Seq(Seq(Word))
          /\ after = Extended(doc, f, c.words)
          /\ alone = Extended(EmptyResume, f, c.words)
        <3>1. c.words \in Seq(Word) /\ IsListField(f)
            BY RankerAssumption DEF IsCandidate
        <3>2. /\ f \in Field /\ doc[f].items \in Seq(Seq(Word))
              /\ after = Extended(doc, f, c.words)
            BY <1>2, AppliedToList DEF Extended
        <3>3. /\ EmptyResume[f].items \in Seq(Seq(Word))
              /\ alone = Extended(EmptyResume, f, c.words)
            BY <1>2, <2>1, AppliedToList DEF Extended
        <3> HIDE DEF f, after, alone
        <3> QED
            BY <2>1, <3>1, <3>2, <3>3
    <2> HIDE DEF f, after, alone
    <2>3. Adds(doc, after, f, c.words, evidence)
        BY <2>2, OneMoreItem
    <2>4. /\ Adds(EmptyResume, alone, f, c.words, evidence)
          /\ \A g \in Field \ {f} : ~Populated(alone[g])
        <3>1. Adds(EmptyResume, alone, f, c.words, evidence)
            BY <2>1, <2>2, OneMoreItem
        <3> QED
            BY <2>1, <3>1 DEF Adds
    <2>5. SectionsPreserved(alone, evidence) => SectionsPreserved(after, evidence)
        BY <2>3, <2>4 DEF SectionsPreserved, Adds
    <2>6. \A claim \in CollectClaims(alone) :
             ClaimStatus(alone, claim, evidence, Seed) \notin FailingStatus
        BY DEF UnsupportedClaimRisk, Statuses, alone
    <2>7. \A claim \in CollectClaims(doc) :
             ClaimStatus(doc, claim, evidence, Seed) \notin FailingStatus
        BY DEF Failing
    <2>8. \A claim \in CollectClaims(after) :
             ClaimStatus(after, claim, evidence, Seed) \notin FailingStatus
        <3> SUFFICES ASSUME NEW claim \in CollectClaims(after)
                     PROVE  ClaimStatus(after, claim, evidence, Seed) \notin FailingStatus
            OBVIOUS
        <3>1. CASE claim \in CollectClaims(doc)
            BY <2>3, <2>7, <3>1, HoldsWhen DEF Adds
        <3>2. CASE claim.words = c.words /\ f \in ClaimFields
            <4>1. PICK own \in CollectClaims(alone) : own.words = c.words
                BY <1>2, <2>4, <3>2 DEF Adds
            <4>2. SectionsPreserved(alone, evidence) /\ Classify(own.words, evidence, Seed) \notin FailingStatus
                BY <2>6, HoldsWhen
            <4> QED
                BY <2>5, <3>2, <4>1, <4>2, HoldsWhen
        <3> QED
            BY <2>3, <3>1, <3>2 DEF Adds
    <2> QED
        BY <2>8 DEF Failing, after
<1> QED
    BY <1>1, <1>2

\* The truth block looks at a candidate alone and still protects the resume it
\* goes to: a candidate surfaced for a list leaves a grounded resume grounded
\* (rank of ranker.py).
THEOREM SpecRankedKeepsTruth == LearningSpec => []RankedKeepsTruth
<1>1. LearningInv => RankedKeepsTruth
    <2> SUFFICES ASSUME LearningInv, NEW context \in RankContexts,
                        Failing(context.doc, context.evidence) = {},
                        NEW c \in ToSet(Ranked(context)), c.section # "summary"
                 PROVE  Failing(ApplyCandidate(context.doc, c), context.evidence) = {}
        BY DEF RankedKeepsTruth
    <2> DEFINE p == IF profile = None THEN EmptyProfile ELSE profile
               given == [evidence |-> context.evidence, history |-> log]
               n == Len(Candidates)
    <2>1. n \in Nat /\ DOMAIN Candidates = 1 .. n /\ \A i \in 1 .. n : IsCandidate(Candidates[i])
        BY LearningAssumption DEF IsCandidate
    <2>2. PICK X : p.accepted \in Seq(X) /\ p.rejected \in Seq(X) /\ p.disliked \in Seq(X)
        <3>1. CASE profile = None
            BY <3>1 DEF EmptyProfile
        <3>2. CASE profile # None
            <4> DEFINE records == SubSeq(log, 1, derived.log)
                       ps == SubSeq(pairs, 1, derived.pairs)
            <4>1. /\ derived \in [log : 0 .. Len(log), pairs : 0 .. Len(pairs), now : 0 .. now]
                  /\ profile = DerivePreferences(records, ps, derived.now)
                BY <3>2 DEF LearningInv, ProfileIsDerived
            <4>2. records \in Seq(LogRecord) /\ derived.now \in 0 .. MaxTime
                BY <4>1, ProfileAssumption DEF LearningInv
            <4> HIDE DEF records, ps
            <4>3. /\ profile.accepted \in Seq(CleanTerm) /\ profile.rejected \in Seq(CleanTerm)
                  /\ profile.disliked \in Seq(EditTypes(records))
                BY <4>1, <4>2, ProfileHasVotes
            <4>4. \A X, Y : Seq(X) \in SUBSET Seq(X \cup Y) /\ Seq(Y) \in SUBSET Seq(X \cup Y)
                OBVIOUS
            <4>5. LET X == CleanTerm \cup EditTypes(records)
                  IN  profile.accepted \in Seq(X) /\ profile.rejected \in Seq(X) /\ profile.disliked \in Seq(X)
                BY <4>3, <4>4
            <4> QED
                BY <3>2, <4>5
        <3> QED
            BY <3>1, <3>2
    <2>3. given.history \in Seq(LogRecord) /\ given.evidence = context.evidence
        BY DEF LearningInv
    <2>4. Ranked(context) = Rank(Candidates, given, p, Seed)
        BY DEF Ranked
    <2> HIDE DEF p, given, n
    <2>5. /\ \E i \in 1 .. n : c = Candidates[i]
          /\ UnsupportedClaimRisk(c, context.evidence, Seed) < 100
        <3>1. \A d \in ToSet(Rank(Candidates, given, p, Seed)) :
                 /\ \E i \in 1 .. n : d = Candidates[i]
                 /\ UnsupportedClaimRisk(d, given.evidence, Seed) < 100
            BY <2>1, <2>2, <2>3, RankedIsLetThrough
        <3> QED
            BY <2>3, <2>4, <3>1
    <2>6. IsCandidate(c)
        BY <2>1, <2>5
    <2>7. context.doc \in [Field -> Value] /\ \A f \in Field : IsListField(f) => IsList(context.doc[f])
        BY LearningAssumption
    <2> QED
        BY <2>5, <2>6, <2>7, GroundedStaysGrounded
<1> QED
    BY <1>1, SpecLearning, PTL

-----------------------------------------------------------------------------
(* Learning: the exemplars.                                                 *)

\* The place of a strength among the buckets is a number.
LEMMA BucketType ==
    ASSUME NEW name
    PROVE  BucketIndex(name) \in Int
<1> DEFINE I == {i \in 1 .. Len(Buckets) : Buckets[i] = name}
<1>1. I \in SUBSET Nat
    OBVIOUS
<1>2. I # {} => Min(I) \in Int
    <2> HIDE DEF I
    <2>1. I # {} => Min(I) \in I
        BY <1>1, MinOfNaturals
    <2>2. \A m \in I : m \in Nat /\ m \in Int
        BY <1>1
    <2> QED
        BY <2>1, <2>2
<1>3. SelectInSeq(Buckets, LAMBDA b : b = name) \in Int
    BY <1>2 DEF SelectInSeq
<1> QED
    BY <1>3 DEF BucketIndex

\* A record names finitely many terms.
LEMMA TermsFinite ==
    ASSUME NEW phrases \in SUBSET Phrase
    PROVE  IsFiniteSet(TermsOf(phrases))
<1> DEFINE sets == {PhraseWords[p] : p \in phrases}
<1>1. IsFiniteSet(phrases)
    BY ProfileAssumption, FS_Subset
<1>2. IsFiniteSet(sets)
    BY <1>1, ImageFinite
<1>3. \A s \in sets : IsFiniteSet(s)
    BY RankerAssumption
<1> HIDE DEF sets
<1>4. IsFiniteSet(UNION sets)
    BY <1>2, <1>3, FS_UNION
<1> QED
    BY <1>4 DEF TermsOf, sets

\* A finite set with an element has at least one.
LEMMA FiniteCount ==
    ASSUME NEW S, IsFiniteSet(S)
    PROVE  Cardinality(S) \in Nat /\ (S # {} => Cardinality(S) > 0)
<1>1. Cardinality(S) \in Nat
    BY FS_CardinalityType
<1>2. Cardinality(S) = 0 <=> S = {}
    BY FS_EmptySet
<1> QED
    BY <1>1, <1>2

\* A similarity is a number.
LEMMA SimilarityType ==
    ASSUME NEW edit, edit.target \subseteq Phrase, NEW r \in LogRecord
    PROVE  Similarity(edit, r) \in Int
<1> DEFINE a == TermsOf(edit.target)
           b == TermsOf(r.target)
           inter == a \cap b
           union == a \cup b
<1>1. IsFiniteSet(a) /\ IsFiniteSet(b)
    BY TermsFinite DEF LogRecord
<1> HIDE DEF a, b
<1>2. IsFiniteSet(inter) /\ IsFiniteSet(union)
    BY <1>1, FS_Intersection, FS_Union
<1>3. Cardinality(inter) \in Nat /\ Cardinality(union) \in Nat
      /\ (union # {} => Cardinality(union) > 0)
    <2> HIDE DEF inter, union
    <2> QED
        BY <1>2, FiniteCount
<1>4. Overlap12(a, b) \in Int
    <2>1. a # {} => union # {}
        OBVIOUS
    <2>2. Overlap12(a, b) = IF a = {} \/ b = {} THEN 0
                            ELSE (24 * Cardinality(inter)) \div Cardinality(union)
        BY DEF Overlap12
    <2> HIDE DEF inter, union
    <2>3. a # {} => (24 * Cardinality(inter)) \div Cardinality(union) \in Int
        BY <1>3, <2>1, QuotientType
    <2> QED
        BY <2>2, <2>3
<1> DEFINE x == BucketIndex(edit.strength)
           y == BucketIndex(RecordAggressiveness(r))
           sec == One(r.section = edit.section)
           typ == One(r.type = edit.type)
           o == Overlap12(a, b)
           d == Abs(x - y)
<1>5. x \in Int /\ y \in Int
    BY BucketType
<1>6. sec \in Int /\ typ \in Int
    BY DEF One
<1>7. d \in Int
    <2> HIDE DEF x, y
    <2> QED
        BY <1>5 DEF Abs
<1>8. Similarity(edit, r) = 36 * sec + 24 * typ + o + 12 - 6 * d
    BY DEF Similarity, a, b
<1>9. o \in Int
    BY <1>4
<1> HIDE DEF sec, typ, o, d
<1> QED
    BY <1>6, <1>7, <1>8, <1>9

\* The order of the timestamps is strict.
LEMMA NewerIrreflexive ==
    ASSUME NEW s \in Seq(Nat)
    PROVE  ~Newer(s, s)
<1> SUFFICES ASSUME NEW n \in 1 .. Len(s), n <= Len(s) => s[n] > s[n]
             PROVE  FALSE
    BY DEF Newer
<1>1. n \in Nat /\ Len(s) \in Nat /\ n <= Len(s) /\ s[n] \in Nat
    OBVIOUS
<1> QED
    BY <1>1

\* It is transitive: the first of the two differences decides.
DecidesAt(s, t, n) ==
    /\ n \in 1 .. Len(t) /\ n <= Len(s) + 1
    /\ \A i \in 1 .. n - 1 : s[i] = t[i]
    /\ n <= Len(s) => s[n] > t[n]

\* A timestamp: a sequence of numbers.
Letters(s) == Len(s) \in Nat /\ \A i \in Int : 1 <= i /\ i <= Len(s) => s[i] \in Int

LEMMA LettersOfNumbers ==
    ASSUME NEW s \in Seq(Nat)
    PROVE  Letters(s)
<1>1. Len(s) \in Nat /\ \A i \in 1 .. Len(s) : s[i] \in Nat
    OBVIOUS
<1> QED
    BY <1>1 DEF Letters

LEMMA FirstDecides ==
    ASSUME NEW s, NEW t, NEW u, Letters(s), Letters(t), Letters(u), NEW n, NEW m,
           DecidesAt(s, t, n), DecidesAt(t, u, m)
    PROVE  DecidesAt(s, u, IF n < m THEN n ELSE m)
<1>1. n \in Int /\ m \in Int /\ 1 <= n /\ 1 <= m /\ n <= Len(t) /\ m <= Len(u)
      /\ Len(s) \in Nat /\ Len(t) \in Nat /\ Len(u) \in Nat
    BY DEF DecidesAt, Letters
<1>2. \A i \in Int : 1 <= i /\ i < n => s[i] = t[i]
    BY <1>1 DEF DecidesAt
<1>3. \A i \in Int : 1 <= i /\ i < m => t[i] = u[i]
    BY <1>1 DEF DecidesAt
<1>4. (n <= Len(s) => s[n] > t[n]) /\ (m <= Len(t) => t[m] > u[m]) /\ n <= Len(s) + 1 /\ m <= Len(t) + 1
    BY DEF DecidesAt
<1>5. CASE n < m
    <2>1. t[n] = u[n]
        BY <1>1, <1>3, <1>5
    <2>2. n \in 1 .. Len(u)
        BY <1>1, <1>5
    <2>3. \A i \in 1 .. n - 1 : s[i] = u[i]
        BY <1>1, <1>2, <1>3, <1>5
    <2>4. n <= Len(s) => s[n] > u[n]
        BY <1>4, <2>1
    <2> QED
        BY <1>4, <1>5, <2>2, <2>3, <2>4 DEF DecidesAt
<1>6. CASE ~(n < m)
    <2>1. m \in 1 .. Len(u) /\ m <= Len(s) + 1 /\ m <= Len(t)
        BY <1>1, <1>4, <1>6
    <2>2. \A i \in 1 .. m - 1 : s[i] = u[i]
        BY <1>1, <1>2, <1>3, <1>6
    <2>3. ASSUME m <= Len(s) PROVE s[m] > u[m]
        <3>1. s[m] \in Int /\ t[m] \in Int /\ u[m] \in Int
            BY <1>1, <2>1, <2>3 DEF Letters
        <3>2. t[m] > u[m]
            BY <1>4, <2>1
        <3>3. CASE m = n
            BY <1>4, <2>3, <3>1, <3>2, <3>3
        <3>4. CASE m < n
            BY <1>1, <1>2, <3>2, <3>4
        <3> QED
            BY <1>1, <1>6, <3>3, <3>4
    <2> QED
        BY <1>6, <2>1, <2>2, <2>3 DEF DecidesAt
<1> QED
    BY <1>5, <1>6

LEMMA NewerTransitive ==
    ASSUME NEW s \in Seq(Nat), NEW t \in Seq(Nat), NEW u \in Seq(Nat), Newer(s, t), Newer(t, u)
    PROVE  Newer(s, u)
<1>1. \A v, w : Newer(v, w) <=> \E n : DecidesAt(v, w, n)
    BY DEF Newer, DecidesAt
<1>2. PICK n : DecidesAt(s, t, n)
    BY <1>1
<1>3. PICK m : DecidesAt(t, u, m)
    BY <1>1
<1>4. Letters(s) /\ Letters(t) /\ Letters(u)
    BY LettersOfNumbers
<1> QED
    BY <1>1, <1>2, <1>3, <1>4, FirstDecides

LEMMA SameItems ==
    ASSUME NEW s \in Seq(Nat), NEW t \in Seq(Nat), Len(s) = Len(t),
           \A i \in 1 .. Len(s) : s[i] = t[i]
    PROVE  s = t
    OBVIOUS

\* Any two are in that order: by their first difference, or by their length.
LEMMA NewerTotal ==
    ASSUME NEW s \in Seq(Nat), NEW t \in Seq(Nat), s # t
    PROVE  Newer(s, t) \/ Newer(t, s)
<1> DEFINE D == {i \in 1 .. Len(s) : i <= Len(t) /\ s[i] # t[i]}
<1>1. Len(s) \in Nat /\ Len(t) \in Nat /\ Letters(s) /\ Letters(t)
    BY LettersOfNumbers
<1>2. \A v, w, n : DecidesAt(v, w, n) => Newer(v, w)
    BY DEF Newer, DecidesAt
<1>3. CASE D # {}
    <2>1. PICK n \in D : \A k \in D : n <= k
        <3>1. D \in SUBSET Nat
            OBVIOUS
        <3> HIDE DEF D
        <3>2. Min(D) \in D /\ \A k \in D : Min(D) <= k
            BY <1>3, <3>1, MinOfNaturals
        <3> QED
            BY <3>2
    <2>2. n \in Int /\ 1 <= n /\ n <= Len(s) /\ n <= Len(t) /\ s[n] # t[n]
        BY <1>1, <2>1
    <2>3. s[n] \in Int /\ t[n] \in Int
        BY <1>1, <2>2 DEF Letters
    <2>4. \A i \in 1 .. n - 1 : s[i] = t[i]
        <3> SUFFICES ASSUME NEW i \in 1 .. n - 1, s[i] # t[i] PROVE FALSE
            OBVIOUS
        <3>1. i \in Int /\ 1 <= i /\ i < n
            BY <2>2
        <3>2. i \in D
            BY <1>1, <2>2, <3>1
        <3> HIDE DEF D
        <3> QED
            BY <2>1, <2>2, <3>1, <3>2
    <2> HIDE DEF D
    <2>5. s[n] > t[n] \/ t[n] > s[n]
        BY <2>2, <2>3
    <2>6. n \in 1 .. Len(s) /\ n \in 1 .. Len(t) /\ n <= Len(s) + 1 /\ n <= Len(t) + 1
        BY <1>1, <2>2
    <2>7. s[n] > t[n] => DecidesAt(s, t, n)
        BY <2>4, <2>6 DEF DecidesAt
    <2>8. t[n] > s[n] => DecidesAt(t, s, n)
        BY <2>4, <2>6 DEF DecidesAt
    <2> QED
        BY <1>2, <2>5, <2>7, <2>8
<1>4. CASE D = {}
    <2>1. \A i \in 1 .. Len(s) : i <= Len(t) => s[i] = t[i]
        BY <1>4
    <2> HIDE DEF D
    <2>2. Len(s) = Len(t) => s = t
        <3> SUFFICES ASSUME Len(s) = Len(t) PROVE s = t
            OBVIOUS
        <3>1. \A i \in 1 .. Len(s) : s[i] = t[i]
            BY <1>1, <2>1
        <3> QED
            BY <3>1, SameItems
    <2>3. ASSUME Len(s) < Len(t) PROVE DecidesAt(s, t, Len(s) + 1)
        <3>1. Len(s) + 1 \in 1 .. Len(t) /\ ~(Len(s) + 1 <= Len(s)) /\ (Len(s) + 1) - 1 = Len(s)
            BY <1>1, <2>3
        <3>2. \A i \in 1 .. Len(s) : s[i] = t[i]
            BY <1>1, <2>1, <2>3
        <3> QED
            BY <3>1, <3>2 DEF DecidesAt
    <2>4. ASSUME Len(t) < Len(s) PROVE DecidesAt(t, s, Len(t) + 1)
        <3>1. Len(t) + 1 \in 1 .. Len(s) /\ ~(Len(t) + 1 <= Len(t)) /\ (Len(t) + 1) - 1 = Len(t)
            BY <1>1, <2>4
        <3>2. \A i \in 1 .. Len(t) : t[i] = s[i]
            BY <1>1, <2>1, <2>4
        <3> QED
            BY <3>1, <3>2 DEF DecidesAt
    <2> QED
        BY <1>1, <1>2, <2>2, <2>3, <2>4
<1> QED
    BY <1>3, <1>4

\* Of two dates of one form, the one that sorts first is not the older.
LEMMA NewerIsNotOlder ==
    ASSUME NEW s \in Stamp, NEW t \in Stamp, Newer(s, t) \/ s = t
    PROVE  Form[s] # Form[t] \/ Undated \in {Instant[s], Instant[t]} \/ Instant[s] >= Instant[t]
<1> SUFFICES ASSUME Form[s] = Form[t], Undated \notin {Instant[s], Instant[t]}
             PROVE  Instant[s] >= Instant[t]
    OBVIOUS
<1>1. Instant[s] \in Nat /\ Instant[t] \in Nat
    BY ProfileAssumption DEF Stamp
<1>2. Letters(s) /\ Letters(t)
    <2>1. s \in Seq(Nat) /\ t \in Seq(Nat)
        BY ProfileAssumption DEF Stamp
    <2> QED
        BY <2>1, LettersOfNumbers
<1>3. CASE s = t
    BY <1>1, <1>3
<1>4. CASE Newer(s, t)
    <2> SUFFICES ASSUME Instant[s] < Instant[t] PROVE FALSE
        BY <1>1
    <2>1. PICK n \in (1 .. Len(s)) \cap (1 .. Len(t)) :
              s[n] < t[n] /\ \A i \in 1 .. n - 1 : s[i] = t[i]
        BY LearningAssumption
    <2>2. PICK m : DecidesAt(s, t, m)
        BY <1>4 DEF Newer, DecidesAt
    <2>3. /\ n \in Int /\ m \in Int /\ 1 <= n /\ 1 <= m /\ Len(s) \in Nat /\ Len(t) \in Nat
          /\ n <= Len(s) /\ n <= Len(t) /\ m <= Len(t)
        BY <1>2, <2>1, <2>2 DEF DecidesAt, Letters
    <2>4. s[n] \in Int /\ t[n] \in Int
        BY <1>2, <2>3 DEF Letters
    <2>5. \A i \in Int : 1 <= i /\ i < n => s[i] = t[i]
        BY <2>1, <2>3
    <2>6. (\A i \in Int : 1 <= i /\ i < m => s[i] = t[i]) /\ (m <= Len(s) => s[m] > t[m])
        BY <2>2, <2>3 DEF DecidesAt
    <2>7. s[n] < t[n]
        BY <2>1
    <2>8. CASE m < n
        <3>1. m <= Len(s) /\ s[m] \in Int /\ s[m] = t[m] /\ s[m] > t[m]
            BY <1>2, <2>3, <2>5, <2>6, <2>8 DEF Letters
        <3> QED
            BY <3>1
    <2>9. CASE m = n
        BY <2>3, <2>4, <2>6, <2>7, <2>9
    <2>10. CASE n < m
        BY <2>3, <2>4, <2>6, <2>7, <2>10
    <2> QED
        BY <2>3, <2>8, <2>9, <2>10
<1> QED
    BY <1>3, <1>4

\* The sort key of a past edit puts any two in one order.
LEMMA CloserOrders ==
    ASSUME NEW S, \A x \in S : /\ x.score \in Int /\ x.id \in Int /\ x.at \in Int
                               /\ x.time \in Stamp,
           \A x, y \in S : x.at = y.at => x = y
    PROVE  Orders({p \in S \X S : Closer(p[1], p[2])}, S)
<1> DEFINE before == {p \in S \X S : Closer(p[1], p[2])}
<1>1. \A x, y \in S : <<x, y>> \in before <=> Closer(x, y)
    OBVIOUS
<1> HIDE DEF before
<1>2. \A t \in Stamp : t \in Seq(Nat)
    BY ProfileAssumption DEF Stamp
<1>3. \A x \in S : ~Closer(x, x)
    <2> TAKE x \in S
    <2>1. x.score \in Int /\ x.id \in Int /\ x.at \in Int /\ ~Newer(x.time, x.time)
        BY <1>2, NewerIrreflexive
    <2> QED
        BY <2>1 DEF Closer
<1>4. \A x, y, z \in S : Closer(x, y) /\ Closer(y, z) => Closer(x, z)
    <2> SUFFICES ASSUME NEW x \in S, NEW y \in S, NEW z \in S, Closer(x, y), Closer(y, z)
                 PROVE  Closer(x, z)
        OBVIOUS
    <2>1. /\ x.score \in Int /\ x.id \in Int /\ x.at \in Int /\ x.time \in Stamp
          /\ y.score \in Int /\ y.id \in Int /\ y.at \in Int /\ y.time \in Stamp
          /\ z.score \in Int /\ z.id \in Int /\ z.at \in Int /\ z.time \in Stamp
        OBVIOUS
    <2>2. Newer(x.time, y.time) /\ Newer(y.time, z.time) => Newer(x.time, z.time)
        BY <1>2, <2>1, NewerTransitive
    <2> QED
        BY <2>1, <2>2 DEF Closer
<1>5. \A x, y \in S : x = y \/ Closer(x, y) \/ Closer(y, x)
    <2> SUFFICES ASSUME NEW x \in S, NEW y \in S, x # y
                 PROVE  Closer(x, y) \/ Closer(y, x)
        OBVIOUS
    <2>1. /\ x.score \in Int /\ x.id \in Int /\ x.at \in Int /\ x.time \in Stamp
          /\ y.score \in Int /\ y.id \in Int /\ y.at \in Int /\ y.time \in Stamp
          /\ x.at # y.at
        OBVIOUS
    <2>2. x.time = y.time \/ Newer(x.time, y.time) \/ Newer(y.time, x.time)
        BY <1>2, <2>1, NewerTotal
    <2> QED
        BY <2>1, <2>2 DEF Closer
<1> QED
    BY <1>1, <1>3, <1>4, <1>5 DEF Orders, before

\* The past edits by closeness, as retrieval ranks them.
ByCloseness(edit, records) ==
    LET scored == {[score |-> Similarity(edit, records[i]), time |-> records[i].time,
                    id |-> records[i].id, at |-> i] : i \in DOMAIN records}
        near   == {s \in scored : s.score > 0}
        order  == SortedBy(near, {p \in near \X near : Closer(p[1], p[2])})
    IN  [n \in DOMAIN order |-> records[order[n].at]]

NoBetter(edit, e, r) ==
    \/ Similarity(edit, e) > Similarity(edit, r)
    \/ /\ Similarity(edit, e) = Similarity(edit, r)
       /\ ~Newer(r.time, e.time)
       /\ \/ Form[e.time] # Form[r.time]
          \/ Undated \in {Instant[e.time], Instant[r.time]}
          \/ Instant[e.time] >= Instant[r.time]

\* Of two edits as similar, the one that sorts first is no worse.
LEMMA FirstIsNoWorse ==
    ASSUME NEW edit, NEW e, NEW r, e.time \in Stamp, r.time \in Stamp,
           Similarity(edit, e) = Similarity(edit, r), Newer(e.time, r.time) \/ e.time = r.time
    PROVE  NoBetter(edit, e, r)
<1>1. e.time \in Seq(Nat) /\ r.time \in Seq(Nat)
    BY ProfileAssumption DEF Stamp
<1>2. ~Newer(r.time, e.time)
    <2> SUFFICES ASSUME Newer(r.time, e.time) PROVE FALSE
        OBVIOUS
    <2>1. Newer(e.time, e.time)
        <3>1. CASE Newer(e.time, r.time)
            BY <1>1, <3>1, NewerTransitive
        <3> QED
            BY <3>1
    <2> QED
        BY <1>1, <2>1, NewerIrreflexive
<1>3. \/ Form[e.time] # Form[r.time]
      \/ Undated \in {Instant[e.time], Instant[r.time]}
      \/ Instant[e.time] >= Instant[r.time]
    BY NewerIsNotOlder
<1> QED
    BY <1>2, <1>3 DEF NoBetter

\* The ranked edits are those near enough, none before a better one.
LEMMA RankedByCloseness ==
    ASSUME NEW edit, edit.target \subseteq Phrase, NEW records \in Seq(LogRecord)
    PROVE  LET ranked == ByCloseness(edit, records)
           IN  /\ ranked \in Seq(ToSet(records))
               /\ \A m \in DOMAIN ranked : Similarity(edit, ranked[m]) > 0
               /\ \A j \in DOMAIN records : Similarity(edit, records[j]) > 0 =>
                     \E m \in DOMAIN ranked : ranked[m] = records[j]
               /\ \A k, m \in DOMAIN ranked : k < m => NoBetter(edit, ranked[k], ranked[m])
<1> DEFINE entry == [i \in DOMAIN records |->
                        [score |-> Similarity(edit, records[i]), time |-> records[i].time,
                         id |-> records[i].id, at |-> i]]
           near == {s \in {entry[i] : i \in DOMAIN records} : s.score > 0}
           before == {p \in near \X near : Closer(p[1], p[2])}
           order == SortedBy(near, before)
           ranked == ByCloseness(edit, records)
<1>1. ranked = [n \in DOMAIN order |-> records[order[n].at]]
    <2>1. {entry[i] : i \in DOMAIN records}
             = {[score |-> Similarity(edit, records[i]), time |-> records[i].time,
                 id |-> records[i].id, at |-> i] : i \in DOMAIN records}
        OBVIOUS
    <2> HIDE DEF entry
    <2> QED
        BY <2>1 DEF ByCloseness
<1>2. \A i \in DOMAIN records :
        /\ entry[i].score = Similarity(edit, records[i]) /\ entry[i].score \in Int
        /\ entry[i].time = records[i].time /\ entry[i].time \in Stamp
        /\ entry[i].id \in Int /\ entry[i].at = i /\ i \in Int
    <2> TAKE i \in DOMAIN records
    <2>1. records[i] \in LogRecord /\ i \in Int
        OBVIOUS
    <2>2. Similarity(edit, records[i]) \in Int
        BY <2>1, SimilarityType
    <2>3. records[i].time \in Stamp /\ records[i].id \in Nat
        BY <2>1 DEF LogRecord
    <2> QED
        BY <2>1, <2>2, <2>3
<1>3. IsFiniteSet(DOMAIN records)
    BY FS_Interval
<1> HIDE DEF entry
<1>4. \A x \in near : /\ x.at \in DOMAIN records /\ x = entry[x.at] /\ x.score > 0
    BY <1>2
<1>5. \A i \in DOMAIN records : entry[i].score > 0 => entry[i] \in near
    OBVIOUS
<1>6. IsFiniteSet(near)
    <2>1. IsFiniteSet({entry[i] : i \in DOMAIN records})
        BY <1>3, ImageFinite
    <2> QED
        BY <2>1, FS_Subset
<1> HIDE DEF near
<1>7. \A x, y \in near : <<x, y>> \in before => Closer(x, y)
    OBVIOUS
<1>8. Orders(before, near)
    <2>1. \A x \in near : /\ x.score \in Int /\ x.id \in Int /\ x.at \in Int
                           /\ x.time \in Stamp
        BY <1>2, <1>4
    <2>2. \A x, y \in near : x.at = y.at => x = y
        BY <1>4
    <2> QED
        BY <2>1, <2>2, CloserOrders
<1> HIDE DEF before, near
<1>9. /\ order \in Seq(near) /\ ToSet(order) = near
      /\ \A k, m \in DOMAIN order : k < m => <<order[k], order[m]>> \in before
    BY <1>6, <1>8, SortedByOrder
<1> HIDE DEF order
<1>10. \A m \in DOMAIN order : order[m] \in near
    BY <1>9
<1>11. DOMAIN ranked = DOMAIN order /\ \A m \in DOMAIN order : ranked[m] = records[order[m].at]
    BY <1>1
<1>12. Len(order) \in Nat /\ DOMAIN order = 1 .. Len(order)
    BY <1>9
<1>13. ranked \in Seq(ToSet(records))
    <2>1. \A m \in DOMAIN order : records[order[m].at] \in ToSet(records)
        BY <1>4, <1>10 DEF ToSet
    <2> QED
        BY <1>1, <1>12, <2>1
<1> HIDE DEF ranked
<1>14. \A m \in DOMAIN ranked : Similarity(edit, ranked[m]) > 0
    BY <1>2, <1>4, <1>10, <1>11
<1>15. \A j \in DOMAIN records : Similarity(edit, records[j]) > 0 =>
          \E m \in DOMAIN ranked : ranked[m] = records[j]
    <2> SUFFICES ASSUME NEW j \in DOMAIN records, Similarity(edit, records[j]) > 0
                 PROVE  \E m \in DOMAIN ranked : ranked[m] = records[j]
        OBVIOUS
    <2>1. entry[j] \in near
        BY <1>2, <1>5
    <2>2. PICK m \in DOMAIN order : order[m] = entry[j]
        BY <1>9, <2>1 DEF ToSet
    <2> QED
        BY <1>2, <1>11, <2>2
<1>16. \A k, m \in DOMAIN ranked : k < m => NoBetter(edit, ranked[k], ranked[m])
    <2> SUFFICES ASSUME NEW k \in DOMAIN ranked, NEW m \in DOMAIN ranked, k < m
                 PROVE  NoBetter(edit, ranked[k], ranked[m])
        OBVIOUS
    <2> DEFINE x == order[k]
               y == order[m]
    <2>1. Closer(x, y)
        BY <1>7, <1>9, <1>10, <1>11
    <2>2. /\ x.score = Similarity(edit, ranked[k]) /\ x.time = ranked[k].time
          /\ y.score = Similarity(edit, ranked[m]) /\ y.time = ranked[m].time
          /\ x.score \in Int /\ y.score \in Int
          /\ x.time \in Stamp /\ y.time \in Stamp
        BY <1>2, <1>4, <1>10, <1>11
    <2> HIDE DEF x, y
    <2>4. x.score > y.score \/ x.score = y.score
        BY <2>1 DEF Closer
    <2>5. Newer(x.time, y.time) \/ x.time = y.time \/ x.score > y.score
        BY <2>1 DEF Closer
    <2>6. CASE x.score > y.score
        BY <2>2, <2>6 DEF NoBetter
    <2>7. CASE x.score = y.score
        <3>1. Newer(x.time, y.time) \/ x.time = y.time
            BY <2>2, <2>5, <2>7
        <3> QED
            BY <2>2, <2>7, <3>1, FirstIsNoWorse
    <2> QED
        BY <2>4, <2>6, <2>7
<1> QED
    BY <1>13, <1>14, <1>15, <1>16 DEF ranked

\* At most one item is taken: the first of those selected.
LEMMA FirstOfThose ==
    ASSUME NEW X, NEW s \in Seq(X), NEW I
    PROVE  LET those == ItemsAt(s, I)
               taken == SubSeq(those, 1, Min({1, Len(those)}))
           IN  \A i \in DOMAIN taken : \E m \in DOMAIN s \cap I :
                   taken[i] = s[m] /\ \A k \in DOMAIN s \cap I : m <= k
<1> DEFINE those == ItemsAt(s, I)
           taken == SubSeq(those, 1, Min({1, Len(those)}))
           J == DOMAIN s \cap I
<1>1. those \in Seq(X) /\ ToSet(those) = {s[i] : i \in J}
    BY ItemsAtMembers
<1>2. J \in SUBSET Nat
    OBVIOUS
<1>3. CASE J = {}
    <2>1. those = << >>
        <3>1. ToSet(those) = {}
            BY <1>1, <1>3
        <3> HIDE DEF those
        <3> QED
            BY <1>1, <3>1 DEF ToSet
    <2>2. Min({1, 0}) = 0
        BY DEF Min
    <2>3. taken = << >>
        <3> HIDE DEF those
        <3>1. Len(those) = 0
            BY <2>1
        <3> QED
            BY <2>1, <2>2, <3>1
    <2>4. DOMAIN taken = {}
        <3> HIDE DEF taken
        <3> QED
            BY <2>3
    <2> HIDE DEF taken
    <2>5. \A i \in DOMAIN taken : \E m \in J : taken[i] = s[m] /\ \A k \in J : m <= k
        BY <2>4
    <2> QED
        BY <2>5 DEF taken, those
<1>4. CASE J # {}
    <2> DEFINE m == Min(J)
    <2>1. m \in J /\ \A k \in J : m <= k
        <3> HIDE DEF J
        <3> QED
            BY <1>2, <1>4, MinOfNaturals
    <2> HIDE DEF m
    <2>2. those # << >> /\ those[1] = s[m]
        BY <2>1, ItemsAtFirst
    <2> HIDE DEF those
    <2>3. Len(those) \in Nat /\ Len(those) >= 1
        BY <1>1, <2>2
    <2>4. Min({1, Len(those)}) = 1
        <3> DEFINE T == {1, Len(those)}
        <3>1. T \in SUBSET Nat /\ T # {} /\ 1 \in T /\ \A x \in T : x >= 1
            BY <2>3
        <3> HIDE DEF T
        <3>2. Min(T) \in T /\ Min(T) <= 1
            BY <3>1, MinOfNaturals
        <3>3. Min(T) >= 1 /\ Min(T) \in Nat
            BY <3>1, <3>2
        <3>4. Min(T) = 1
            BY <3>2, <3>3
        <3> QED
            BY <3>4 DEF T
    <2>5. \A i \in DOMAIN taken : taken[i] = those[1]
        <3>1. taken = SubSeq(those, 1, 1)
            BY <2>4
        <3> HIDE DEF taken
        <3>2. DOMAIN SubSeq(those, 1, 1) = 1 .. 1 /\ SubSeq(those, 1, 1)[1] = those[1]
            BY <1>1, <2>3
        <3> QED
            BY <3>1, <3>2
    <2> HIDE DEF taken
    <2>6. \A i \in DOMAIN taken : taken[i] = s[m]
        BY <2>2, <2>5
    <2> QED
        BY <2>1, <2>6 DEF taken, those
<1> QED
    BY <1>3, <1>4

\* The first of the past edits of a kind is as close as any of that kind.
LEMMA FirstIsClosest ==
    ASSUME NEW edit, edit.target \subseteq Phrase, NEW records \in Seq(LogRecord), NEW A
    PROVE  LET ranked == ByCloseness(edit, records)
               those == ItemsAt(ranked, {n \in DOMAIN ranked : ranked[n] \in A})
               taken == SubSeq(those, 1, Min({1, Len(those)}))
           IN  \A i \in DOMAIN taken, j \in DOMAIN records :
                   records[j] \in A => NoBetter(edit, taken[i], records[j])
<1> DEFINE ranked == ByCloseness(edit, records)
           I == {n \in DOMAIN ranked : ranked[n] \in A}
           those == ItemsAt(ranked, I)
           taken == SubSeq(those, 1, Min({1, Len(those)}))
<1>1. /\ ranked \in Seq(ToSet(records))
      /\ \A m \in DOMAIN ranked : Similarity(edit, ranked[m]) > 0
      /\ \A j \in DOMAIN records : Similarity(edit, records[j]) > 0 =>
            \E m \in DOMAIN ranked : ranked[m] = records[j]
      /\ \A k, m \in DOMAIN ranked : k < m => NoBetter(edit, ranked[k], ranked[m])
    BY RankedByCloseness
<1>2. \A r \in ToSet(records) : r \in LogRecord
    BY DEF ToSet
<1> HIDE DEF ranked
<1>3. \A i \in DOMAIN taken : \E m \in DOMAIN ranked \cap I :
         taken[i] = ranked[m] /\ \A k \in DOMAIN ranked \cap I : m <= k
    BY <1>1, FirstOfThose
<1> HIDE DEF taken
<1>4. ASSUME NEW i \in DOMAIN taken, NEW j \in DOMAIN records, records[j] \in A
      PROVE  NoBetter(edit, taken[i], records[j])
    <2>1. PICK m \in DOMAIN ranked \cap I :
             taken[i] = ranked[m] /\ \A k \in DOMAIN ranked \cap I : m <= k
        BY <1>3
    <2>2. ranked[m] \in LogRecord /\ records[j] \in LogRecord
        <3>1. ranked[m] \in ToSet(records)
            BY <1>1
        <3> QED
            BY <1>2, <3>1
    <2>3. /\ Similarity(edit, ranked[m]) \in Int /\ Similarity(edit, records[j]) \in Int
          /\ Similarity(edit, ranked[m]) > 0
        BY <1>1, <2>2, SimilarityType
    <2>4. CASE Similarity(edit, records[j]) > 0
        <3>1. PICK k \in DOMAIN ranked : ranked[k] = records[j]
            BY <1>1, <2>4
        <3>2. k \in I /\ m <= k
            BY <1>4, <2>1, <3>1
        <3>3. m \in Nat /\ k \in Nat
            BY <1>1
        <3>4. CASE m = k
            <4>1. taken[i] = records[j]
                BY <2>1, <3>1, <3>4
            <4>2. records[j].time \in Stamp
                BY <2>2 DEF LogRecord
            <4> QED
                BY <4>1, <4>2, FirstIsNoWorse
        <3>5. CASE m # k
            BY <1>1, <2>1, <3>1, <3>2, <3>3, <3>5
        <3> QED
            BY <3>4, <3>5
    <2>5. CASE ~(Similarity(edit, records[j]) > 0)
        BY <2>1, <2>3, <2>5 DEF NoBetter
    <2> QED
        BY <2>4, <2>5
<1>5. \A i \in DOMAIN taken, j \in DOMAIN records :
         records[j] \in A => NoBetter(edit, taken[i], records[j])
    BY <1>4
<1> QED
    BY <1>5 DEF taken, ranked

\* An exemplar is never further from the pending edit than a past edit of the
\* same outcome that was left out; at the same distance its timestamp is not the
\* lower text, nor an older date of the same form (retrieve_preference_context
\* of retrieval.py, whose sort compares the inverted characters).
THEOREM SpecExemplarsAreTheClosest == LearningSpec => []ExemplarsAreTheClosest
<1>1. LearningInv => ExemplarsAreTheClosest
    <2> SUFFICES ASSUME LearningInv, NEW edit \in PendingEdits
                 PROVE  LET found == Retrieve(edit, log, 1)
                        IN  /\ \A i \in DOMAIN found.accepted, j \in DOMAIN log :
                                  Accepts(log[j]) => NoBetter(edit, found.accepted[i], log[j])
                            /\ \A i \in DOMAIN found.rejected, j \in DOMAIN log :
                                  Dislikes(log[j]) => NoBetter(edit, found.rejected[i], log[j])
        BY DEF ExemplarsAreTheClosest, NoBetter
    <2> DEFINE ranked == ByCloseness(edit, log)
               good == {r \in ToSet(log) : Accepts(r)}
               bad  == {r \in ToSet(log) : Dislikes(r)}
               First(those) == SubSeq(those, 1, Min({1, Len(those)}))
    <2>1. edit.target \subseteq Phrase /\ log \in Seq(LogRecord)
        BY LearningAssumption DEF LearningInv
    <2>2. Retrieve(edit, log, 1) =
            [accepted |-> First(ItemsAt(ranked, {n \in DOMAIN ranked : Accepts(ranked[n])})),
             rejected |-> First(ItemsAt(ranked, {n \in DOMAIN ranked : Dislikes(ranked[n])}))]
        BY DEF Retrieve, ByCloseness
    <2>3. ranked \in Seq(ToSet(log))
        BY <2>1, RankedByCloseness
    <2> HIDE DEF ranked
    <2>4. \A n \in DOMAIN ranked : ranked[n] \in ToSet(log)
        BY <2>3
    <2>5. /\ {n \in DOMAIN ranked : Accepts(ranked[n])} = {n \in DOMAIN ranked : ranked[n] \in good}
          /\ {n \in DOMAIN ranked : Dislikes(ranked[n])} = {n \in DOMAIN ranked : ranked[n] \in bad}
        BY <2>4
    <2> DEFINE acc == First(ItemsAt(ranked, {n \in DOMAIN ranked : ranked[n] \in good}))
               rej == First(ItemsAt(ranked, {n \in DOMAIN ranked : ranked[n] \in bad}))
    <2>6. /\ \A j \in DOMAIN log : Accepts(log[j]) => log[j] \in good
          /\ \A j \in DOMAIN log : Dislikes(log[j]) => log[j] \in bad
        BY DEF ToSet
    <2> HIDE DEF good, bad
    <2>7. \A i \in DOMAIN acc, j \in DOMAIN log : log[j] \in good => NoBetter(edit, acc[i], log[j])
        BY <2>1, FirstIsClosest DEF ranked
    <2>8. \A i \in DOMAIN rej, j \in DOMAIN log : log[j] \in bad => NoBetter(edit, rej[i], log[j])
        BY <2>1, FirstIsClosest DEF ranked
    <2>9. Retrieve(edit, log, 1) = [accepted |-> acc, rejected |-> rej]
        BY <2>2, <2>5
    <2> HIDE DEF acc, rej
    <2> QED
        BY <2>6, <2>7, <2>8, <2>9
<1> QED
    BY <1>1, SpecLearning, PTL

-----------------------------------------------------------------------------
(* Learning: forgetting.                                                    *)

\* Weights a are not above weights b, for any of the keys.
NotAbove(a, b, K) == a \in [K -> Int] /\ b \in [K -> Int] /\ \A k \in K : a[k] <= b[k]

\* A signal weighs no more at a later time.
LEMMA DecayForgets ==
    ASSUME NEW t \in Stamp, NEW n \in 0 .. MaxTime, NEW m \in 0 .. MaxTime, n <= m
    PROVE  DecayWeight(t, m) <= DecayWeight(t, n)
<1>1. MaxTime \in Nat /\ Undated \notin Int
    BY ProfileAssumption
<1>2. DecayWeight(t, m) \in Nat /\ DecayWeight(t, m) <= FullWeight /\ FullWeight \in Nat
    <2>1. FullWeight \in Nat
        BY ProfileAssumption DEF FullWeight
    <2> QED
        BY <2>1, DecayWeightIs
<1> DEFINE at == Instant[t]
<1>3. at \in Nat \cup {Undated}
    BY ProfileAssumption DEF Stamp
<1>4. \A k \in {n, m} : DecayWeight(t, k) = IF Undated \in {at, k} \/ at > k THEN FullWeight
                                            ELSE Decay[k - at]
    BY DEF DecayWeight
<1> HIDE DEF at
<1>5. CASE at = Undated \/ at > n
    <2>1. DecayWeight(t, n) = FullWeight
        BY <1>4, <1>5
    <2> QED
        BY <1>2, <2>1
<1>6. CASE ~(at = Undated \/ at > n)
    <2>1. at \in Nat /\ at <= n /\ n # Undated /\ m # Undated /\ at # Undated /\ ~(at > m)
        BY <1>1, <1>3, <1>6
    <2>2. DecayWeight(t, n) = Decay[n - at] /\ DecayWeight(t, m) = Decay[m - at]
        BY <1>4, <2>1
    <2>3. n - at \in 0 .. MaxTime /\ m - at \in 0 .. MaxTime /\ n - at <= m - at
        BY <1>1, <2>1
    <2> QED
        BY <2>2, <2>3, ProfileAssumption
<1> QED
    BY <1>5, <1>6

\* Votes weigh no more at a later time.
LEMMA VotesForget ==
    ASSUME NEW records \in Seq(LogRecord), NEW n \in 0 .. MaxTime, NEW m \in 0 .. MaxTime, n <= m,
           NEW keys, NEW votes \in [keys \X DOMAIN records -> Nat]
    PROVE  NotAbove(WeighedVotes(keys, records, m, votes), WeighedVotes(keys, records, n, votes), keys)
<1> DEFINE D == DOMAIN records
           term(k, t) == [i \in D |-> votes[<<k, i>>] * DecayWeight(records[i].time, t)]
<1>1. IsFiniteSet(D)
    BY FS_Interval
<1>2. ASSUME NEW i \in D
      PROVE  /\ DecayWeight(records[i].time, n) \in Nat /\ DecayWeight(records[i].time, m) \in Nat
             /\ DecayWeight(records[i].time, m) <= DecayWeight(records[i].time, n)
    <2>1. records[i] \in LogRecord
        OBVIOUS
    <2>2. records[i].time \in Stamp
        BY <2>1 DEF LogRecord
    <2> QED
        BY <2>2, DecayWeightIs, DecayForgets
<1>3. ASSUME NEW k \in keys
      PROVE  /\ SumFunction(term(k, m)) \in Int /\ SumFunction(term(k, n)) \in Int
             /\ SumFunction(term(k, m)) <= SumFunction(term(k, n))
    <2> DEFINE a == term(k, m)
               b == term(k, n)
    <2>1. \A i \in D : a[i] \in Int /\ b[i] \in Int /\ a[i] <= b[i] /\ b[i] >= 0
        <3> TAKE i \in D
        <3> DEFINE x == DecayWeight(records[i].time, m)
                   y == DecayWeight(records[i].time, n)
                   v == votes[<<k, i>>]
        <3>1. a[i] = v * x /\ b[i] = v * y
            OBVIOUS
        <3>2. x \in Nat /\ y \in Nat /\ x <= y /\ v \in Nat
            BY <1>2, <1>3
        <3> HIDE DEF x, y, v, a, b
        <3>3. v * 0 = 0 /\ v * 0 <= v * y
            BY <3>2
        <3> QED
            BY <3>1, <3>2, <3>3, TimesKeeps
    <2>2. a \in [D -> Int] /\ b \in [D -> Int]
        <3>1. a = [i \in D |-> a[i]] /\ b = [i \in D |-> b[i]]
            OBVIOUS
        <3> HIDE DEF a, b
        <3> QED
            BY <2>1, <3>1
    <2> HIDE DEF a, b, D
    <2>3. SumFunction(a) \in Int /\ SumFunction(b) \in Int /\ SumFunction(a) <= SumFunction(b)
        BY <1>1, <2>1, <2>2, SumType, SumOfPart
    <2> QED
        BY <2>3 DEF a, b
<1>4. \A t : WeighedVotes(keys, records, t, votes) = [k \in keys |-> SumFunction(term(k, t))]
    BY DEF WeighedVotes
<1> HIDE DEF term
<1> QED
    BY <1>3, <1>4 DEF NotAbove

\* A lower weight is selected only when the higher one is.
LEMMA TierForgets ==
    ASSUME NEW x \in Int, NEW y \in Int, x <= y
    PROVE  /\ TierSelected(x) => TierSelected(y)
           /\ TierSelected(x) => x >= 0
<1>1. FullWeight \in Nat
    BY ProfileAssumption DEF FullWeight
<1> QED
    BY <1>1 DEF TierSelected, MODERATE

\* Lower weights select fewer keys, and the selected weigh less together.
LEMMA EmittedForgets ==
    ASSUME NEW K, IsFiniteSet(K), NEW a, NEW b, NotAbove(a, b, K)
    PROVE  Emitted(a) \in Int /\ Emitted(b) \in Int /\ Emitted(a) <= Emitted(b)
<1> DEFINE A == {k \in K : TierSelected(a[k])}
           B == {k \in K : TierSelected(b[k])}
           v == [k \in A |-> a[k]]
           w == [k \in B |-> b[k]]
<1>1. DOMAIN a = K /\ DOMAIN b = K /\ \A k \in K : a[k] \in Int /\ b[k] \in Int /\ a[k] <= b[k]
    BY DEF NotAbove
<1>2. Emitted(a) = SumFunction(v) /\ Emitted(b) = SumFunction(w)
    BY <1>1 DEF Emitted
<1>3. A \in SUBSET B /\ \A k \in B : b[k] >= 0
    BY <1>1, TierForgets
<1>4. IsFiniteSet(B) /\ IsFiniteSet(A)
    BY FS_Subset
<1>5. v \in [A -> Int] /\ w \in [B -> Int]
    BY <1>1
<1>6. (\A k \in A : v[k] <= w[k]) /\ \A k \in B : w[k] >= 0
    BY <1>1, <1>3
<1> HIDE DEF A, B, v, w
<1> QED
    BY <1>2, <1>3, <1>4, <1>5, <1>6, SumType, SumOfPart

\* Lower weights select no key that the higher ones do not.
LEMMA SelectionForgets ==
    ASSUME NEW K \in SUBSET ToSet(Alphabet), NEW a, NEW b, NotAbove(a, b, K)
    PROVE  ToSet(SortedByWeight(a)) \subseteq ToSet(SortedByWeight(b))
<1>1. a \in [K -> Int] /\ b \in [K -> Int] /\ \A k \in K : a[k] \in Int /\ b[k] \in Int /\ a[k] <= b[k]
    BY DEF NotAbove
<1>2. /\ ToSet(SortedByWeight(a)) = {k \in K : TierSelected(a[k])}
      /\ ToSet(SortedByWeight(b)) = {k \in K : TierSelected(b[k])}
    BY <1>1, SortedByWeightMembers
<1>3. \A k \in K : TierSelected(a[k]) => TierSelected(b[k])
    BY <1>1, TierForgets
<1> QED
    BY <1>2, <1>3

\* A pair weighs no more at a later time.
LEMMA PairForgets ==
    ASSUME NEW pair \in LogPair, NEW n \in 0 .. MaxTime, NEW m \in 0 .. MaxTime, n <= m
    PROVE  /\ PairWeight(pair, m) \in Nat /\ PairWeight(pair, n) \in Nat
           /\ PairWeight(pair, m) <= PairWeight(pair, n)
<1> DEFINE s == IF pair.strength > 0 THEN pair.strength ELSE 0
           d(t) == IF pair.time = None THEN FullWeight ELSE DecayWeight(pair.time, t)
           x == d(m)
           y == d(n)
<1>1. PairWeight(pair, m) = s * x /\ PairWeight(pair, n) = s * y
    BY DEF PairWeight
<1>2. s \in Nat
    BY DEF LogPair
<1>3. x \in Nat /\ y \in Nat /\ x <= y
    <2>1. FullWeight \in Nat
        BY ProfileAssumption DEF FullWeight
    <2>2. CASE pair.time = None
        BY <2>1, <2>2
    <2>3. CASE pair.time # None
        <3>1. pair.time \in Stamp
            BY <2>3 DEF LogPair
        <3> QED
            BY <2>3, <3>1, DecayWeightIs, DecayForgets
    <2> QED
        BY <2>2, <2>3
<1> HIDE DEF s, x, y
<1>4. s * x \in Nat /\ s * y \in Nat
    BY <1>2, <1>3
<1> QED
    BY <1>1, <1>2, <1>3, <1>4, TimesKeeps

\* So do the pairs of each key.
LEMMA PairsForget ==
    ASSUME NEW ps \in Seq(LogPair), NEW n \in 0 .. MaxTime, NEW m \in 0 .. MaxTime, n <= m
    PROVE  /\ IsFiniteSet(PairKeys(ps))
           /\ NotAbove(PairWeights(ps, m), PairWeights(ps, n), PairKeys(ps))
<1> DEFINE D == DOMAIN ps
           of(k) == {j \in D : <<ps[j].preferred, ps[j].rejected>> = k}
           term(k, t) == [i \in of(k) |-> PairWeight(ps[i], t)]
<1>1. IsFiniteSet(D)
    BY FS_Interval
<1>2. IsFiniteSet(PairKeys(ps))
    <2> DEFINE f == [i \in D |-> <<ps[i].preferred, ps[i].rejected>>]
    <2>1. PairKeys(ps) = {f[i] : i \in D}
        BY DEF PairKeys
    <2> HIDE DEF f, D
    <2> QED
        BY <1>1, <2>1, ImageFinite
<1>3. \A i \in D : /\ PairWeight(ps[i], m) \in Nat /\ PairWeight(ps[i], n) \in Nat
                   /\ PairWeight(ps[i], m) <= PairWeight(ps[i], n)
    <2> TAKE i \in D
    <2>1. ps[i] \in LogPair
        OBVIOUS
    <2> QED
        BY <2>1, PairForgets
<1>4. ASSUME NEW k
      PROVE  /\ SumFunction(term(k, m)) \in Int /\ SumFunction(term(k, n)) \in Int
             /\ SumFunction(term(k, m)) <= SumFunction(term(k, n))
    <2> DEFINE E == of(k)
               a == term(k, m)
               b == term(k, n)
    <2>1. IsFiniteSet(E) /\ E \in SUBSET E
        BY <1>1, FS_Subset
    <2>2. a \in [E -> Int] /\ b \in [E -> Int] /\ \A i \in E : a[i] <= b[i] /\ b[i] >= 0
        BY <1>3
    <2> HIDE DEF a, b, E
    <2>3. SumFunction(a) \in Int /\ SumFunction(b) \in Int /\ SumFunction(a) <= SumFunction(b)
        BY <2>1, <2>2, SumType, SumOfPart
    <2> QED
        BY <2>3 DEF a, b
<1>5. \A t : PairWeights(ps, t) = [k \in PairKeys(ps) |-> SumFunction(term(k, t))]
    BY DEF PairWeights
<1> HIDE DEF term
<1> QED
    BY <1>2, <1>4, <1>5 DEF NotAbove

\* The weight of the signals that are an upgrade.
UpgradesWeigh(s) == SumFunction([i \in DOMAIN s |-> s[i].weight * One(Upgrades(s[i]) # {})])

\* Signals of lower weights, of the same terms, weigh no more.
LEMMA SignalsForget ==
    ASSUME NEW a, NEW b, DOMAIN a = DOMAIN b, IsFiniteSet(DOMAIN a),
           \A i \in DOMAIN a :
              /\ a[i].removed = b[i].removed /\ a[i].added = b[i].added
              /\ a[i].weight \in Nat /\ b[i].weight \in Nat /\ a[i].weight <= b[i].weight
    PROVE  /\ UpgradesWeigh(a) \in Int /\ UpgradesWeigh(b) \in Int
           /\ UpgradesWeigh(a) <= UpgradesWeigh(b)
<1> DEFINE D == DOMAIN a
           v == [i \in D |-> a[i].weight * One(Upgrades(a[i]) # {})]
           w == [i \in D |-> b[i].weight * One(Upgrades(b[i]) # {})]
<1>1. UpgradesWeigh(a) = SumFunction(v) /\ UpgradesWeigh(b) = SumFunction(w)
    BY DEF UpgradesWeigh
<1>2. \A i \in D : v[i] \in Int /\ w[i] \in Int /\ v[i] <= w[i] /\ w[i] >= 0
    <2> TAKE i \in D
    <2> DEFINE c == One(Upgrades(a[i]) # {})
               x == a[i].weight
               y == b[i].weight
    <2>1. Upgrades(a[i]) = Upgrades(b[i])
        BY DEF Upgrades
    <2>2. v[i] = x * c /\ w[i] = y * c
        BY <2>1
    <2>3. c = 0 \/ c = 1
        BY DEF One
    <2>4. x \in Nat /\ y \in Nat /\ x <= y
        OBVIOUS
    <2> HIDE DEF c, x, y, v, w
    <2>5. CASE c = 0
        BY <2>2, <2>4, <2>5
    <2>6. CASE c = 1
        BY <2>2, <2>4, <2>6
    <2> QED
        BY <2>3, <2>5, <2>6
<1>3. v \in [D -> Int] /\ w \in [D -> Int]
    <2>1. v = [i \in D |-> v[i]] /\ w = [i \in D |-> w[i]]
        OBVIOUS
    <2> HIDE DEF v, w
    <2> QED
        BY <1>2, <2>1
<1>4. D \in SUBSET D /\ IsFiniteSet(D)
    OBVIOUS
<1> HIDE DEF v, w, D
<1> QED
    BY <1>1, <1>2, <1>3, <1>4, SumType, SumOfPart

\* The upgrades of records and pairs weigh no more at a later time.
LEMMA UpgradesForget ==
    ASSUME NEW records \in Seq(LogRecord), NEW ps \in Seq(LogPair),
           NEW n \in 0 .. MaxTime, NEW m \in 0 .. MaxTime, n <= m
    PROVE  LET early == UpgradeWeight(RecordSignals(records, n), PairSignals(ps, n))
               late  == UpgradeWeight(RecordSignals(records, m), PairSignals(ps, m))
           IN  early \in Int /\ late \in Int /\ late <= early
<1> DEFINE R(t) == RecordSignals(records, t)
           P(t) == PairSignals(ps, t)
           D == {j \in DOMAIN records : Accepts(records[j])}
           E == {j \in DOMAIN ps : PairTerms(ps[j]) # << >>}
<1>1. IsFiniteSet(D) /\ IsFiniteSet(E)
    <2>1. IsFiniteSet(DOMAIN records) /\ IsFiniteSet(DOMAIN ps)
        BY FS_Interval
    <2> QED
        BY <2>1, FS_Subset
<1>2. /\ UpgradesWeigh(R(m)) \in Int /\ UpgradesWeigh(R(n)) \in Int
      /\ UpgradesWeigh(R(m)) <= UpgradesWeigh(R(n))
    <2>1. \A i \in D : /\ DecayWeight(records[i].time, m) \in Nat /\ DecayWeight(records[i].time, n) \in Nat
                       /\ DecayWeight(records[i].time, m) <= DecayWeight(records[i].time, n)
        <3> TAKE i \in D
        <3>1. records[i] \in LogRecord
            OBVIOUS
        <3>2. records[i].time \in Stamp
            BY <3>1 DEF LogRecord
        <3> QED
            BY <3>2, DecayWeightIs, DecayForgets
    <2>2. DOMAIN R(m) = D /\ DOMAIN R(n) = D
        BY DEF RecordSignals
    <2>3. \A i \in D : /\ R(m)[i].removed = R(n)[i].removed /\ R(m)[i].added = R(n)[i].added
                       /\ R(m)[i].weight = DecayWeight(records[i].time, m)
                       /\ R(n)[i].weight = DecayWeight(records[i].time, n)
        BY DEF RecordSignals
    <2> HIDE DEF R, D
    <2> QED
        BY <1>1, <2>1, <2>2, <2>3, SignalsForget
<1>3. /\ UpgradesWeigh(P(m)) \in Int /\ UpgradesWeigh(P(n)) \in Int
      /\ UpgradesWeigh(P(m)) <= UpgradesWeigh(P(n))
    <2>1. \A i \in E : /\ PairWeight(ps[i], m) \in Nat /\ PairWeight(ps[i], n) \in Nat
                       /\ PairWeight(ps[i], m) <= PairWeight(ps[i], n)
        <3> TAKE i \in E
        <3>1. ps[i] \in LogPair
            OBVIOUS
        <3> QED
            BY <3>1, PairForgets
    <2>2. DOMAIN P(m) = E /\ DOMAIN P(n) = E
        BY DEF PairSignals
    <2>3. \A i \in E : /\ P(m)[i].removed = P(n)[i].removed /\ P(m)[i].added = P(n)[i].added
                       /\ P(m)[i].weight = PairWeight(ps[i], m)
                       /\ P(n)[i].weight = PairWeight(ps[i], n)
        BY DEF PairSignals
    <2> HIDE DEF P, E
    <2> QED
        BY <1>1, <2>1, <2>2, <2>3, SignalsForget
<1>4. \A t : UpgradeWeight(R(t), P(t)) = UpgradesWeigh(R(t)) + UpgradesWeigh(P(t))
    <2> HIDE DEF R, P
    <2> QED
        BY DEF UpgradeWeight, Weighed, UpgradesWeigh
<1> HIDE DEF D, E, R, P
<1>5. /\ UpgradeWeight(R(n), P(n)) \in Int /\ UpgradeWeight(R(m), P(m)) \in Int
      /\ UpgradeWeight(R(m), P(m)) <= UpgradeWeight(R(n), P(n))
    BY <1>2, <1>3, <1>4
<1> QED
    BY <1>5 DEF R, P

\* Whatever a profile is made of weighs no more at a later time.
LEMMA WeightsForget ==
    ASSUME NEW records \in Seq(LogRecord), NEW n \in 0 .. MaxTime, NEW m \in 0 .. MaxTime, n <= m
    PROVE  /\ NotAbove(Weights(CleanTerm, records, m, AcceptedVote),
                       Weights(CleanTerm, records, n, AcceptedVote), CleanTerm)
           /\ NotAbove(Weights(CleanTerm, records, m, RejectedVote),
                       Weights(CleanTerm, records, n, RejectedVote), CleanTerm)
           /\ NotAbove(Weights(EditTypes(records), records, m, PatternVote),
                       Weights(EditTypes(records), records, n, PatternVote), EditTypes(records))
           /\ NotAbove(Weights({"concise", "impactful"}, records, m, ToneVote),
                       Weights({"concise", "impactful"}, records, n, ToneVote), {"concise", "impactful"})
           /\ NotAbove(Weights({"shorter", "detailed"}, records, m, LengthVote),
                       Weights({"shorter", "detailed"}, records, n, LengthVote), {"shorter", "detailed"})
           /\ NotAbove(Weights({"aggressive", "minimal"}, records, m, StrengthVote),
                       Weights({"aggressive", "minimal"}, records, n, StrengthVote), {"aggressive", "minimal"})
<1>1. \A i \in DOMAIN records : records[i] \in LogRecord
    OBVIOUS
<1>2. NotAbove(Weights(CleanTerm, records, m, AcceptedVote),
              Weights(CleanTerm, records, n, AcceptedVote), CleanTerm)
    <2> DEFINE keys == CleanTerm
               votes == [q \in keys \X DOMAIN records |-> AcceptedVote(records[q[2]], q[1])]
    <2>1. votes \in [keys \X DOMAIN records -> Nat]
        BY <1>1, VotesOfRecord
    <2>2. \A k \in keys, i \in DOMAIN records : votes[<<k, i>>] = AcceptedVote(records[i], k)
        OBVIOUS
    <2> HIDE DEF votes, keys
    <2>3. \A t : Weights(keys, records, t, AcceptedVote) = WeighedVotes(keys, records, t, votes)
        BY <2>2 DEF Weights, WeighedVotes
    <2>4. NotAbove(Weights(keys, records, m, AcceptedVote), Weights(keys, records, n, AcceptedVote), keys)
        BY <2>1, <2>3, VotesForget
    <2> QED
        BY <2>4 DEF keys
<1>3. NotAbove(Weights(CleanTerm, records, m, RejectedVote),
              Weights(CleanTerm, records, n, RejectedVote), CleanTerm)
    <2> DEFINE keys == CleanTerm
               votes == [q \in keys \X DOMAIN records |-> RejectedVote(records[q[2]], q[1])]
    <2>1. votes \in [keys \X DOMAIN records -> Nat]
        BY <1>1, VotesOfRecord
    <2>2. \A k \in keys, i \in DOMAIN records : votes[<<k, i>>] = RejectedVote(records[i], k)
        OBVIOUS
    <2> HIDE DEF votes, keys
    <2>3. \A t : Weights(keys, records, t, RejectedVote) = WeighedVotes(keys, records, t, votes)
        BY <2>2 DEF Weights, WeighedVotes
    <2>4. NotAbove(Weights(keys, records, m, RejectedVote), Weights(keys, records, n, RejectedVote), keys)
        BY <2>1, <2>3, VotesForget
    <2> QED
        BY <2>4 DEF keys
<1>4. NotAbove(Weights(EditTypes(records), records, m, PatternVote),
              Weights(EditTypes(records), records, n, PatternVote), EditTypes(records))
    <2> DEFINE keys == EditTypes(records)
               votes == [q \in keys \X DOMAIN records |-> PatternVote(records[q[2]], q[1])]
    <2>1. votes \in [keys \X DOMAIN records -> Nat]
        BY <1>1, VotesOfRecord
    <2>2. \A k \in keys, i \in DOMAIN records : votes[<<k, i>>] = PatternVote(records[i], k)
        OBVIOUS
    <2> HIDE DEF votes, keys
    <2>3. \A t : Weights(keys, records, t, PatternVote) = WeighedVotes(keys, records, t, votes)
        BY <2>2 DEF Weights, WeighedVotes
    <2>4. NotAbove(Weights(keys, records, m, PatternVote), Weights(keys, records, n, PatternVote), keys)
        BY <2>1, <2>3, VotesForget
    <2> QED
        BY <2>4 DEF keys
<1>5. NotAbove(Weights({"concise", "impactful"}, records, m, ToneVote),
              Weights({"concise", "impactful"}, records, n, ToneVote), {"concise", "impactful"})
    <2> DEFINE keys == {"concise", "impactful"}
               votes == [q \in keys \X DOMAIN records |-> ToneVote(records[q[2]], q[1])]
    <2>1. votes \in [keys \X DOMAIN records -> Nat]
        BY <1>1, VotesOfRecord
    <2>2. \A k \in keys, i \in DOMAIN records : votes[<<k, i>>] = ToneVote(records[i], k)
        OBVIOUS
    <2> HIDE DEF votes, keys
    <2>3. \A t : Weights(keys, records, t, ToneVote) = WeighedVotes(keys, records, t, votes)
        BY <2>2 DEF Weights, WeighedVotes
    <2>4. NotAbove(Weights(keys, records, m, ToneVote), Weights(keys, records, n, ToneVote), keys)
        BY <2>1, <2>3, VotesForget
    <2> QED
        BY <2>4 DEF keys
<1>6. NotAbove(Weights({"shorter", "detailed"}, records, m, LengthVote),
              Weights({"shorter", "detailed"}, records, n, LengthVote), {"shorter", "detailed"})
    <2> DEFINE keys == {"shorter", "detailed"}
               votes == [q \in keys \X DOMAIN records |-> LengthVote(records[q[2]], q[1])]
    <2>1. votes \in [keys \X DOMAIN records -> Nat]
        BY <1>1, VotesOfRecord
    <2>2. \A k \in keys, i \in DOMAIN records : votes[<<k, i>>] = LengthVote(records[i], k)
        OBVIOUS
    <2> HIDE DEF votes, keys
    <2>3. \A t : Weights(keys, records, t, LengthVote) = WeighedVotes(keys, records, t, votes)
        BY <2>2 DEF Weights, WeighedVotes
    <2>4. NotAbove(Weights(keys, records, m, LengthVote), Weights(keys, records, n, LengthVote), keys)
        BY <2>1, <2>3, VotesForget
    <2> QED
        BY <2>4 DEF keys
<1>7. NotAbove(Weights({"aggressive", "minimal"}, records, m, StrengthVote),
              Weights({"aggressive", "minimal"}, records, n, StrengthVote), {"aggressive", "minimal"})
    <2> DEFINE keys == {"aggressive", "minimal"}
               votes == [q \in keys \X DOMAIN records |-> StrengthVote(records[q[2]], q[1])]
    <2>1. votes \in [keys \X DOMAIN records -> Nat]
        BY <1>1, VotesOfRecord
    <2>2. \A k \in keys, i \in DOMAIN records : votes[<<k, i>>] = StrengthVote(records[i], k)
        OBVIOUS
    <2> HIDE DEF votes, keys
    <2>3. \A t : Weights(keys, records, t, StrengthVote) = WeighedVotes(keys, records, t, votes)
        BY <2>2 DEF Weights, WeighedVotes
    <2>4. NotAbove(Weights(keys, records, m, StrengthVote), Weights(keys, records, n, StrengthVote), keys)
        BY <2>1, <2>3, VotesForget
    <2> QED
        BY <2>4 DEF keys
<1> QED
    BY <1>2, <1>3, <1>4, <1>5, <1>6, <1>7

\* A profile has a pattern when the upgrades have the weight for one.
LEMMA PatternsWhenSelected ==
    ASSUME NEW records, NEW ps
    PROVE  SpecificityPatterns(records, ps) # << >> <=> TierSelected(UpgradeWeight(records, ps))
<1>1. \A x : << x >> # << >>
    OBVIOUS
<1> QED
    BY <1>1 DEF SpecificityPatterns

\* The profile of the same records and pairs at a later time has forgotten.
Forgotten(later, earlier) ==
    /\ ToSet(later.accepted) \subseteq ToSet(earlier.accepted)
    /\ ToSet(later.rejected) \subseteq ToSet(earlier.rejected)
    /\ ToSet(later.disliked) \subseteq ToSet(earlier.disliked)
    /\ later.patterns # << >> => earlier.patterns # << >>
    /\ later.confidence <= earlier.confidence

\* A later derivation from the same records and pairs has forgotten.
LEMMA DeriveForgets ==
    ASSUME NEW records \in Seq(LogRecord), NEW ps \in Seq(LogPair),
           NEW n \in 0 .. MaxTime, NEW m \in 0 .. MaxTime, n <= m
    PROVE  Forgotten(DerivePreferences(records, ps, m), DerivePreferences(records, ps, n))
<1> DEFINE p(t) == DerivePreferences(records, ps, t)
           accepted(t) == Weights(CleanTerm, records, t, AcceptedVote)
           rejected(t) == Weights(CleanTerm, records, t, RejectedVote)
           disliked(t) == Weights(EditTypes(records), records, t, PatternVote)
           tone(t) == Weights({"concise", "impactful"}, records, t, ToneVote)
           length(t) == Weights({"shorter", "detailed"}, records, t, LengthVote)
           strength(t) == Weights({"aggressive", "minimal"}, records, t, StrengthVote)
           chosen(t) == PairWeights(ps, t)
           upgrade(t) == UpgradeWeight(RecordSignals(records, t), PairSignals(ps, t))
           term(t) == IF TierSelected(upgrade(t)) THEN upgrade(t) ELSE 0
<1>1. IsFiniteSet(CleanTerm) /\ IsFiniteSet(EditTypes(records))
    <2>1. IsFiniteSet(ToSet(Alphabet))
        BY ProfileAssumption, ToSetFinite
    <2> QED
        BY <2>1, KeysAreInTheAlphabet, FS_Subset
<1>2. /\ IsFiniteSet({"concise", "impactful"}) /\ IsFiniteSet({"shorter", "detailed"})
      /\ IsFiniteSet({"aggressive", "minimal"})
    <2>1. IsFiniteSet(ToSet(Alphabet))
        BY ProfileAssumption, ToSetFinite
    <2> QED
        BY <2>1, KeysAreInTheAlphabet, FS_Subset
<1>3. \A t : /\ p(t).accepted = SortedByWeight(accepted(t))
             /\ p(t).rejected = SortedByWeight(rejected(t))
             /\ p(t).disliked = SortedByWeight(disliked(t))
             /\ p(t).patterns = SpecificityPatterns(RecordSignals(records, t), PairSignals(ps, t))
             /\ p(t).confidence = Emitted(accepted(t)) + Emitted(rejected(t)) + Emitted(disliked(t))
                                  + Emitted(tone(t)) + Emitted(length(t)) + Emitted(strength(t))
                                  + Emitted(chosen(t)) + term(t)
    BY DEF DerivePreferences
<1>4. NotAbove(accepted(m), accepted(n), CleanTerm)
    BY WeightsForget
<1>5. NotAbove(rejected(m), rejected(n), CleanTerm)
    BY WeightsForget
<1>6. NotAbove(disliked(m), disliked(n), EditTypes(records))
    BY WeightsForget
<1>7. NotAbove(tone(m), tone(n), {"concise", "impactful"})
    BY WeightsForget
<1>8. NotAbove(length(m), length(n), {"shorter", "detailed"})
    BY WeightsForget
<1>9. NotAbove(strength(m), strength(n), {"aggressive", "minimal"})
    BY WeightsForget
<1>10. NotAbove(chosen(m), chosen(n), PairKeys(ps)) /\ IsFiniteSet(PairKeys(ps))
    BY PairsForget
<1>11. upgrade(m) \in Int /\ upgrade(n) \in Int /\ upgrade(m) <= upgrade(n)
    BY UpgradesForget
<1>12. \A t : p(t).patterns # << >> <=> TierSelected(upgrade(t))
    BY <1>3, PatternsWhenSelected
<1> HIDE DEF p, accepted, rejected, disliked, tone, length, strength, chosen, upgrade
<1>13. /\ ToSet(p(m).accepted) \subseteq ToSet(p(n).accepted)
       /\ ToSet(p(m).rejected) \subseteq ToSet(p(n).rejected)
       /\ ToSet(p(m).disliked) \subseteq ToSet(p(n).disliked)
    BY <1>3, <1>4, <1>5, <1>6, KeysAreInTheAlphabet, SelectionForgets
<1>14. p(m).patterns # << >> => p(n).patterns # << >>
    BY <1>11, <1>12, TierForgets
<1>15. term(m) \in Int /\ term(n) \in Int /\ term(m) <= term(n)
    BY <1>11, TierForgets
<1>16. Emitted(accepted(m)) \in Int /\ Emitted(accepted(n)) \in Int /\ Emitted(accepted(m)) <= Emitted(accepted(n))
    BY <1>1, <1>4, EmittedForgets
<1>17. Emitted(rejected(m)) \in Int /\ Emitted(rejected(n)) \in Int /\ Emitted(rejected(m)) <= Emitted(rejected(n))
    BY <1>1, <1>5, EmittedForgets
<1>18. Emitted(disliked(m)) \in Int /\ Emitted(disliked(n)) \in Int /\ Emitted(disliked(m)) <= Emitted(disliked(n))
    BY <1>1, <1>6, EmittedForgets
<1>19. Emitted(tone(m)) \in Int /\ Emitted(tone(n)) \in Int /\ Emitted(tone(m)) <= Emitted(tone(n))
    BY <1>2, <1>7, EmittedForgets
<1>20. Emitted(length(m)) \in Int /\ Emitted(length(n)) \in Int /\ Emitted(length(m)) <= Emitted(length(n))
    BY <1>2, <1>8, EmittedForgets
<1>21. Emitted(strength(m)) \in Int /\ Emitted(strength(n)) \in Int /\ Emitted(strength(m)) <= Emitted(strength(n))
    BY <1>2, <1>9, EmittedForgets
<1>22. Emitted(chosen(m)) \in Int /\ Emitted(chosen(n)) \in Int /\ Emitted(chosen(m)) <= Emitted(chosen(n))
    BY <1>10, <1>10, EmittedForgets
<1> HIDE DEF term
<1>23. p(m).confidence <= p(n).confidence
    <2> DEFINE sum(t) == Emitted(accepted(t)) + Emitted(rejected(t)) + Emitted(disliked(t))
                         + Emitted(tone(t)) + Emitted(length(t)) + Emitted(strength(t))
                         + Emitted(chosen(t)) + term(t)
    <2>1. p(m).confidence = sum(m) /\ p(n).confidence = sum(n)
        BY <1>3
    <2> DEFINE s1(t) == Emitted(accepted(t)) + Emitted(rejected(t))
               s2(t) == s1(t) + Emitted(disliked(t))
               s3(t) == s2(t) + Emitted(tone(t))
               s4(t) == s3(t) + Emitted(length(t))
               s5(t) == s4(t) + Emitted(strength(t))
               s6(t) == s5(t) + Emitted(chosen(t))
    <2>2. s1(m) \in Int /\ s1(n) \in Int /\ s1(m) <= s1(n)
        BY <1>16, <1>17, SumsKeep
    <2>3. s2(m) \in Int /\ s2(n) \in Int /\ s2(m) <= s2(n)
        <3> HIDE DEF s1
        <3> QED
            BY <2>2, <1>18, SumsKeep
    <2>4. s3(m) \in Int /\ s3(n) \in Int /\ s3(m) <= s3(n)
        <3> HIDE DEF s2
        <3> QED
            BY <2>3, <1>19, SumsKeep
    <2>5. s4(m) \in Int /\ s4(n) \in Int /\ s4(m) <= s4(n)
        <3> HIDE DEF s3
        <3> QED
            BY <2>4, <1>20, SumsKeep
    <2>6. s5(m) \in Int /\ s5(n) \in Int /\ s5(m) <= s5(n)
        <3> HIDE DEF s4
        <3> QED
            BY <2>5, <1>21, SumsKeep
    <2>7. s6(m) \in Int /\ s6(n) \in Int /\ s6(m) <= s6(n)
        <3> HIDE DEF s5
        <3> QED
            BY <2>6, <1>22, SumsKeep
    <2>8. s6(m) + term(m) <= s6(n) + term(n)
        <3> HIDE DEF s6
        <3> QED
            BY <1>15, <2>7, SumsKeep
    <2>9. sum(m) <= sum(n)
        BY <2>8
    <2> HIDE DEF sum
    <2> QED
        BY <2>1, <2>9
<1>24. Forgotten(p(m), p(n))
    BY <1>13, <1>14, <1>23 DEF Forgotten
<1> QED
    BY <1>24 DEF p

\* Without new records, time only forgets: a later refresh keeps no phrase and
\* no pattern the earlier profile had not, and is not more confident
\* (_decay_weight).
THEOREM SpecTimeOnlyForgets == LearningSpec => TimeOnlyForgets
<1> DEFINE Step == /\ derived # None
                   /\ derived' # derived
                   /\ derived'.log = derived.log /\ derived'.pairs = derived.pairs
                   => Forgotten(profile', profile)
<1>1. LearningInv /\ [LearningNext]_learningVars => [Step]_learningVars
    <2> SUFFICES ASSUME LearningInv, LearningNext, derived # None, derived' # derived,
                        derived'.log = derived.log, derived'.pairs = derived.pairs
                 PROVE  Forgotten(profile', profile)
        OBVIOUS
    <2>1. /\ derived' = [log |-> Len(log), pairs |-> Len(pairs), now |-> now]
          /\ profile' = DerivePreferences(log, pairs, now)
        BY DEF LearningNext, RecordEditFeedback, RefreshPreferences, TimePasses, AskRequirement,
               AnswerRequirement
    <2>2. /\ derived \in [log : 0 .. Len(log), pairs : 0 .. Len(pairs), now : 0 .. now]
          /\ profile = DerivePreferences(SubSeq(log, 1, derived.log),
                                         SubSeq(pairs, 1, derived.pairs), derived.now)
        BY DEF LearningInv, ProfileIsDerived
    <2>3. derived.log = Len(log) /\ derived.pairs = Len(pairs)
        BY <2>1
    <2>4. log \in Seq(LogRecord) /\ pairs \in Seq(LogPair) /\ now \in 0 .. MaxTime
        BY DEF LearningInv
    <2>5. SubSeq(log, 1, Len(log)) = log /\ SubSeq(pairs, 1, Len(pairs)) = pairs
        BY <2>4
    <2>6. derived.now \in 0 .. MaxTime /\ derived.now <= now
        BY <2>2, <2>4, ProfileAssumption
    <2> QED
        BY <2>1, <2>2, <2>3, <2>4, <2>5, <2>6, DeriveForgets
<1>2. [Step]_learningVars =>
         [/\ derived # None
          /\ derived' # derived
          /\ derived'.log = derived.log /\ derived'.pairs = derived.pairs
          => /\ ToSet(profile'.accepted) \subseteq ToSet(profile.accepted)
             /\ ToSet(profile'.rejected) \subseteq ToSet(profile.rejected)
             /\ ToSet(profile'.disliked) \subseteq ToSet(profile.disliked)
             /\ profile'.patterns # << >> => profile.patterns # << >>
             /\ profile'.confidence <= profile.confidence]_learningVars
    BY DEF Forgotten
<1> HIDE DEF Step
<1> QED
    BY <1>1, <1>2, SpecLearning, PTL DEF LearningSpec, TimeOnlyForgets
=============================================================================
