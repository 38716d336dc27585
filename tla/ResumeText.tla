----------------------------- MODULE ResumeText -----------------------------
(***************************************************************************)
(* The text a resume is made of.  A text is the sequence of its words, a   *)
(* value stored at a resume path is a text, a list of texts, or null, and  *)
(* two texts are compared through the two conversions the code uses: the   *)
(* case fold (surface form) and the stemmed normal form of each word.      *)
(***************************************************************************)
EXTENDS Naturals, Items

CONSTANTS
    Word,       \* the words a text is written with
    Surface,    \* word -> its case-folded form (str.casefold, surface_form)
    Stem        \* word -> its stemmed normal form (terms.normalize)

ASSUME WordFormsAssumption ==
    /\ DOMAIN Surface = Word
    /\ DOMAIN Stem = Word
    \* normalize stems the surface form, so equal surfaces have equal stems
    /\ \A v, w \in Word : Surface[v] = Surface[w] => Stem[v] = Stem[w]

Text(words)  == [words |-> words]
List(items)  == [items |-> items]
Null         == [null |-> TRUE]

Value == [words : Seq(Word)] \cup [items : Seq(Seq(Word))] \cup {Null}

IsText(v) == DOMAIN v = {"words"}
IsList(v) == DOMAIN v = {"items"}

\* The comparison keys of a text: str.casefold, and terms.normalize.
Fold(words)      == [i \in DOMAIN words |-> Surface[words[i]]]
Normalize(words) == [i \in DOMAIN words |-> Stem[words[i]]]

\* _verify_original_matches: a missing original passes, a non-text on either
\* side fails, and two texts agree when their case folds do.
OriginalMatches(actual, expected) ==
    \/ expected = Null
    \/ /\ IsText(expected)
       /\ IsText(actual)
       /\ Fold(actual.words) = Fold(expected.words)
=============================================================================
