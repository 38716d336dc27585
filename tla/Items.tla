-------------------------------- MODULE Items --------------------------------
(* Selecting items of a list, as the comprehensions of the code do, and      *)
(* sorting, as sorted and list.sort do with a key.                           *)
EXTENDS Integers, Sequences, SequencesExt

\* The items of s at the positions in I, in their order.
ItemsAt(s, I) ==
    FoldLeft(LAMBDA out, i : IF i \in I THEN Append(out, s[i]) ELSE out,
             <<>>, [i \in DOMAIN s |-> i])

\* The elements of S, each after all those that come before it: the k-th has k - 1.
SortedBy(S, before) ==
    [k \in 1 .. Cardinality(S) |->
        CHOOSE x \in S : Cardinality({y \in S : <<y, x>> \in before}) = k - 1]
=============================================================================
