---------------------------- MODULE MCSimhashIndex ----------------------------
(***************************************************************************)
(* A small instance of SimhashIndex for TLC: six bits in four parts, so    *)
(* that the parts outnumber the distance by one as in the code; texts of   *)
(* no, one, two and three shingles.                                        *)
(***************************************************************************)
EXTENDS SimhashIndex

SixBits == 1..6
FourParts == 1..4
TwoOrOne == [b \in SixBits |-> IF b > 4 THEN b - 4 ELSE b]

(* Fingerprints close to 0 and close to all ones, and some between.        *)
Extremes == {h \in SUBSET SixBits : Cardinality(h) <= 1 \/ Cardinality(h) >= 4}
Short == {<<>>} \union {<<h>> : h \in Extremes}
Voting == {<<{1, 2, 3}, {1, 2, 4}, {1, 5}>>, <<{1, 2}, {2, 3}>>}
SomeTexts == Short \union Voting
=============================================================================
