----------------------------- MODULE MCSummary ------------------------------
(***************************************************************************)
(* Summary on texts of a few letters.                                      *)
(***************************************************************************)
EXTENDS Summary

CONSTANTS
  MaxPieces,    \* bound: how many pieces a text is made of
  MaxLength     \* bound: the length of the texts over all the characters

SmallLower == [c \in Chars |-> IF c = "A" THEN "a" ELSE c]

(* 1000 ln n, rounded. *)
SmallLn == 0 :> -1000000 @@ <<0, 693, 1099, 1386>>

(* The stopwords: bb. *)
SmallStopwords == {<<"b", "b">>}

(* Three sentences, of which one is how the other two end, and a run of     *)
(* word characters that is no word and ends no sentence.                    *)
Pieces == {<<"a", "a", "b", ".">>, <<"b", ".">>, <<" ", "b", "a", " ", "A", "b", ".">>,
           <<"a", "b", "1">>}

Texts == {FlattenSeq(p) : p \in SeqOf(Pieces, MaxPieces)}

(* The texts before the last: none, the text itself, or another one.        *)
Before == {<<"b", "a", ".">>, <<"a", "a", "a", "b">>, <<"A", "b", "a", "a", "b">>}

SmallCollections ==
  {<<t>> : t \in Texts \union SeqOf({"a", "b", "A", "1", "."}, MaxLength)}
    \union {<<t, t>> : t \in Texts} \union (Before \X Texts)
=============================================================================
