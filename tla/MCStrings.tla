------------------------------ MODULE MCStrings ------------------------------
(* Small instances of Strings for TLC. *)
EXTENDS Strings, TLC

CONSTANTS n1, n2, b1, b2, b3, x, y

TwoStrings  == {n1, n2}
ThreeBlocks == {b1, b2, b3}
TwoTexts    == {<<x>>, <<x, y>>}

\* Blanks, signs and a digit; and a delimiter, a blank and both cases of a letter.
NumbersAndWords == {{" ", "-", "8"}, {"+", "8"}, {" ", ";", "a"}, {"a", "A"}}
Digits == "8" :> 8
LowerA == "A" :> "a"

Ports    == {<<"8", "0">>, <<"9">>, <<"1", "2", "3">>}
TrueText == <<"t", "r">>
Defaults == "t" :> <<"1", "2">> @@ "u" :> <<>> @@ "v" :> <<>>

\* What a call finds does not depend on the history: states that differ only in
\* it are one.  Str states what is about the last call as action properties, which
\* TLC checks at every step, whether or not it leads to a state already seen.
WithoutHistory == <<str, mem, view, err, fault, part, viewing, parsing>>

AnyName == Permutations(ThreeBlocks) \union Permutations(TwoStrings)
=============================================================================
