----------------------------- MODULE MCParsers -----------------------------
(* Parsers with texts of up to five characters that are a digit at either  *)
(* end, a letter, "x" or neither, ECIDs of 2^12 values and generators of   *)
(* four digits with up to one character too many or all of them missing,   *)
(* before memory that holds digits, "x" and digits, or something else.     *)
EXTENDS Parsers

MCChars == {0, 1, 9, 15, X, Other}

MCTexts == BoundedSeq(MCChars, 5)

MCGeneratorTexts ==
  {p \o t : p \in {<<0, X>>, <<0, Other>>, <<1, X>>, <<1, Other>>},
            t \in BoundedSeq({0, 9, 15, Other}, 5)}
    \cup {<<>>, <<0>>, <<1>>}

MCBehinds == {<<0, 9, 15, 1, 0>>, <<X, 0, 9, 15, 1>>, <<9, Other, 0, 0, 0>>}
=============================================================================
