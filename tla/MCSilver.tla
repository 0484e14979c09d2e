------------------------------ MODULE MCSilver ------------------------------
(* Texts, and what the PII patterns match in them.                           *)
EXTENDS Silver

\* Texts with no match, one match, two apart, and two that overlap.
MCMatch(a, b, token) == [start |-> a, end |-> b, token |-> token]
MCText(length, matches) == [length |-> length, matches |-> matches]
MCTexts ==
  {MCText(4, <<>>), MCText(20, <<MCMatch(2, 13, 8)>>),
   MCText(30, <<MCMatch(0, 9, 8), MCMatch(12, 24, 10)>>),
   MCText(18, <<MCMatch(2, 16, 12), MCMatch(7, 16, 8)>>)}

\* An email address and the telephone number in it, whose token is longer: with this
\* text MatchesAreGone is refuted.
MCLongTokens == {MCText(20, <<MCMatch(0, 20, 7), MCMatch(4, 14, 12), MCMatch(5, 14, 8)>>)}
==============================================================================
