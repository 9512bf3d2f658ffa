------------------------------ MODULE MCPanel ------------------------------
(* Small instance of Panel: two requests under way at once on each page, which
   is what one reply needs to overtake another. *)
EXTENDS Panel

CONSTANTS w1, r1, r2, s1, s2, d1, d2

MCPages == {w1}
MCRequests == {r1, r2}
MCPorts == {"22"}
MCSubnets == {"net"}
MCDirs == {d1, d2}
MCNames == {"n"}
MCSlots == {s1, s2}
MCDetails == {<<>>, <<"x">>, <<"x", "nl", "x">>, <<"nl">>}
MCMarks == <<"e1", "e2", "e3", "e4">>
MCGlyphs == {"a", "UP"}
MCPhrases == {<<>>, <<"a">>, <<"UP">>, <<"a", " ", "UP">>}
MCChars == {"nl", " ", "x", "e1", "e2", "e3", "e4"}

MCSymmetry == Permutations(MCRequests) \cup Permutations(MCSlots)
=============================================================================
