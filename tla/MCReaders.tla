----------------------------- MODULE MCReaders -----------------------------
(* Small instance of Readers: one text after another, of words of one character. *)
EXTENDS Readers

MCGlyphs == {"a", "b"}
MCPhrases == {<<>>, <<"a">>, <<"b">>}
=============================================================================
