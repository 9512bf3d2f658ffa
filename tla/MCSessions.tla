----------------------------- MODULE MCSessions -----------------------------
(* Small instance of Sessions: two connections, two tokens, a lifetime of two
   ticks and a clock of four, so a session can open, expire and be swept while
   a second one is still being used. *)
EXTENDS Sessions, TLC

CONSTANTS c1, c2, t1, t2, none

MCConns == {c1, c2}
MCTokens == {t1, t2}
=============================================================================
