--------------------------- MODULE MCLoginThrottle ---------------------------
(* Small instance of LoginThrottle: two connections, two attempts per window
   of two ticks, a clock of four: attempts fall out of the window while
   others are still in it.  Both connections come from one host. *)
EXTENDS LoginThrottle, TLC

CONSTANTS c1, c2, h1

MCConns == {c1, c2}
MCHostOf == [c \in MCConns |-> h1]
=============================================================================
