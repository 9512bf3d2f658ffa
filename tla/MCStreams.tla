------------------------------ MODULE MCStreams ------------------------------
(* Small instance of Streams: a terminal request of either kind with a command
   of at most two lines, and a dashboard, so that the end of the process finds
   none, one or both of them under way. *)
EXTENDS Streams

CONSTANTS t1, d1

MCTerminals == {t1}
MCDashboards == {d1}
=============================================================================
