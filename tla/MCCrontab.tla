------------------------------ MODULE MCCrontab ------------------------------
(* Small instance of Crontab: two clients, two different job lines and tables
   of at most two jobs, so that an index can point at nothing, at the job that
   was meant and at another one; the operator edits the table at any time. *)
EXTENDS Crontab

CONSTANTS c1, c2, a, b, none

MCClients == {c1, c2}
MCLines == {a, b}
Symmetry == Permutations(MCClients) \cup Permutations(MCLines)
=============================================================================
