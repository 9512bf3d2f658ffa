------------------------------ MODULE MCGather ------------------------------
(* Small instance of Gather: AllStatus on three entries of HCKPT_SERVICES, two
   of them the same unit. *)
EXTENDS Gather

MCJobs == 1 .. 3
MCNameOf == <<"ssh", "ssh", "cron">>
MCShows == [n \in {"ssh", "cron"} |-> {"active", "inactive"}]
=============================================================================
