--------------------------- MODULE MCDiagnostics ---------------------------
(* Small instance of Diagnostics: a job with a threshold, one that is empty
   when it finds nothing, and the ping.  Memory and load are as the disk. *)
EXTENDS Diagnostics

MCJobs == {"disk", "dns", "ping"}
MCNameOf == [j \in MCJobs |-> j]
MCShows ==
    [disk |-> {"fine", "high"}, dns |-> {"", "address"},
     ping |-> {"answers", "silent", "unreachable"}]
=============================================================================
