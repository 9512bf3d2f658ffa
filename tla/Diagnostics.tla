---------------------------- MODULE Diagnostics ----------------------------
(***************************************************************************)
(* diagnostics.Run: the report made from what the collectors gathered.     *)
(* A measured value is how it compares with its threshold: "fine", "high"; *)
(* a value that is no number reads as 0 (Atoi and ParseFloat with their    *)
(* errors dropped) and 0 is below every threshold.                         *)
(***************************************************************************)
EXTENDS Gather

(* The standard output of the ping job, by words.  ping writes statistics to
   it unless it cannot send at all; echo adds the last word. *)
PingOutput(p) ==
    CASE p = "answers"     -> <<"statistics", "ok">>
      [] p = "silent"      -> <<"statistics", "fail">>
      [] p = "unreachable" -> <<"fail">>
      [] p = Failed        -> <<Failed>>

(* The report, once the caller has filled its map. *)
Report ==
    [disk_ok    |-> raw["disk"] # "high",
     dns_ok     |-> raw["dns"] \notin {"", Failed},
     network_ok |-> PingOutput(raw["ping"]) = <<"ok">>]

(* What the diagnostics page says of the field: NETWORK, Ping 8.8.8.8, OK or
   FAIL.  So an answered ping is OK. *)
NetworkTellsPing ==
    stage = "replied" /\ raw["ping"] = "answers" => Report.network_ok
=============================================================================
