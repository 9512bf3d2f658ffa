---------------------------- MODULE AdminActions ----------------------------
(***************************************************************************)
(* The handlers that change the machine, and the entries they leave in the *)
(* audit log (audit/audit.go).  There are three families:                  *)
(*   "terminal"  terminal and terminal stream write the entry, then run    *)
(*               the command;                                              *)
(*   "pentest"   writes the entry, then runs the tool, and answers         *)
(*               "success" however the tool ended;                         *)
(*   "change"    services, packages, containers, firewall, cron and the    *)
(*               password run their command and write the entry only when  *)
(*               it reports success.                                       *)
(* A command may have changed the machine and still report an error: it is *)
(* killed when its time is up or its client is gone, or exits non-zero     *)
(* half-way.  The panel itself may die at any moment.                      *)
(***************************************************************************)
EXTENDS Naturals, Sequences, FiniteSets

CONSTANT Requests    \* requests for a change, each sent once

VARIABLES
    pc,          \* stage of each request's handler
    family,      \* which of the families it belongs to
    effect,      \* requests whose command changed the machine
    entries,     \* audit.log: the requests whose entry was appended
    lost,        \* requests whose entry could not be opened or written
    reply,       \* what the client was told
    before       \* history: the requests that had been answered "success"
                 \* when this one arrived

vars == <<pc, family, effect, entries, lost, reply, before>>

Stages == {"new", "check", "log", "run", "reply", "end"}
Families == {"terminal", "pentest", "change"}
LogsFirst == {"terminal", "pentest"}
Replies == {"none", "success", "error"}

Init ==
    /\ pc = [r \in Requests |-> "new"]
    /\ family \in [Requests -> Families]
    /\ effect = {}
    /\ entries = <<>>
    /\ lost = {}
    /\ reply = [r \in Requests |-> "none"]
    /\ before = [r \in Requests |-> {}]

-----------------------------------------------------------------------------
Go(r, from, to) ==
    /\ pc[r] = from
    /\ pc' = [pc EXCEPT ![r] = to]

Arrive(r) ==
    /\ Go(r, "new", "check")
    /\ before' = [before EXCEPT ![r] = {q \in Requests : reply[q] = "success"}]
    /\ UNCHANGED <<family, effect, entries, lost, reply>>

(* Validation: an empty, overlong, blocked or malformed request goes no
   further, in any family. *)
Reject(r) ==
    /\ Go(r, "check", "end")
    /\ reply' = [reply EXCEPT ![r] = "error"]
    /\ UNCHANGED <<family, effect, entries, lost, before>>

Accept(r) ==
    /\ Go(r, "check", IF family[r] \in LogsFirst THEN "log" ELSE "run")
    /\ UNCHANGED <<family, effect, entries, lost, reply, before>>

(* Logger.Log, one critical section of l.mu; it reports nothing back. *)
AfterLog(r) == IF family[r] \in LogsFirst THEN "run" ELSE "reply"

(* The step behind a command that has done its work, or is said to have. *)
AfterRun(r) == IF family[r] \in LogsFirst THEN "reply" ELSE "log"

(* Mutant: an append that reported an error after writing is tried again. *)
LogEntryRetried(r) ==
    /\ \E to \in {"log", AfterLog(r)} : Go(r, "log", to)
    /\ entries' = Append(entries, r)
    /\ Len(entries) < 3
    /\ UNCHANGED <<family, effect, lost, reply, before>>

LogEntry(r) ==
    /\ Go(r, "log", AfterLog(r))
    /\ entries' = Append(entries, r)
    /\ UNCHANGED <<family, effect, lost, reply, before>>

LogLost(r) ==
    /\ Go(r, "log", AfterLog(r))
    /\ lost' = lost \cup {r}
    /\ UNCHANGED <<family, effect, entries, reply, before>>

(* Mutant: the reply does not wait for the entry, which is written later. *)
RunSucceedsRepliesFirst(r) ==
    /\ Go(r, "run", AfterRun(r))
    /\ effect' = effect \cup {r}
    /\ reply' = [reply EXCEPT ![r] = IF family[r] = "change" THEN "success" ELSE @]
    /\ UNCHANGED <<family, entries, lost, before>>

(* The command did its work and said so. *)
RunSucceeds(r) ==
    /\ Go(r, "run", AfterRun(r))
    /\ effect' = effect \cup {r}
    /\ UNCHANGED <<family, entries, lost, reply, before>>

(* Mutant: the entry is written whether or not the command succeeded. *)
RunFailsLogs(r) ==
    /\ family[r] # "pentest"
    /\ Go(r, "run", IF family[r] = "terminal" THEN "end" ELSE "log")
    /\ reply' = [reply EXCEPT ![r] = "error"]
    /\ effect' \in {effect, effect \cup {r}}
    /\ UNCHANGED <<family, entries, lost, before>>

(* The command reported an error, whatever it had changed by then. *)
RunFails(r) ==
    /\ family[r] # "pentest"
    /\ Go(r, "run", "end")
    /\ reply' = [reply EXCEPT ![r] = "error"]
    /\ effect' \in {effect, effect \cup {r}}
    /\ UNCHANGED <<family, entries, lost, before>>

(* A tool that exits non-zero, is killed or is not installed: pentest.Run
   returns its output with the error in it, and no error. *)
ToolFails(r) ==
    /\ family[r] = "pentest"
    /\ Go(r, "run", "reply")
    /\ effect' \in {effect, effect \cup {r}}
    /\ UNCHANGED <<family, entries, lost, reply, before>>

(* The only error of pentest.Run: a tool it does not know is not started. *)
ToolUnsupported(r) ==
    /\ family[r] = "pentest"
    /\ Go(r, "run", "end")
    /\ reply' = [reply EXCEPT ![r] = "error"]
    /\ UNCHANGED <<family, effect, entries, lost, before>>

Reply(r) ==
    /\ Go(r, "reply", "end")
    /\ reply' = [reply EXCEPT ![r] = "success"]
    /\ UNCHANGED <<family, effect, entries, lost, before>>

(* The panel dies and is started again: every request in hand is cut off.
   A command that was running is not stopped with its parent. *)
Crash ==
    /\ \E more \in SUBSET {r \in Requests : pc[r] = "run"} : effect' = effect \cup more
    /\ pc' = [r \in Requests |-> IF pc[r] = "new" THEN "new" ELSE "end"]
    /\ UNCHANGED <<family, entries, lost, reply, before>>

Next ==
    \/ \E r \in Requests :
          \/ Arrive(r) \/ Reject(r) \/ Accept(r)
          \/ LogEntry(r) \/ LogLost(r)
          \/ RunSucceeds(r) \/ RunFails(r) \/ ToolFails(r) \/ ToolUnsupported(r)
          \/ Reply(r)
    \/ Crash

Spec == Init /\ [][Next]_vars

-----------------------------------------------------------------------------
Logged == {entries[i] : i \in DOMAIN entries}
Tried == Logged \cup lost     \* requests that got as far as l.Log

(* The shapes of the log and of a request in flight. *)
TypeOK ==
    /\ pc \in [Requests -> Stages]
    /\ family \in [Requests -> Families]
    /\ effect \subseteq Requests
    /\ entries \in Seq(Requests)
    /\ lost \subseteq Requests
    /\ reply \in [Requests -> Replies]
    /\ before \in [Requests -> SUBSET Requests]

(* Where each request stands between its command and its entry. *)
Progress ==
    \A r \in Requests :
        /\ pc[r] \in {"new", "check"} => r \notin Tried \cup effect
        /\ pc[r] = "log" => r \notin Tried /\ (family[r] = "change" <=> r \in effect)
        /\ pc[r] = "run" => r \notin effect /\ (family[r] \in LogsFirst <=> r \in Tried)
        /\ pc[r] = "reply" => r \in Tried /\ (family[r] # "pentest" => r \in effect)
        /\ reply[r] = "success" => pc[r] = "end"
        /\ pc[r] = "new" => before[r] = {}

(* Nothing done through the terminal or the pentest page is missing from the
   log unless the log could not be written, not even when the command timed
   out or the panel died; nothing the other pages have logged did not happen;
   and "success" was said only of what was put to the log and, by all but the
   pentest page, only of what happened. *)
Accounted ==
    \A r \in Requests :
        /\ family[r] \in LogsFirst /\ r \in effect => r \in Tried
        /\ family[r] = "change" /\ r \in Tried => r \in effect
        /\ reply[r] = "success" => r \in Tried /\ (family[r] # "pentest" => r \in effect)

(* The log keeps the order the operator saw: a request sent after another was
   answered "success" is entered behind it, across crashes too. *)
RealTimeOrder ==
    \A i, j \in DOMAIN entries : entries[i] \in before[entries[j]] => i < j

(* No request is entered twice. *)
EnteredOnce ==
    \A i, j \in DOMAIN entries : entries[i] = entries[j] => i = j

IInv ==
    /\ TypeOK /\ Progress /\ Accounted /\ RealTimeOrder /\ EnteredOnce
    /\ \A r \in Requests : \A q \in before[r] : reply[q] = "success"
=============================================================================
