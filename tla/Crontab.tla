------------------------------- MODULE Crontab -------------------------------
(***************************************************************************)
(* cron/cron.go with its handlers and the page that calls them.  The table *)
(* belongs to crontab(1): the panel reads all of it with `crontab -l` and  *)
(* writes all of it back with `crontab -`, two processes with nothing held *)
(* in between, so the requests of several clients, and the operator's own  *)
(* `crontab -e`, interleave between the two.                               *)
(*                                                                         *)
(* A line is an abstract job; the lines List skips (comments and blanks)   *)
(* are one flag.  Positions count from 1, List's Index from 0.  Names that *)
(* AdminActions has too begin with Ct, so that one module can prove about  *)
(* both.                                                                   *)
(***************************************************************************)
EXTENDS Naturals, SequencesExt

CONSTANTS
    Clients,     \* open pages; each has at most one change in flight
    Lines,       \* job lines that pass Add's check
    NoLine,      \* "none"
    MaxJobs      \* bound on the length of the table

ASSUME CrontabAssumption == MaxJobs \in Nat /\ NoLine \notin Lines

VARIABLES
    jobs,        \* the job lines of the table, in order
    notes,       \* whether the table has lines that are not jobs
    view,        \* [Clients -> the list the page shows]
    stage,       \* stage of the request of each client
    op,          \* what it asks for
    line,        \* the line to add, or the line the user means to delete
    index,       \* the position to delete
    existing,    \* what List returned to Add or RemoveAt
    \* history, sets of clients: nothing has replaced the table since ...
    viewFresh,   \* ... the page got the list it shows
    aimFresh,    \* ... the page got the list the user clicked in
    listFresh    \* ... the request's own List, which did not fail

request == <<stage, op, line, index, existing, aimFresh, listFresh>>
ctVars == <<jobs, notes, view, viewFresh, request>>

CtStages == {"idle", "list", "install"}
Ops == {"none", "add", "remove"}

CtInit ==
    /\ jobs = <<>>
    /\ notes \in BOOLEAN
    /\ view = [c \in Clients |-> <<>>]
    /\ stage = [c \in Clients |-> "idle"]
    /\ op = [c \in Clients |-> "none"]
    /\ line = [c \in Clients |-> NoLine]
    /\ index = [c \in Clients |-> 0]
    /\ existing = [c \in Clients |-> <<>>]
    /\ viewFresh = {}
    /\ aimFresh = {}
    /\ listFresh = {}

(* List: the jobs of the table, or the empty list when the command fails or
   runs out of its six seconds.  The caller cannot tell an empty table from a
   failure. *)
ListResults == {jobs, <<>>}

Mark(set, c, yes) == IF yes THEN set \cup {c} ELSE set \ {c}

-----------------------------------------------------------------------------
(* The page.  loadCron shows what List returns; the button beside a line
   sends the line's index and nothing else. *)

Load(c) ==
    \E result \in ListResults :
        /\ view' = [view EXCEPT ![c] = result]
        /\ viewFresh' = Mark(viewFresh, c, result = jobs)
        /\ UNCHANGED <<jobs, notes, request>>

Begin(c, what, l, i, fresh) ==
    /\ stage[c] = "idle"
    /\ stage' = [stage EXCEPT ![c] = "list"]
    /\ op' = [op EXCEPT ![c] = what]
    /\ line' = [line EXCEPT ![c] = l]
    /\ index' = [index EXCEPT ![c] = i]
    /\ aimFresh' = Mark(aimFresh, c, fresh)
    /\ UNCHANGED <<jobs, notes, view, viewFresh, existing, listFresh>>

BeginAdd(c) == \E l \in Lines : Begin(c, "add", l, 0, FALSE)

BeginRemove(c) ==
    \E i \in DOMAIN view[c] : Begin(c, "remove", view[c][i], i, c \in viewFresh)

(* The request is answered, and its locals are gone. *)
CtReply(c) ==
    /\ stage' = [stage EXCEPT ![c] = "idle"]
    /\ op' = [op EXCEPT ![c] = "none"]
    /\ line' = [line EXCEPT ![c] = NoLine]
    /\ index' = [index EXCEPT ![c] = 0]
    /\ existing' = [existing EXCEPT ![c] = <<>>]

-----------------------------------------------------------------------------
(* Add and RemoveAt call List ... *)

(* Mutant: the check that the index was found is left out. *)
FoundUnchecked(c, result) == TRUE

Found(c, result) == op[c] = "remove" => index[c] \in DOMAIN result

ListJobs(c) ==
    /\ stage[c] = "list"
    /\ \E result \in ListResults :
          /\ Found(c, result)
          /\ existing' = [existing EXCEPT ![c] = result]
          /\ listFresh' = Mark(listFresh, c, result = jobs)
    /\ stage' = [stage EXCEPT ![c] = "install"]
    /\ UNCHANGED <<jobs, notes, view, viewFresh, op, line, index, aimFresh>>

(* "job not found" *)
NotFound(c) ==
    /\ stage[c] = "list"
    /\ \E result \in ListResults : ~Found(c, result)
    /\ CtReply(c)
    /\ aimFresh' = aimFresh \ {c}
    /\ UNCHANGED <<jobs, notes, view, viewFresh, listFresh>>

(* ... and then replace the table with the text built from what it returned,
   which holds none of the lines List skips. *)

(* Mutant: the new line is written before the others. *)
NewTableLineFirst(c) ==
    IF op[c] = "add" THEN <<line[c]>> \o existing[c]
                     ELSE RemoveAt(existing[c], index[c])

(* Mutant: the index of the request and that of List count from 0 and 1. *)
NewTableOffByOne(c) ==
    IF op[c] = "add" THEN Append(existing[c], line[c])
    ELSE IF index[c] + 1 \in DOMAIN existing[c] THEN RemoveAt(existing[c], index[c] + 1)
    ELSE existing[c]

NewTable(c) ==
    IF op[c] = "add" THEN Append(existing[c], line[c])
                     ELSE RemoveAt(existing[c], index[c])

Replace(table, comments) ==
    /\ Len(table) <= MaxJobs
    /\ jobs' = table
    /\ notes' = comments
    /\ viewFresh' = {}
    /\ aimFresh' = {}
    /\ listFresh' = {}

(* `crontab -` replaced the table.  The reply is success, or an error if the
   command was killed (timeout, client gone) once it had done so. *)
Install(c) ==
    /\ stage[c] = "install"
    /\ Replace(NewTable(c), FALSE)
    /\ CtReply(c)
    /\ UNCHANGED view

(* `crontab -` failed, or was killed before it replaced the table. *)
InstallFails(c) ==
    /\ stage[c] = "install"
    /\ CtReply(c)
    /\ aimFresh' = aimFresh \ {c}
    /\ listFresh' = listFresh \ {c}
    /\ UNCHANGED <<jobs, notes, view, viewFresh>>

-----------------------------------------------------------------------------
(* The operator's own edits: a job more, a job less, the comments. *)
CrontabE ==
    /\ \/ \E l \in Lines : Replace(Append(jobs, l), notes)
       \/ \E i \in DOMAIN jobs : Replace(RemoveAt(jobs, i), notes)
       \/ Replace(jobs, ~notes)
    /\ UNCHANGED <<view, stage, op, line, index, existing>>

CtNext ==
    \/ \E c \in Clients :
          \/ Load(c) \/ BeginAdd(c) \/ BeginRemove(c)
          \/ ListJobs(c) \/ NotFound(c)
          \/ Install(c) \/ InstallFails(c)
    \/ CrontabE

CrontabSpec == CtInit /\ [][CtNext]_ctVars

-----------------------------------------------------------------------------
(* The shapes of the table, of a page and of a request in flight. *)
CtTypeOK ==
    /\ jobs \in Seq(Lines)
    /\ notes \in BOOLEAN
    /\ view \in [Clients -> Seq(Lines)]
    /\ stage \in [Clients -> CtStages]
    /\ op \in [Clients -> Ops]
    /\ line \in [Clients -> Lines \cup {NoLine}]
    /\ index \in [Clients -> Nat]
    /\ existing \in [Clients -> Seq(Lines)]
    /\ viewFresh \subseteq Clients
    /\ aimFresh \subseteq Clients
    /\ listFresh \subseteq Clients

(* A request at its install is an addition of a line or a deletion of an index
   of the list it read. *)
Prepared ==
    \A c \in Clients :
        /\ stage[c] # "idle" => op[c] \in {"add", "remove"}
        /\ op[c] = "add" => line[c] \in Lines
        /\ stage[c] = "install" /\ op[c] = "remove" => index[c] \in DOMAIN existing[c]

(* What the history flags say: as long as nothing replaces the table, a page,
   a click and a list taken from it agree with it. *)
FreshAgrees ==
    \A c \in Clients :
        /\ c \in viewFresh => view[c] = jobs
        /\ stage[c] = "install" /\ c \in listFresh => existing[c] = jobs
        /\ stage[c] # "idle" /\ c \in aimFresh =>
              /\ op[c] = "remove"
              /\ index[c] \in DOMAIN jobs
              /\ line[c] = jobs[index[c]]

(* The inductive invariant behind the two properties below. *)
CtInv == CtTypeOK /\ Prepared /\ FreshAgrees

(* The step in which the client's request replaces the table. *)
Installing(c, what) == Install(c) /\ op[c] = what

(* Add keeps every job, in order, and puts the new one last, provided that its
   List did not fail and nobody replaced the table between its List and its
   `crontab -` (cron.Add). *)
UnracedAddAppends ==
    [][\A c \in Clients :
          Installing(c, "add") /\ c \in listFresh => jobs' = Append(jobs, line[c])]_ctVars

(* RemoveAt deletes the very job whose button was clicked, and no other,
   provided that nobody replaced the table between the page's list and the
   `crontab -` (cron.RemoveAt, cronRemove). *)
UnracedRemoveExact ==
    [][\A c \in Clients :
          Installing(c, "remove") /\ c \in listFresh /\ c \in aimFresh =>
              /\ jobs[index[c]] = line[c]
              /\ jobs' = RemoveAt(jobs, index[c])]_ctVars

(* What the comment on Add says, without the provisos: it appends a line to
   the crontab, and the rest of the crontab stays. *)
AddAppends ==
    [][\A c \in Clients :
          Installing(c, "add") => jobs' = Append(jobs, line[c]) /\ notes' = notes]_ctVars
=============================================================================
