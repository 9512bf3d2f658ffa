------------------------------- MODULE Streams -------------------------------
(***************************************************************************)
(* The long requests and the end of the process: terminal.Run and          *)
(* terminal.Stream behind their handlers, the dashboard stream             *)
(* (handleSystemStream) and the Shutdown of main.                          *)
(*                                                                         *)
(* A command is bash and, possibly, a child it has left in the background, *)
(* which inherits the pipe the panel reads.  The pipe is at its end when   *)
(* neither holds it any more.  The context of a command is over at its     *)
(* deadline or when its client is gone; os/exec then kills bash, and only  *)
(* bash.  Deadlines are events without a clock: they may come at any time, *)
(* and they come.                                                          *)
(***************************************************************************)
EXTENDS Naturals

CONSTANTS
    Terminals,   \* requests to run a command, each made once
    Dashboards,  \* requests for the dashboard stream, each made once
    MaxLines     \* bound on the lines a command writes

ASSUME StreamsAssumption ==
    /\ Terminals \cap Dashboards = {}
    /\ MaxLines \in Nat

Requests == Terminals \cup Dashboards

VARIABLES
    kind,        \* of a terminal request: run (POST /api/terminal) or
                 \* stream (GET /api/terminal/stream)
    pc,          \* stage of the handler
    client,      \* here, stalled (connected, but its buffers are full), gone
    expired,     \* terminal requests whose time limit is over
    bash,        \* none, runs or ended
    child,       \* terminal requests whose background child holds the pipe
    written,     \* lines written into the pipe
    got,         \* lines read from it
    sent,        \* lines handed to the response
    server,      \* up, draining (Shutdown) or stopped
    grace        \* the ten seconds of Shutdown are over

command == <<expired, bash, child, written>>
vars == <<kind, pc, client, got, sent, server, grace, command>>

Kinds == {"run", "stream"}

(* new; work: the command runs and its output is read; send: a line is in
   hand; wait: the output is at its end and cmd.Wait is next; drain: bash is
   reaped and the output is not at its end; reply: the result is known;
   collect, frame, select: the loop of the dashboard; over: the handler has
   returned; cut: the process ended first. *)
Stages == {"new", "work", "send", "wait", "drain", "reply",
           "collect", "frame", "select", "over", "cut"}
Ended(r) == pc[r] \in {"over", "cut"}
Active(r) == pc[r] # "new" /\ ~Ended(r)

Init ==
    /\ kind \in [Terminals -> Kinds]
    /\ pc = [r \in Requests |-> "new"]
    /\ client = [r \in Requests |-> "here"]
    /\ expired = {}
    /\ bash = [r \in Terminals |-> "none"]
    /\ child = {}
    /\ written = [r \in Terminals |-> 0]
    /\ got = [r \in Terminals |-> 0]
    /\ sent = [r \in Terminals |-> 0]
    /\ server = "up"
    /\ grace = FALSE

Go(r, from, to) ==
    /\ pc[r] = from
    /\ pc' = [pc EXCEPT ![r] = to]

-----------------------------------------------------------------------------
(* The command, for as long as somebody reads its output. *)

Write(r) ==
    /\ Active(r)
    /\ bash[r] = "runs" \/ r \in child
    /\ written[r] < MaxLines
    /\ written' = [written EXCEPT ![r] = @ + 1]
    /\ UNCHANGED <<kind, pc, client, expired, bash, child, got, sent, server, grace>>

LeaveChild(r) ==
    /\ Active(r)
    /\ bash[r] = "runs"
    /\ child' = child \cup {r}
    /\ UNCHANGED <<kind, pc, client, expired, bash, written, got, sent, server, grace>>

BashEnds(r) ==
    /\ Active(r)
    /\ bash[r] = "runs"
    /\ bash' = [bash EXCEPT ![r] = "ended"]
    /\ UNCHANGED <<kind, pc, client, expired, child, written, got, sent, server, grace>>

ChildEnds(r) ==
    /\ Active(r)
    /\ r \in child
    /\ child' = child \ {r}
    /\ UNCHANGED <<kind, pc, client, expired, bash, written, got, sent, server, grace>>

(* The client of a request: it may stop reading for a while, or leave. *)
ClientTurns(r) ==
    /\ Active(r)
    /\ client[r] # "gone"
    /\ \E c \in {"here", "stalled", "gone"} \ {client[r]} :
          client' = [client EXCEPT ![r] = c]
    /\ UNCHANGED <<kind, pc, got, sent, server, grace, command>>

-----------------------------------------------------------------------------
(* Run and Stream. *)

Start(r) ==
    /\ server = "up"
    /\ Go(r, "new", "work")
    /\ bash' = [bash EXCEPT ![r] = "runs"]
    /\ UNCHANGED <<kind, client, expired, child, written, got, sent, server, grace>>

(* bash, or its pipe, cannot be had. *)
StartFails(r) ==
    /\ server = "up"
    /\ Go(r, "new", "reply")
    /\ UNCHANGED <<kind, client, got, sent, server, grace, command>>

Expire(r) ==
    /\ Active(r)
    /\ expired' = expired \cup {r}
    /\ UNCHANGED <<kind, pc, client, bash, child, written, got, sent, server, grace>>

(* Mutant: the command runs under the context of the request alone. *)
KillNoDeadline(r) ==
    /\ Active(r)
    /\ client[r] = "gone"
    /\ bash[r] = "runs"
    /\ bash' = [bash EXCEPT ![r] = "ended"]
    /\ UNCHANGED <<kind, pc, client, expired, child, written, got, sent, server, grace>>

(* The goroutine of exec.CommandContext that watches the context. *)
Kill(r) ==
    /\ Active(r)
    /\ r \in expired \/ client[r] = "gone"
    /\ bash[r] = "runs"
    /\ bash' = [bash EXCEPT ![r] = "ended"]
    /\ UNCHANGED <<kind, pc, client, expired, child, written, got, sent, server, grace>>

(* Stream: the loop of ReadString and onLine.  Run: the goroutine of os/exec
   that copies into the buffer of CombinedOutput, before and after the reap. *)
Read(r) ==
    /\ got[r] < written[r]
    /\ \/ kind[r] = "stream" /\ Go(r, "work", "send")
       \/ kind[r] = "run" /\ pc[r] \in {"work", "drain"} /\ UNCHANGED pc
    /\ got' = [got EXCEPT ![r] = @ + 1]
    /\ UNCHANGED <<kind, client, sent, server, grace, command>>

(* Mutant: the line in hand is dropped when the pipe is at its end. *)
SendUnlessLast(r) ==
    /\ Go(r, "send", "work")
    /\ client[r] # "stalled"
    /\ sent' = [sent EXCEPT ![r] = IF bash[r] = "ended" THEN @ ELSE @ + 1]
    /\ UNCHANGED <<kind, client, got, server, grace, command>>

(* stream.Send writes and flushes: it waits for a client that has stalled and
   ignores one that is gone. *)
Send(r) ==
    /\ Go(r, "send", "work")
    /\ client[r] # "stalled"
    /\ sent' = [sent EXCEPT ![r] = @ + 1]
    /\ UNCHANGED <<kind, client, got, server, grace, command>>

AtEnd(r) == bash[r] # "runs" /\ r \notin child /\ got[r] = written[r]

(* Mutant: Stream calls cmd.Wait, which closes the pipe, once bash is gone. *)
EndOfOutputAtExit(r) ==
    /\ bash[r] = "ended"
    /\ \/ kind[r] = "stream" /\ Go(r, "work", "wait")
       \/ kind[r] = "run" /\ Go(r, "drain", "reply")
    /\ UNCHANGED <<kind, client, got, sent, server, grace, command>>

EndOfOutput(r) ==
    /\ AtEnd(r)
    /\ \/ kind[r] = "stream" /\ Go(r, "work", "wait")
       \/ kind[r] = "run" /\ Go(r, "drain", "reply")
    /\ UNCHANGED <<kind, client, got, sent, server, grace, command>>

(* cmd.Wait reaps bash: Stream calls it at the end of the output, Run before. *)
Reap(r) ==
    /\ bash[r] = "ended"
    /\ \/ kind[r] = "stream" /\ Go(r, "wait", "reply")
       \/ kind[r] = "run" /\ Go(r, "work", "drain")
    /\ UNCHANGED <<kind, client, got, sent, server, grace, command>>

(* The JSON reply of Run, or the closing events of Stream. *)
Reply(r) ==
    /\ Go(r, "reply", "over")
    /\ client[r] # "stalled"
    /\ sent' = [sent EXCEPT ![r] = IF kind[r] = "run" THEN got[r] ELSE @]
    /\ UNCHANGED <<kind, client, got, server, grace, command>>

-----------------------------------------------------------------------------
(* handleSystemStream. *)

Open(r) ==
    /\ server = "up"
    /\ Go(r, "new", "collect")
    /\ UNCHANGED <<kind, client, got, sent, server, grace, command>>

Collect(r) ==
    /\ Go(r, "collect", "frame")
    /\ UNCHANGED <<kind, client, got, sent, server, grace, command>>

Frame(r) ==
    /\ Go(r, "frame", "select")
    /\ client[r] # "stalled"
    /\ UNCHANGED <<kind, client, got, sent, server, grace, command>>

(* The ticker fires.  When the client is gone too, select takes either. *)
SelectTick(r) ==
    /\ Go(r, "select", "collect")
    /\ UNCHANGED <<kind, client, got, sent, server, grace, command>>

(* Mutant: the loop ranges over the ticker. *)
SelectIgnoresDone(r) ==
    /\ client[r] = "gone"
    /\ SelectTick(r)

SelectDone(r) ==
    /\ client[r] = "gone"
    /\ Go(r, "select", "over")
    /\ UNCHANGED <<kind, client, got, sent, server, grace, command>>

-----------------------------------------------------------------------------
(* The end of main: Shutdown lets no request in, waits for those it has, and
   gives up when its own context is over.  It cancels no request's context. *)

Stop ==
    /\ server = "up"
    /\ server' = "draining"
    /\ UNCHANGED <<kind, pc, client, got, sent, grace, command>>

GraceOver ==
    /\ server = "draining"
    /\ grace' = TRUE
    /\ UNCHANGED <<kind, pc, client, got, sent, server, command>>

End ==
    /\ server' = "stopped"
    /\ pc' = [r \in Requests |-> IF Active(r) THEN "cut" ELSE pc[r]]
    /\ UNCHANGED <<kind, client, got, sent, grace, command>>

(* Mutant: Shutdown is called with context.Background(). *)
ExitWaits ==
    /\ server = "draining"
    /\ \A r \in Requests : ~Active(r)
    /\ End

Exit ==
    /\ server = "draining"
    /\ grace \/ \A r \in Requests : ~Active(r)
    /\ End

-----------------------------------------------------------------------------
Handler(r) == Send(r) \/ EndOfOutput(r) \/ Reap(r) \/ Reply(r)
Loop(d) == Collect(d) \/ Frame(d) \/ SelectTick(d) \/ SelectDone(d)

Next ==
    \/ \E r \in Terminals :
          \/ Write(r) \/ LeaveChild(r) \/ BashEnds(r) \/ ChildEnds(r)
          \/ Start(r) \/ StartFails(r)
          \/ Expire(r) \/ Kill(r) \/ Read(r) \/ Handler(r)
    \/ \E d \in Dashboards : Open(d) \/ Loop(d)
    \/ \E r \in Requests : ClientTurns(r)
    \/ Stop \/ GraceOver \/ Exit

(* The goroutines of the panel run when they can, timers fire, and select is
   random among what is ready.  Commands, children and clients owe nothing. *)
Fairness ==
    /\ \A r \in Terminals :
          WF_vars(Expire(r)) /\ WF_vars(Kill(r)) /\ WF_vars(Read(r)) /\ WF_vars(Handler(r))
    /\ \A d \in Dashboards : WF_vars(Loop(d)) /\ SF_vars(SelectDone(d))
    /\ WF_vars(GraceOver) /\ WF_vars(Exit)

Spec == Init /\ [][Next]_vars /\ Fairness

-----------------------------------------------------------------------------
(* The shapes of the requests and of the server. *)
TypeOK ==
    /\ kind \in [Terminals -> Kinds]
    /\ pc \in [Requests -> Stages]
    /\ client \in [Requests -> {"here", "stalled", "gone"}]
    /\ expired \subseteq Terminals
    /\ bash \in [Terminals -> {"none", "runs", "ended"}]
    /\ child \subseteq Terminals
    /\ written \in [Terminals -> Nat]
    /\ got \in [Terminals -> Nat]
    /\ sent \in [Terminals -> Nat]
    /\ server \in {"up", "draining", "stopped"}
    /\ grace \in BOOLEAN

(* Where each kind of request can be, and who holds its pipe there. *)
Stations ==
    /\ \A d \in Dashboards : pc[d] \in {"new", "collect", "frame", "select", "over", "cut"}
    /\ \A r \in Terminals :
          /\ pc[r] \in (IF kind[r] = "run" THEN {"new", "work", "drain", "reply", "over", "cut"}
                        ELSE {"new", "work", "send", "wait", "reply", "over", "cut"})
          /\ pc[r] = "new" => bash[r] = "none"
          /\ bash[r] = "none" => r \notin child /\ written[r] = 0
          /\ pc[r] \in {"work", "send", "wait", "drain"} => bash[r] # "none"
          /\ pc[r] = "drain" => bash[r] = "ended"
          /\ pc[r] \in {"wait", "reply", "over"} => bash[r] # "runs" /\ r \notin child

(* The lines between the pipe and the response: at most one is in hand. *)
Delivered ==
    \A r \in Terminals :
        /\ got[r] <= written[r]
        /\ pc[r] \in {"wait", "reply"} => got[r] = written[r]
        /\ kind[r] = "stream" /\ pc[r] # "cut" =>
              got[r] = sent[r] + (IF pc[r] = "send" THEN 1 ELSE 0)

(* A request that returned has passed on every line the command wrote, those
   of a background child and of a killed bash too (terminal.Run, Stream). *)
OutputComplete == \A r \in Terminals : pc[r] = "over" => sent[r] = written[r]

IInv == TypeOK /\ Stations /\ Delivered /\ OutputComplete

Held(r) == r \in child \/ client[r] = "stalled"

(* A terminal request ends: the deadline sees to it that bash does not keep
   it, provided that no background child and no stalled client does. *)
TerminalEnds ==
    \A r \in Terminals : <>[]~Held(r) => (pc[r] = "work" ~> Ended(r))

(* A dashboard stream ends after its client has left, even when every tick is
   due by the time select is reached (handleSystemStream). *)
DashboardEnds ==
    \A d \in Dashboards : (pc[d] = "select" /\ client[d] = "gone") ~> Ended(d)

(* A process that was told to stop stops, whatever its requests, commands and
   clients do (main). *)
ShutdownEnds == server = "draining" ~> server = "stopped"
=============================================================================
