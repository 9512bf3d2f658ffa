---------------------------- MODULE LoginThrottle ----------------------------
(***************************************************************************)
(* The brute-force throttle at the head of handleAuthLogin                 *)
(* (httpserver/handlers_auth.go): the global attempts map, keyed by        *)
(* r.RemoteAddr and used without a lock.                                   *)
(*                                                                         *)
(* RemoteAddr is "host:port", so a key of the map is a connection.  HTTP   *)
(* /1.1 runs the requests of a connection one after another: two handlers  *)
(* that touch the map at once have different keys.                         *)
(***************************************************************************)
EXTENDS Integers, FiniteSets, Sequences, FiniteSetsExt

CONSTANTS
    Conns,       \* client connections, the keys of attempts.byIP
    HostOf,      \* [Conns -> the address the connection comes from]
    Window,      \* time.Minute
    Limit,       \* attempts allowed per window: 5
    MaxTime      \* bound on the clock

ASSUME ThrottleAssumption ==
    /\ Window \in Nat \ {0}
    /\ Limit \in Nat \ {0}
    /\ MaxTime \in Nat

VARIABLES
    now,         \* time.Now()
    attempts,    \* attempts.byIP: [Conns -> sequence of the times on record]
    phase,       \* stage of the login request on each connection
    at,          \* its now, read before it looks at the map
    recent,      \* the recorded attempts it found to be younger than Window
    passed       \* history: times of the attempts let through and recorded

throttleVars == <<now, attempts, phase, at, recent, passed>>

(* idle; read (now taken, the map not read yet); check (recent computed, the
   map not written yet); answer (credentials, session, reply). *)
Phases == {"idle", "read", "check", "answer"}

ThrottleInit ==
    /\ now = 0
    /\ attempts = [c \in Conns |-> <<>>]
    /\ phase = [c \in Conns |-> "idle"]
    /\ at = [c \in Conns |-> 0]
    /\ recent = [c \in Conns |-> <<>>]
    /\ passed = [c \in Conns |-> <<>>]

-----------------------------------------------------------------------------
Go(c, from, to) ==
    /\ phase[c] = from
    /\ phase' = [phase EXCEPT ![c] = to]

Begin(c) ==
    /\ Go(c, "idle", "read")
    /\ at' = [at EXCEPT ![c] = now]
    /\ UNCHANGED <<now, attempts, recent, passed>>

(* The loop over the recorded times keeps those younger than age. *)
Younger(age, t, ts) ==
    LET kept[i \in 0 .. Len(ts)] ==
            IF i = 0 THEN <<>>
            ELSE IF t - ts[i] < age THEN Append(kept[i - 1], ts[i]) ELSE kept[i - 1]
    IN kept[Len(ts)]

(* Mutant: an attempt one whole Window old is still counted in the list. *)
RecentKeepsEdge(t, ts) == Younger(Window + 1, t, ts)

Recent(t, ts) == Younger(Window, t, ts)

Filter(c) ==
    /\ Go(c, "read", "check")
    /\ recent' = [recent EXCEPT ![c] = Recent(at[c], attempts[c])]
    /\ UNCHANGED <<now, attempts, at, passed>>

(* Mutant: the attempt is put on record before the limit is looked at. *)
RefuseRecords(c) ==
    /\ Go(c, "check", "idle")
    /\ Len(recent[c]) >= Limit
    /\ attempts' = [attempts EXCEPT ![c] = Append(recent[c], at[c])]
    /\ recent' = [recent EXCEPT ![c] = <<>>]
    /\ at' = [at EXCEPT ![c] = 0]
    /\ UNCHANGED <<now, passed>>

(* 429; the map keeps what it had, old entries included. *)
Refuse(c) ==
    /\ Go(c, "check", "idle")
    /\ Len(recent[c]) >= Limit
    /\ recent' = [recent EXCEPT ![c] = <<>>]
    /\ at' = [at EXCEPT ![c] = 0]
    /\ UNCHANGED <<now, attempts, passed>>

(* Mutant: the limit is off by one. *)
RecordOneMore(c) ==
    /\ Go(c, "check", "answer")
    /\ Len(recent[c]) <= Limit
    /\ attempts' = [attempts EXCEPT ![c] = Append(recent[c], at[c])]
    /\ passed' = [passed EXCEPT ![c] = Append(@, at[c])]
    /\ UNCHANGED <<now, at, recent>>

(* The attempt is put on record and goes on to the credential check. *)
Record(c) ==
    /\ Go(c, "check", "answer")
    /\ Len(recent[c]) < Limit
    /\ attempts' = [attempts EXCEPT ![c] = Append(recent[c], at[c])]
    /\ passed' = [passed EXCEPT ![c] = Append(@, at[c])]
    /\ UNCHANGED <<now, at, recent>>

Answer(c) ==
    /\ Go(c, "answer", "idle")
    /\ recent' = [recent EXCEPT ![c] = <<>>]
    /\ at' = [at EXCEPT ![c] = 0]
    /\ UNCHANGED <<now, attempts, passed>>

-----------------------------------------------------------------------------
(* attempts.byIP is read and written by every login handler with no lock.
   When two are between their read and their write at once, the build may
   also do one of two things: the runtime notices and ends the process, or
   the store of one of them is lost. *)

InMap == {c \in Conns : phase[c] \in {"read", "check"}}
Racing(c) == c \in InMap /\ Cardinality(InMap) > 1

StoreLost(c) ==
    /\ Racing(c)
    /\ Go(c, "check", "answer")
    /\ Len(recent[c]) < Limit
    /\ UNCHANGED <<now, attempts, at, recent, passed>>

NewProcess ==
    /\ attempts' = [c \in Conns |-> <<>>]
    /\ phase' = [c \in Conns |-> "idle"]
    /\ at' = [c \in Conns |-> 0]
    /\ recent' = [c \in Conns |-> <<>>]
    /\ passed' = [c \in Conns |-> <<>>]
    /\ UNCHANGED now

FatalRace == (\E c \in Conns : Racing(c)) /\ NewProcess

Restart == NewProcess

Tick ==
    /\ now < MaxTime
    /\ now' = now + 1
    /\ UNCHANGED <<attempts, phase, at, recent, passed>>

ThrottleNext ==
    \/ \E c \in Conns :
          \/ Begin(c) \/ Filter(c) \/ Refuse(c) \/ Record(c) \/ Answer(c)
          \/ StoreLost(c)
    \/ FatalRace
    \/ Restart
    \/ Tick

ThrottleSpec == ThrottleInit /\ [][ThrottleNext]_throttleVars

-----------------------------------------------------------------------------
Times == 0 .. MaxTime

(* The shapes of attempts.byIP and of a login in flight; the list of a key is
   rebuilt by every attempt and never gets longer than Limit. *)
ThrottleTypeOK ==
    /\ now \in Times
    /\ attempts \in [Conns -> Seq(Times)]
    /\ \A c \in Conns : Len(attempts[c]) <= Limit
    /\ phase \in [Conns -> Phases]
    /\ at \in [Conns -> Times]
    /\ recent \in [Conns -> Seq(Times)]
    /\ passed \in [Conns -> Seq(Times)]

(* How many attempts of `history` fall in the window that ends at t. *)
InWindow(history, t) ==
    Cardinality({i \in DOMAIN history : t - Window < history[i] /\ history[i] <= t})

(* In no window do more than Limit recorded attempts of one connection get to
   the credential check, although every request throws away what the one
   before it stored and writes a list of its own (handleAuthLogin). *)
WindowBound == \A c \in Conns, t \in Times : InWindow(passed[c], t) <= Limit

(* What a request counts is exactly the recorded attempts of its window: no
   entry is thrown away that still counts, and a refused request adds none, so
   that hammering on does not push the end of the wait further away. *)
CountExact ==
    \A c \in Conns : phase[c] = "check" => Len(recent[c]) = InWindow(passed[c], at[c])

(* The clock readings behind a list: the times let through are in order, and
   no later than the reading of the request under way. *)
InOrder ==
    \A c \in Conns :
        /\ at[c] <= now
        /\ \A i, j \in DOMAIN passed[c] : i <= j => passed[c][i] <= passed[c][j]
        /\ \A i \in DOMAIN passed[c] :
              passed[c][i] <= (IF phase[c] = "idle" THEN now ELSE at[c])

(* list is the end of history, and everything before it is too old at t. *)
EndOf(history, list, t) ==
    LET dropped == Len(history) - Len(list) IN
    /\ dropped >= 0
    /\ \A i \in DOMAIN list : list[i] = history[dropped + i]
    /\ \A i \in 1 .. dropped : t - history[i] >= Window

(* What is on record, and what a request counts, is the end of what was let
   through: an attempt is only dropped when it no longer counts. *)
OnRecord ==
    \A c \in Conns :
        /\ EndOf(passed[c], attempts[c], IF phase[c] \in {"read", "check"} THEN at[c] ELSE now)
        /\ phase[c] = "check" =>
              /\ EndOf(passed[c], recent[c], at[c])
              /\ \A i \in DOMAIN recent[c] : at[c] - recent[c][i] < Window

(* Limit attempts further on, a Window has gone by. *)
Spaced ==
    \A c \in Conns : \A i \in DOMAIN passed[c] :
        i + Limit \in DOMAIN passed[c] => passed[c][i + Limit] - passed[c][i] >= Window

ThrottleInv == ThrottleTypeOK /\ InOrder /\ OnRecord /\ Spaced

(* What the comment on loginAttempts says: no more than Limit attempts per
   source IP per window. *)
PerSourceIP ==
    \A h \in {HostOf[c] : c \in Conns}, t \in Times :
        MapThenSumSet(LAMBDA c : InWindow(passed[c], t),
                      {c \in Conns : HostOf[c] = h}) <= Limit
=============================================================================
