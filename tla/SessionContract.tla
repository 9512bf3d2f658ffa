--------------------------- MODULE SessionContract ---------------------------
(***************************************************************************)
(* What the session subsystem promises, with no map, lock or janitor in    *)
(* sight.  A session is opened once, by a login, and stays usable until    *)
(* its deadline, the logout of a client that presents it, or the next      *)
(* restart, whichever comes first: no other step takes it away.  A request *)
(* is let in exactly when its session is usable at that moment.            *)
(* Sessions.tla (auth/session.go) is shown to implement this.              *)
(***************************************************************************)
EXTENDS Integers

CONSTANTS
    Conns,       \* client connections; each has at most one request in flight
    Tokens,      \* session tokens
    NoToken,     \* "no session"
    SessionTTL   \* how long a session stays usable after its login

Absent == -1     \* deadline of a token that is not usable

VARIABLES
    clock,       \* wall-clock time
    deadline,    \* [Tokens -> Int]: last instant the token is usable, or Absent
    opened,      \* tokens that were ever handed out
    stage,       \* [Conns -> what the request in flight is about]
    token,       \* [Conns -> Tokens \cup {NoToken}]: the session it presents
    until        \* [Conns -> Nat]: the deadline of the session it enters

cvars == <<clock, deadline, opened, stage, token, until>>

Init ==
    /\ clock \in Nat
    /\ deadline = [t \in Tokens |-> Absent]
    /\ opened = {}
    /\ stage = [c \in Conns |-> "quiet"]
    /\ token = [c \in Conns |-> NoToken]
    /\ until = [c \in Conns |-> 0]

Usable(t) == t # NoToken /\ clock <= deadline[t]

Move(c, from, to, t, d) ==
    /\ stage[c] = from
    /\ stage' = [stage EXCEPT ![c] = to]
    /\ token' = [token EXCEPT ![c] = t]
    /\ until' = [until EXCEPT ![c] = d]

Rest(c, from) == Move(c, from, "quiet", NoToken, 0)

(* A client asks for something, or to leave, with any session it ever had. *)
Present(c) ==
    /\ \E to \in {"asking", "leaving"}, t \in opened \cup {NoToken} :
          Move(c, "quiet", to, t, 0)
    /\ UNCHANGED <<clock, deadline, opened>>

LetIn(c) ==
    /\ Usable(token[c])
    /\ Move(c, "asking", "serving", token[c], 0)
    /\ UNCHANGED <<clock, deadline, opened>>

TurnAway(c) ==
    /\ ~Usable(token[c])
    /\ Rest(c, "asking")
    /\ UNCHANGED <<clock, deadline, opened>>

End(c) ==
    /\ Rest(c, "serving")
    /\ UNCHANGED <<clock, deadline, opened>>

(* A login that was granted ... *)
Enter(c) ==
    /\ Move(c, "quiet", "entering", NoToken, clock + SessionTTL)
    /\ UNCHANGED <<clock, deadline, opened>>

(* ... opens a session nobody ever had; one that stalled for a whole lifetime
   opens a session that is already over. *)
Open(c, t) ==
    /\ t \notin opened
    /\ Rest(c, "entering")
    /\ opened' = opened \cup {t}
    /\ deadline' = [deadline EXCEPT ![t] = IF clock <= until[c] THEN until[c] ELSE Absent]
    /\ UNCHANGED clock

(* A logout takes away the session it presents, and no other. *)
Close(c) ==
    /\ Rest(c, "leaving")
    /\ deadline' = [t \in Tokens |-> IF t = token[c] THEN Absent ELSE deadline[t]]
    /\ UNCHANGED <<clock, opened>>

Tick ==
    /\ clock' = clock + 1
    /\ deadline' = [t \in Tokens |->
                      IF clock' <= deadline[t] THEN deadline[t] ELSE Absent]
    /\ UNCHANGED <<opened, stage, token, until>>

Reset ==
    /\ deadline' = [t \in Tokens |-> Absent]
    /\ stage' = [c \in Conns |-> "quiet"]
    /\ token' = [c \in Conns |-> NoToken]
    /\ until' = [c \in Conns |-> 0]
    /\ UNCHANGED <<clock, opened>>

Next ==
    \/ \E c \in Conns :
          \/ Present(c) \/ LetIn(c) \/ TurnAway(c) \/ End(c)
          \/ Enter(c) \/ Close(c)
          \/ \E t \in Tokens : Open(c, t)
    \/ Tick
    \/ Reset

Spec == Init /\ [][Next]_cvars
=============================================================================
