------------------------------ MODULE Sessions ------------------------------
(***************************************************************************)
(* auth/session.go and the handlers that use it: the in-memory session     *)
(* map, the janitor goroutine, login, logout and the guard in front of     *)
(* every protected route (authentication enabled).                         *)
(*                                                                         *)
(* A step is one critical section of sm.mu, or the code between two.  The  *)
(* credential check is modelled in CredentialStore, the throttle in front  *)
(* of it in LoginThrottle, the audit entries in AdminActions.              *)
(***************************************************************************)
EXTENDS Integers

CONSTANTS
    Conns,       \* client connections: HTTP/1.1 runs one request at a time on each
    Tokens,      \* values newToken can draw; never the same one twice (32 random bytes)
    NoToken,     \* no cookie, or a cookie the map never held
    SessionTTL,  \* sessionTTL
    MaxTime      \* bound on the clock

ASSUME SessionAssumption ==
    /\ SessionTTL \in Nat
    /\ MaxTime \in Nat
    /\ NoToken \notin Tokens

Absent == -1     \* sessions[t] of a token that is not in the map

VARIABLES
    now,         \* time.Now()
    sessions,    \* sm.sessions: [Tokens -> expires, or Absent]
    handed,      \* tokens that Create has stored and sent as cookies
    pc,          \* stage of the request running on each connection
    tok,         \* its cookie, or the token Create drew for it
    exp,         \* exp of the Create it is in
    named,       \* whether the logout it is in knows its actor
    jan,         \* stage of the janitor goroutine
    jnow         \* the janitor's now, read before it takes the lock

vars == <<now, sessions, handed, pc, tok, exp, named, jan, jnow>>

(* Stages of a request: idle (none), guard (requireAuth* reached), serving
   (the protected handler runs), verify (login past its throttle), insert
   (Create holds a token that is not in the map yet), logout (reached),
   destroy (logout past its lookup). *)
Stages == {"idle", "guard", "serving", "verify", "insert", "logout", "destroy"}

Init ==
    /\ now = 0
    /\ sessions = [t \in Tokens |-> Absent]
    /\ handed = {}
    /\ pc = [c \in Conns |-> "idle"]
    /\ tok = [c \in Conns |-> NoToken]
    /\ exp = [c \in Conns |-> 0]
    /\ named = [c \in Conns |-> FALSE]
    /\ jan = "wait"
    /\ jnow = 0

-----------------------------------------------------------------------------
(* Requests.  A client can present any cookie it was ever given, long after
   the session behind it is gone. *)

Go(c, from, to) ==
    /\ pc[c] = from
    /\ pc' = [pc EXCEPT ![c] = to]

(* The handler returns, and its locals with it. *)
Return(c, from) ==
    /\ Go(c, from, "idle")
    /\ tok' = [tok EXCEPT ![c] = NoToken]
    /\ exp' = [exp EXCEPT ![c] = 0]
    /\ named' = [named EXCEPT ![c] = FALSE]

Arrive(c) ==
    /\ \E stage \in {"guard", "verify", "logout"} : Go(c, "idle", stage)
    /\ \E t \in handed \cup {NoToken} : tok' = [tok EXCEPT ![c] = t]
    /\ UNCHANGED <<now, sessions, handed, exp, named, jan, jnow>>

(* sm.Username: the token is in the map and now is not after its expires. *)
Username(t) == t # NoToken /\ sessions[t] # Absent /\ ~(now > sessions[t])

Admit(c) ==
    /\ Go(c, "guard", "serving")
    /\ Username(tok[c])
    /\ UNCHANGED <<now, sessions, handed, tok, exp, named, jan, jnow>>

Refuse(c) ==
    /\ Return(c, "guard")
    /\ ~Username(tok[c])
    /\ UNCHANGED <<now, sessions, handed, jan, jnow>>

Finish(c) ==
    /\ Return(c, "serving")
    /\ UNCHANGED <<now, sessions, handed, jan, jnow>>

-----------------------------------------------------------------------------
(* Login, past the throttle. *)

InFlight == {tok[c] : c \in {d \in Conns : pc[d] = "insert"}}

(* Mutant: Create keeps the token of the cookie the client sent. *)
LoginDrawKeepsCookie(c) ==
    /\ Go(c, "verify", "insert")
    /\ \E t \in (Tokens \ (handed \cup InFlight)) \cup ({tok[c]} \ {NoToken}) :
          tok' = [tok EXCEPT ![c] = t]
    /\ exp' = [exp EXCEPT ![c] = now + SessionTTL]
    /\ UNCHANGED <<now, sessions, handed, named, jan, jnow>>

(* The credentials match: Create draws a token and computes its expiry, both
   before it takes the lock. *)
LoginDraw(c) ==
    /\ Go(c, "verify", "insert")
    /\ \E t \in Tokens \ (handed \cup InFlight) : tok' = [tok EXCEPT ![c] = t]
    /\ exp' = [exp EXCEPT ![c] = now + SessionTTL]
    /\ UNCHANGED <<now, sessions, handed, named, jan, jnow>>

(* Wrong credentials, or newToken failed. *)
LoginFail(c) ==
    /\ Return(c, "verify")
    /\ UNCHANGED <<now, sessions, handed, jan, jnow>>

LoginInsert(c) ==
    /\ Return(c, "insert")
    /\ sessions' = [sessions EXCEPT ![tok[c]] = exp[c]]
    /\ handed' = handed \cup {tok[c]}
    /\ UNCHANGED <<now, jan, jnow>>

(* Logout looks its session up, for the actor of the audit entry ... *)
LogoutLookup(c) ==
    /\ Go(c, "logout", "destroy")
    /\ named' = [named EXCEPT ![c] = Username(tok[c])]
    /\ UNCHANGED <<now, sessions, handed, tok, exp, jan, jnow>>

(* ... lets go of the lock, and then deletes whatever the cookie names.  An
   entry is written if there was an actor. *)
LogoutDestroy(c) ==
    /\ Return(c, "destroy")
    /\ sessions' = [t \in Tokens |-> IF t = tok[c] THEN Absent ELSE sessions[t]]
    /\ UNCHANGED <<now, handed, jan, jnow>>

-----------------------------------------------------------------------------
(* The janitor reads the clock, then takes the lock and sweeps the map. *)

(* Mutant: the clock is read once, when the goroutine starts. *)
JanitorWakeReadsOnce ==
    /\ jan = "wait"
    /\ jan' = "sweep"
    /\ UNCHANGED <<now, sessions, handed, pc, tok, exp, named, jnow>>

JanitorWake ==
    /\ jan = "wait"
    /\ jan' = "sweep"
    /\ jnow' = now
    /\ UNCHANGED <<now, sessions, handed, pc, tok, exp, named>>

(* Mutant: a session is thought expired at its very last instant. *)
ExpiredTooSoon(t, at) == at >= sessions[t]

Expired(t, at) == at > sessions[t]

JanitorSweep ==
    /\ jan = "sweep"
    /\ jan' = "wait"
    /\ sessions' = [t \in Tokens |-> IF Expired(t, jnow) THEN Absent ELSE sessions[t]]
    /\ jnow' = 0
    /\ UNCHANGED <<now, handed, pc, tok, exp, named>>

Tick ==
    /\ now < MaxTime
    /\ now' = now + 1
    /\ UNCHANGED <<sessions, handed, pc, tok, exp, named, jan, jnow>>

(* The process ends (stop, crash, or a fatal map race in LoginThrottle) and
   comes back: NewSessionManager starts from an empty map. *)
Restart ==
    /\ sessions' = [t \in Tokens |-> Absent]
    /\ pc' = [c \in Conns |-> "idle"]
    /\ tok' = [c \in Conns |-> NoToken]
    /\ exp' = [c \in Conns |-> 0]
    /\ named' = [c \in Conns |-> FALSE]
    /\ jan' = "wait"
    /\ jnow' = 0
    /\ UNCHANGED <<now, handed>>

Janitor == JanitorWake \/ JanitorSweep

Request(c) ==
    \/ Arrive(c) \/ Admit(c) \/ Refuse(c) \/ Finish(c)
    \/ LoginDraw(c) \/ LoginFail(c) \/ LoginInsert(c)
    \/ LogoutLookup(c) \/ LogoutDestroy(c)

Next ==
    \/ \E c \in Conns : Request(c)
    \/ Janitor
    \/ Tick
    \/ Restart

(* time.Ticker keeps firing and the goroutine loops for ever; clients owe
   the program nothing. *)
Fairness == WF_vars(JanitorWake) /\ WF_vars(JanitorSweep)

Spec == Init /\ [][Next]_vars /\ Fairness

-----------------------------------------------------------------------------
(* The shapes of the variables of session.go and of a request in flight. *)
TypeOK ==
    /\ now \in Nat
    /\ sessions \in [Tokens -> Nat \cup {Absent}]
    /\ handed \subseteq Tokens
    /\ pc \in [Conns -> Stages]
    /\ tok \in [Conns -> Tokens \cup {NoToken}]
    /\ exp \in [Conns -> Nat]
    /\ named \in [Conns -> BOOLEAN]
    /\ jan \in {"wait", "sweep"}
    /\ jnow \in Nat

(* Only a token that was handed out is in the map: a token whose insertion
   was cut off by a restart never turns up. *)
OnlyHanded == \A t \in Tokens : sessions[t] # Absent => t \in handed

(* A login in flight holds a token nobody else has: its insertion can neither
   revive a session that was closed nor overwrite a live one (Create). *)
FreshInFlight ==
    \A c \in Conns : pc[c] = "insert" =>
        /\ tok[c] \in Tokens \ handed
        /\ exp[c] <= now + SessionTTL
        /\ \A d \in Conns : pc[d] = "insert" /\ tok[d] = tok[c] => d = c

(* A request past arrival that names a token names one that was handed out. *)
CookiesHanded ==
    \A c \in Conns : pc[c] \in {"guard", "serving", "logout", "destroy"} =>
        tok[c] \in handed \cup {NoToken}

(* A request being served runs under a token of the map's past. *)
ServedUnderToken == \A c \in Conns : pc[c] = "serving" => tok[c] \in Tokens

(* The janitor's clock reading is old, never early. *)
JanitorClock == jnow <= now

(* A logout that takes away a session somebody could still use knows whose it
   is, so that its entry is written: between the lookup and the deletion, two
   critical sections, a session can come to its end but never begin
   (handleAuthLogout, SessionManager.Username, Destroy). *)
LogoutKnowsActor ==
    \A c \in Conns : pc[c] = "destroy" /\ Username(tok[c]) => named[c]

(* The inductive invariant behind the refinement below. *)
IInv == TypeOK /\ OnlyHanded /\ FreshInFlight /\ CookiesHanded /\ ServedUnderToken
        /\ JanitorClock /\ LogoutKnowsActor

(* The request on a connection as the contract sees it: what it is about, the
   session it presents and the deadline of the one it enters. *)
StageFor(stage) ==
    CASE stage \in {"idle", "verify"} -> "quiet"
      [] stage = "guard" -> "asking"
      [] stage = "insert" -> "entering"
      [] stage \in {"logout", "destroy"} -> "leaving"
      [] OTHER -> "serving"

RequestStage == [c \in Conns |-> StageFor(pc[c])]
Presented ==
    [c \in Conns |-> IF StageFor(pc[c]) \in {"quiet", "entering"} THEN NoToken ELSE tok[c]]
Entered == [c \in Conns |-> IF pc[c] = "insert" THEN exp[c] ELSE 0]

(* Every behaviour of session.go is one of the contract: a request is let in
   exactly while its session is usable; a session ends at its deadline, at a
   logout that presents it or at a restart, so that the janitor's sweep, whatever
   its timing, never takes away even one that a client could still use; and a
   session that ended never comes back. *)
Contract == INSTANCE SessionContract WITH
    clock <- now,
    deadline <- [t \in Tokens |-> IF now <= sessions[t] THEN sessions[t] ELSE Absent],
    opened <- handed,
    stage <- RequestStage,
    token <- Presented,
    until <- Entered

ImplementsContract == Contract!Spec

(* The map does not grow for ever: a session past its expiry is taken out of
   memory, by the janitor if nobody asks for it any more. *)
ExpiredCollected ==
    \A t \in Tokens :
        (sessions[t] # Absent /\ now > sessions[t]) ~> (sessions[t] = Absent)
=============================================================================
