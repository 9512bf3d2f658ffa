------------------------------ MODULE Account ------------------------------
(***************************************************************************)
(* What the administrator's account promises, with no file, lock or crash  *)
(* half way in sight.  One password is in force at a time.  A change takes *)
(* effect at one instant and is then confirmed or reported as failed; a    *)
(* login is decided at one instant.  After a restart the password in force *)
(* is the one last confirmed, or one that was put in force after it.       *)
(* Login.tla (auth/store.go and the two handlers) implements this.         *)
(***************************************************************************)
CONSTANTS
    Changers,    \* changes of the password
    Logins,      \* logins
    Passwords,
    None         \* no password, nobody

VARIABLES
    held,        \* the password in force, None while there is none
    lasting,     \* what a restart may put in force
    asked,       \* [Changers -> the password asked for, or None]
    taker,       \* the change in force that has no answer yet, or None
    stage,       \* stage of each login
    typed        \* [Logins -> the password it carries, or None]

avars == <<held, lasting, asked, taker, stage, typed>>

NobodyIn ==
    /\ asked = [c \in Changers |-> None]
    /\ stage = [l \in Logins |-> "idle"]
    /\ typed = [l \in Logins |-> None]

Init == held = None /\ lasting = {} /\ taker = None /\ NobodyIn

-----------------------------------------------------------------------------
Restart ==
    /\ held = None
    /\ held' \in lasting
    /\ UNCHANGED <<lasting, asked, taker, stage, typed>>

(* A password is made up, and then it is the only one. *)
MakeUp ==
    /\ held = None
    /\ held' \in Passwords
    /\ lasting' = lasting \cup {held'}
    /\ UNCHANGED <<asked, taker, stage, typed>>

Settle ==
    /\ held # None /\ taker = None /\ NobodyIn
    /\ lasting' = {held}
    /\ UNCHANGED <<held, asked, taker, stage, typed>>

(* Whatever is under way goes without an answer. *)
Stop ==
    /\ held # None
    /\ held' = None /\ taker' = None /\ NobodyIn'
    /\ UNCHANGED lasting

Forget ==
    /\ held = None
    /\ lasting' = {}
    /\ UNCHANGED <<held, asked, taker, stage, typed>>

-----------------------------------------------------------------------------
Ask(c) ==
    /\ held # None /\ asked[c] = None
    /\ \E p \in Passwords : asked' = [asked EXCEPT ![c] = p]
    /\ UNCHANGED <<held, lasting, taker, stage, typed>>

Take(c) ==
    /\ asked[c] # None /\ taker = None
    /\ held' = asked[c]
    /\ lasting' = lasting \cup {asked[c]}
    /\ taker' = c
    /\ UNCHANGED <<asked, stage, typed>>

Answer(c) ==
    /\ taker = c /\ taker' = None
    /\ asked' = [asked EXCEPT ![c] = None]
    /\ UNCHANGED <<held, stage, typed>>

Confirm(c) == held = asked[c] /\ lasting' = {held} /\ Answer(c)

Fail(c) == held = asked[c] /\ UNCHANGED lasting /\ Answer(c)

-----------------------------------------------------------------------------
Begin(l) ==
    /\ held # None /\ stage[l] = "idle"
    /\ stage' = [stage EXCEPT ![l] = "begun"]
    /\ \E p \in Passwords : typed' = [typed EXCEPT ![l] = p]
    /\ UNCHANGED <<held, lasting, asked, taker>>

(* Never while a change that took effect may still fail. *)
Decide(l) ==
    /\ stage[l] = "begun" /\ taker = None
    /\ stage' = [stage EXCEPT ![l] = IF typed[l] = held THEN "verified" ELSE "refused"]
    /\ UNCHANGED <<held, lasting, asked, taker, typed>>

Enter(l) ==
    /\ stage[l] = "verified"
    /\ stage' = [stage EXCEPT ![l] = "granted"]
    /\ UNCHANGED <<held, lasting, asked, taker, typed>>

Leave(l) ==
    /\ stage[l] \in {"verified", "refused", "granted"}
    /\ stage' = [stage EXCEPT ![l] = "idle"]
    /\ typed' = [typed EXCEPT ![l] = None]
    /\ UNCHANGED <<held, lasting, asked, taker>>

Next ==
    \/ Restart \/ MakeUp \/ Settle \/ Stop \/ Forget
    \/ \E c \in Changers : Ask(c) \/ Take(c) \/ Confirm(c) \/ Fail(c)
    \/ \E l \in Logins : Begin(l) \/ Decide(l) \/ Enter(l) \/ Leave(l)

Spec == Init /\ [][Next]_avars
=============================================================================
