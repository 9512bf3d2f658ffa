-------------------------------- MODULE Login --------------------------------
(***************************************************************************)
(* handleAuthLogin beside handleAuthChangePassword: a login reads the      *)
(* password under the read lock and opens its session later, while changes *)
(* of the password, crashes and restarts go on.  It composes               *)
(* CredentialStore with the logins that have passed the throttle           *)
(* (LoginThrottle); what becomes of a session is in Sessions.              *)
(***************************************************************************)
EXTENDS CredentialStore

CONSTANT Logins      \* concurrent POST /api/auth/login requests

VARIABLES
    stage,       \* stage of each login
    typed,       \* the password it carries
    valid,       \* history: the password last stored with success, and those
                 \* that a change or a start has put in memory since
    allowed      \* history: what was valid at some instant of each login

loginVars == <<stage, typed, valid, allowed>>
allVars == <<vars, loginVars>>

LoginStages == {"idle", "begun", "verified", "refused", "granted"}

LoginInit ==
    /\ Init
    /\ stage = [l \in Logins |-> "idle"]
    /\ typed = [l \in Logins |-> None]
    /\ valid = {}
    /\ allowed = [l \in Logins |-> {}]

-----------------------------------------------------------------------------
(* What the store's steps mean for the logins under way. *)

(* `valid` becomes V, also for the logins under way. *)
NowValid(V) ==
    /\ valid' = V
    /\ allowed' = [l \in Logins |->
                      IF stage[l] \in {"idle", "granted"} THEN allowed[l]
                                                        ELSE allowed[l] \cup V]

StartLoads == (Load \/ RefuseCorrupt \/ PrintAndServe) /\ UNCHANGED loginVars

StartGenerates ==
    /\ FirstStart \/ UnreadableStart
    /\ NowValid(valid \cup {mem'})
    /\ UNCHANGED <<stage, typed>>

StartPersists ==
    \/ BootTruncate /\ UNCHANGED loginVars
    \/ BootWrite /\ NowValid({mem}) /\ UNCHANGED <<stage, typed>>

(* The sessions are in memory: they and the logins under way are gone. *)
ProcessDies ==
    /\ Die
    /\ stage' = [l \in Logins |-> "idle"]
    /\ typed' = [l \in Logins |-> None]
    /\ allowed' = [l \in Logins |-> {}]
    /\ UNCHANGED valid

OperatorRemoves ==
    /\ RemoveStore
    /\ NowValid({})
    /\ UNCHANGED <<stage, typed>>

(* Mutant: SetPassword reports success and persists afterwards. *)
ChangeAnsweredEarly(c) ==
    \/ BeginChange(c) /\ UNCHANGED loginVars
    \/ SetInMemory(c) /\ NowValid({want[c]}) /\ UNCHANGED <<stage, typed>>
    \/ (Truncate(c) \/ Write(c) \/ PersistFails(c)) /\ UNCHANGED loginVars

Change(c) ==
    \/ BeginChange(c) /\ UNCHANGED loginVars
    \/ SetInMemory(c) /\ NowValid(valid \cup {want[c]}) /\ UNCHANGED <<stage, typed>>
    \/ Truncate(c) /\ UNCHANGED loginVars
    \/ Write(c) /\ NowValid({want[c]}) /\ UNCHANGED <<stage, typed>>
    \/ PersistFails(c) /\ UNCHANGED loginVars

-----------------------------------------------------------------------------
(* handleAuthLogin after the throttle. *)

Arrive(l) ==
    /\ proc = "up"
    /\ stage[l] = "idle"
    /\ stage' = [stage EXCEPT ![l] = "begun"]
    /\ \E p \in Passwords : typed' = [typed EXCEPT ![l] = p]
    /\ allowed' = [allowed EXCEPT ![l] = valid]
    /\ UNCHANGED <<vars, valid>>

(* Mutant: Verify does not wait for the lock. *)
VerifyUnlocked(l) ==
    /\ stage[l] = "begun"
    /\ stage' = [stage EXCEPT ![l] = IF typed[l] = mem THEN "verified" ELSE "refused"]
    /\ UNCHANGED <<vars, typed, valid, allowed>>

(* Store.Verify holds the read lock while it derives the key: no change is
   between its lock and its unlock. *)
Verify(l) ==
    /\ stage[l] = "begun"
    /\ lock = None
    /\ stage' = [stage EXCEPT ![l] = IF typed[l] = mem THEN "verified" ELSE "refused"]
    /\ UNCHANGED <<vars, typed, valid, allowed>>

EndLogin(l) ==
    /\ stage' = [stage EXCEPT ![l] = "idle"]
    /\ typed' = [typed EXCEPT ![l] = None]
    /\ allowed' = [allowed EXCEPT ![l] = {}]
    /\ UNCHANGED <<vars, valid>>

(* The audit line and the 401. *)
AnswerRefused(l) == stage[l] = "refused" /\ EndLogin(l)

(* SessionManager.Create, the audit line and the answer.  Nothing is read
   from the store again: a change may have come in between. *)
OpenSession(l) ==
    /\ stage[l] = "verified"
    /\ stage' = [stage EXCEPT ![l] = "granted"]
    /\ UNCHANGED <<vars, typed, valid, allowed>>

(* newToken fails: a 500, no session. *)
NoSession(l) == stage[l] = "verified" /\ EndLogin(l)

(* Logout or expiry.  A change of the password closes no session. *)
SessionEnds(l) == stage[l] = "granted" /\ EndLogin(l)

-----------------------------------------------------------------------------
LoginStep(l) ==
    \/ Arrive(l) \/ Verify(l) \/ AnswerRefused(l)
    \/ OpenSession(l) \/ NoSession(l) \/ SessionEnds(l)

LoginNext ==
    \/ StartLoads \/ StartGenerates \/ StartPersists \/ ProcessDies \/ OperatorRemoves
    \/ \E c \in Changers : Change(c)
    \/ \E l \in Logins : LoginStep(l)

(* A request that has begun is carried through: its goroutine runs, and file
   operations return.  Unlock lets every waiting reader in before the next
   writer, so a waiting Verify is not passed over for ever. *)
LoginFairness ==
    /\ \A c \in Changers : WF_allVars((Truncate(c) \/ Write(c) \/ PersistFails(c)) /\ Change(c))
    /\ \A l \in Logins : /\ SF_allVars(Verify(l))
                         /\ WF_allVars(AnswerRefused(l) \/ OpenSession(l) \/ NoSession(l))

LoginSpec == LoginInit /\ [][LoginNext]_allVars /\ LoginFairness

-----------------------------------------------------------------------------
LoginTypeOK ==
    /\ stage \in [Logins -> LoginStages]
    /\ typed \in [Logins -> Passwords \cup {None}]
    /\ valid \subseteq Passwords
    /\ allowed \in [Logins -> SUBSET Passwords]
    /\ \A l \in Logins : IF stage[l] = "idle" THEN typed[l] = None
                                              ELSE proc = "up" /\ typed[l] \in Passwords

(* Whatever a start reads from the file and whatever memory holds is the last
   password stored with success, or comes from a change or a start after it:
   no crash brings an older one back (SetPassword, persist, NewStore). *)
OnlyValidHeld == {disk, mem} \subseteq valid \cup {Absent, Torn, None}

(* A session is opened only for a password that was valid at some instant of
   its login, so a login that begins after a change was reported as stored
   never gets in with the password it replaced, however the login, other
   changes and crashes interleave (handleAuthLogin, Verify, Create). *)
OnlyValidLogsIn ==
    \A l \in Logins : stage[l] \in {"verified", "granted"} => typed[l] \in allowed[l]

(* What is valid now is among what a login under way may use. *)
AllowedKeepsUp ==
    \A l \in Logins : stage[l] \in {"begun", "verified", "refused"} => valid \subseteq allowed[l]

(* The running process holds the password last reported as stored. *)
AckedIsHeld == acked # None /\ proc = "up" => mem = acked

LoginInv == LoginTypeOK /\ OnlyValidHeld /\ OnlyValidLogsIn /\ AllowedKeepsUp /\ AckedIsHeld

(* Every behaviour of the store and of the login handler is one of the account:
   a change takes effect at one instant and a login is decided at one, although
   a persist has four steps and may fail or be cut off at each; no restart puts an
   older password in force than the one last confirmed, and none is put in force by
   a file that cannot be read (NewStore, SetPassword, persist, Verify). *)
Promise == INSTANCE Account WITH
    held <- mem,
    lasting <- valid,
    asked <- want,
    taker <- lock

ImplementsAccount == Promise!Spec

(* The password last reported as stored is never refused, before or after a
   restart, until a change takes the lock (Verify, SetPassword, NewStore). *)
StoredPasswordAccepted ==
    [][\A l \in Logins :
          stage[l] = "begun" /\ stage'[l] = "refused" => typed[l] # acked]_allVars

(* Every login is answered, also when changes fail half way: no path of
   SetPassword leaves the store locked (SetPassword, Verify, handleAuthLogin). *)
LoginAnswered ==
    \A l \in Logins : stage[l] \in {"begun", "verified", "refused"}
                          ~> stage[l] \in {"idle", "granted"}
=============================================================================
