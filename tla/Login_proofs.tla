---------------------------- MODULE Login_proofs ----------------------------
(***************************************************************************)
(* Proofs about CredentialStore and Login for any set of passwords, any    *)
(* number of concurrent changes and any number of concurrent logins, and   *)
(* about LoginThrottle, the map at the head of the same handler, for any   *)
(* number of connections, any window and any limit.                        *)
(***************************************************************************)
EXTENDS Login, LoginThrottle, TLAPS, SequenceTheorems, FiniteSetTheorems,
        NaturalsInduction, WellFoundedInduction

(* The store. *)

LEMMA InitIInv == Init => IInv
BY StoreAssumption
   DEF Init, IInv, TypeOK, OneWriter, Armed, AckedIsOnDisk, MemoryIsDisk, WriteOrder,
       Stages, Booting, ChangeStages

LEMMA NextIInv == IInv /\ [Next]_vars => IInv'
<1> SUFFICES ASSUME IInv, [Next]_vars PROVE IInv'
  OBVIOUS
<1> USE StoreAssumption
<1> USE DEF IInv, TypeOK, OneWriter, Armed, AckedIsOnDisk, MemoryIsDisk, WriteOrder,
            Stages, Booting, ChangeStages
<1>1. CASE Load
  BY <1>1 DEF Load
<1>2. CASE RefuseCorrupt
  BY <1>2 DEF RefuseCorrupt
<1>3. CASE FirstStart
  BY <1>3 DEF FirstStart, Create
<1>4. CASE UnreadableStart
  BY <1>4 DEF UnreadableStart, Create
<1>5. CASE BootTruncate
  BY <1>5 DEF BootTruncate
<1>6. CASE BootWrite
  BY <1>6 DEF BootWrite
<1>7. CASE PrintAndServe
  BY <1>7 DEF PrintAndServe
<1>8. CASE Die
  BY <1>8 DEF Die
<1>9. CASE RemoveStore
  BY <1>9 DEF RemoveStore
<1>10. ASSUME NEW c \in Changers, BeginChange(c) PROVE IInv'
  BY <1>10 DEF BeginChange
<1>11. ASSUME NEW c \in Changers, SetInMemory(c) PROVE IInv'
  BY <1>11 DEF SetInMemory
<1>12. ASSUME NEW c \in Changers, Truncate(c) PROVE IInv'
  <2>1. lock = c /\ proc = "up" /\ acked = None
    BY <1>12 DEF Truncate
  <2>2. TypeOK'
    BY <1>12 DEF Truncate
  <2>3. OneWriter'
    BY <1>12, <2>1 DEF Truncate
  <2>4. Armed' /\ AckedIsOnDisk' /\ MemoryIsDisk' /\ WriteOrder'
    BY <1>12, <2>1 DEF Truncate
  <2> QED
    BY <2>2, <2>3, <2>4
<1>13. ASSUME NEW c \in Changers, Write(c) PROVE IInv'
  <2>1. /\ lock = c /\ mem = want[c] /\ proc = "up" /\ want[c] \in Passwords
        /\ \A d \in Changers : d # c => pc[d] \in {"idle", "hashed"}
    BY <1>13 DEF Write
  <2>2. TypeOK'
    BY <1>13, <2>1 DEF Write, Return
  <2>3. OneWriter'
    BY <1>13, <2>1 DEF Write, Return
  <2>4. Armed' /\ AckedIsOnDisk' /\ MemoryIsDisk' /\ WriteOrder'
    BY <1>13, <2>1 DEF Write, Return
  <2> QED
    BY <2>2, <2>3, <2>4
<1>14. ASSUME NEW c \in Changers, PersistFails(c) PROVE IInv'
  <2>1. /\ lock = c /\ proc = "up"
        /\ \A d \in Changers : d # c => pc[d] \in {"idle", "hashed"}
    BY <1>14 DEF PersistFails
  <2>2. TypeOK'
    BY <1>14, <2>1 DEF PersistFails, Return
  <2>3. OneWriter'
    BY <1>14, <2>1 DEF PersistFails, Return
  <2>4. Armed' /\ AckedIsOnDisk' /\ MemoryIsDisk' /\ WriteOrder'
    BY <1>14, <2>1 DEF PersistFails, Return
  <2> QED
    BY <2>2, <2>3, <2>4
<1>15. CASE UNCHANGED vars
  BY <1>15 DEF vars
<1> QED
  BY <1>1, <1>2, <1>3, <1>4, <1>5, <1>6, <1>7, <1>8, <1>9, <1>10, <1>11, <1>12, <1>13,
     <1>14, <1>15 DEF Next

(* The invariant of the store: who is between assignment and reply, and what
   the file holds at each stage (NewStore, SetPassword, persist). *)
THEOREM StoreInvariant == Spec => []IInv
<1>1. Init => IInv
  BY InitIInv
<1>2. IInv /\ [Next]_vars => IInv'
  BY NextIInv
<1> QED
  BY <1>1, <1>2, PTL DEF Spec

(* A password reported as stored is the one the next start reads
   (SetPassword, persist, NewStore). *)
THEOREM AckedPasswordIsDurable == Spec => []AckedIsOnDisk
<1>1. IInv => AckedIsOnDisk
  BY DEF IInv
<1> QED
  BY <1>1, StoreInvariant, PTL

(* Memory and file agree whenever no change is under way and the last one did
   not fail (SetPassword, NewStore). *)
THEOREM MemoryAgreesWithDisk == Spec => []MemoryIsDisk
<1>1. IInv => MemoryIsDisk
  BY DEF IInv
<1> QED
  BY <1>1, StoreInvariant, PTL
-----------------------------------------------------------------------------
(* The store with the logins beside it. *)

(* Every step of the composition is a step of the store or leaves it alone. *)
LEMMA StoreStep == LoginNext => [Next]_vars
<1> SUFFICES ASSUME LoginNext PROVE [Next]_vars
  OBVIOUS
<1>1. CASE StartLoads \/ StartGenerates \/ StartPersists \/ ProcessDies \/ OperatorRemoves
  BY <1>1 DEF StartLoads, StartGenerates, StartPersists, ProcessDies, OperatorRemoves, Next
<1>2. ASSUME NEW c \in Changers, Change(c) PROVE Next
  BY <1>2 DEF Change, Next
<1>3. ASSUME NEW l \in Logins, LoginStep(l) PROVE UNCHANGED vars
  BY <1>3 DEF LoginStep, Arrive, Verify, AnswerRefused, OpenSession, NoSession, SessionEnds,
              EndLogin
<1> QED
  BY <1>1, <1>2, <1>3 DEF LoginNext

LEMMA StoreInvStep == IInv /\ [LoginNext]_allVars => IInv'
<1> SUFFICES ASSUME IInv, [LoginNext]_allVars PROVE IInv'
  OBVIOUS
<1>1. CASE LoginNext
  BY <1>1, StoreStep, NextIInv
<1>2. CASE UNCHANGED allVars
  BY <1>2, NextIInv DEF allVars
<1> QED
  BY <1>1, <1>2

LEMMA AckedStep == IInv /\ AckedIsHeld /\ [Next]_vars => AckedIsHeld'
<1> SUFFICES ASSUME IInv, AckedIsHeld, [Next]_vars PROVE AckedIsHeld'
  OBVIOUS
<1> USE DEF AckedIsHeld
<1>1. CASE Load \/ PrintAndServe
  BY <1>1 DEF Load, PrintAndServe, IInv, AckedIsOnDisk, WriteOrder
<1>2. CASE RefuseCorrupt \/ FirstStart \/ UnreadableStart \/ BootTruncate \/ BootWrite \/ Die
             \/ RemoveStore
  BY <1>2 DEF RefuseCorrupt, FirstStart, UnreadableStart, Create, BootTruncate, BootWrite, Die,
              RemoveStore
<1>3. ASSUME NEW c \in Changers, BeginChange(c) \/ SetInMemory(c) \/ Truncate(c)
      PROVE  AckedIsHeld'
  BY <1>3 DEF BeginChange, SetInMemory, Truncate
<1>4. ASSUME NEW c \in Changers, Write(c) \/ PersistFails(c) PROVE AckedIsHeld'
  <2>1. mem = want[c] /\ UNCHANGED <<mem, proc>>
    BY <1>4 DEF Write, PersistFails, IInv, OneWriter
  <2> QED
    BY <1>4, <2>1 DEF Write, PersistFails
<1>5. CASE UNCHANGED vars
  BY <1>5 DEF vars
<1> QED
  BY <1>1, <1>2, <1>3, <1>4, <1>5 DEF Next

LEMMA InitLogin == LoginInit => IInv /\ LoginInv
<1> SUFFICES ASSUME LoginInit PROVE IInv /\ LoginInv
  OBVIOUS
<1>1. IInv
  BY InitIInv DEF LoginInit
<1>2. LoginTypeOK
  BY DEF LoginInit, LoginTypeOK, LoginStages
<1>3. OnlyValidHeld
  BY DEF LoginInit, Init, OnlyValidHeld
<1>4. OnlyValidLogsIn /\ AllowedKeepsUp /\ AckedIsHeld
  BY DEF LoginInit, Init, OnlyValidLogsIn, AllowedKeepsUp, AckedIsHeld
<1> QED
  BY <1>1, <1>2, <1>3, <1>4 DEF LoginInv

LEMMA NextLogin == IInv /\ LoginInv /\ [LoginNext]_allVars => LoginInv'
<1> SUFFICES ASSUME IInv, LoginInv, [LoginNext]_allVars PROVE LoginInv'
  OBVIOUS
<1> USE StoreAssumption
<1> USE DEF LoginInv, LoginTypeOK, LoginStages, OnlyValidHeld, OnlyValidLogsIn, AllowedKeepsUp
<1>0. AckedIsHeld'
  BY StoreStep, AckedStep DEF allVars
<1>1. CASE StartLoads
  BY <1>0, <1>1 DEF StartLoads, Load, RefuseCorrupt, PrintAndServe, loginVars
<1>2. CASE StartGenerates
  <2>1. \A l \in Logins : stage[l] = "idle"
    BY <1>2 DEF StartGenerates, FirstStart, UnreadableStart, Create
  <2>2. mem' \in Passwords /\ disk' = disk
    BY <1>2 DEF StartGenerates, FirstStart, UnreadableStart, Create
  <2> QED
    BY <1>0, <1>2, <2>1, <2>2 DEF StartGenerates, NowValid
<1>3. CASE StartPersists
  <2>1. CASE BootTruncate /\ UNCHANGED loginVars
    BY <1>0, <2>1 DEF BootTruncate, loginVars
  <2>2. CASE BootWrite /\ NowValid({mem}) /\ UNCHANGED <<stage, typed>>
    <3>1. mem \in Passwords /\ \A l \in Logins : stage[l] = "idle"
      BY <2>2 DEF BootWrite, IInv, TypeOK, Armed, Booting
    <3> QED
      BY <1>0, <2>2, <3>1 DEF BootWrite, NowValid
  <2> QED
    BY <1>3, <2>1, <2>2 DEF StartPersists
<1>4. CASE ProcessDies
  BY <1>0, <1>4 DEF ProcessDies, Die
<1>5. CASE OperatorRemoves
  <2>1. mem = None /\ \A l \in Logins : stage[l] = "idle"
    BY <1>5 DEF OperatorRemoves, RemoveStore, IInv, Armed, Booting
  <2> QED
    BY <1>0, <1>5, <2>1 DEF OperatorRemoves, RemoveStore, NowValid
<1>6. ASSUME NEW c \in Changers, Change(c) PROVE LoginInv'
  <2>0. want[c] \in Passwords \cup {None}
    BY DEF IInv, TypeOK
  <2>1. CASE BeginChange(c) /\ UNCHANGED loginVars
    BY <1>0, <2>1 DEF BeginChange, loginVars
  <2>2. CASE SetInMemory(c) /\ NowValid(valid \cup {want[c]}) /\ UNCHANGED <<stage, typed>>
    <3>1. want[c] \in Passwords /\ mem' = want[c] /\ UNCHANGED <<disk, proc>>
      BY <2>0, <2>2 DEF SetInMemory, IInv, OneWriter
    <3> QED
      BY <1>0, <2>2, <3>1 DEF NowValid
  <2>3. CASE Truncate(c) /\ UNCHANGED loginVars
    BY <1>0, <2>3 DEF Truncate, loginVars
  <2>4. CASE Write(c) /\ NowValid({want[c]}) /\ UNCHANGED <<stage, typed>>
    <3>1. want[c] \in Passwords /\ mem = want[c] /\ disk' = want[c] /\ UNCHANGED <<mem, proc>>
      BY <2>0, <2>4 DEF Write, IInv, OneWriter
    <3> QED
      BY <1>0, <2>4, <3>1 DEF NowValid
  <2>5. CASE PersistFails(c) /\ UNCHANGED loginVars
    <3>1. mem = want[c] /\ (disk' = disk \/ disk' = want[c]) /\ UNCHANGED <<mem, proc>>
      BY <2>5 DEF PersistFails, IInv, OneWriter
    <3> QED
      BY <1>0, <2>5, <3>1 DEF loginVars
  <2> QED
    BY <1>6, <2>1, <2>2, <2>3, <2>4, <2>5 DEF Change
<1>7. ASSUME NEW l \in Logins, LoginStep(l) PROVE LoginInv'
  <2>1. CASE Arrive(l)
    BY <1>0, <2>1 DEF Arrive, vars
  <2>2. CASE Verify(l)
    <3>1. mem \in valid
      BY <2>2 DEF Verify, IInv, Armed, TypeOK, Booting
    <3> QED
      BY <1>0, <2>2, <3>1 DEF Verify, vars
  <2>3. CASE OpenSession(l)
    BY <1>0, <2>3 DEF OpenSession, vars
  <2>4. CASE EndLogin(l)
    BY <1>0, <2>4 DEF EndLogin, vars
  <2> QED
    BY <1>7, <2>1, <2>2, <2>3, <2>4 DEF LoginStep, AnswerRefused, NoSession, SessionEnds
<1>8. CASE UNCHANGED allVars
  BY <1>0, <1>8 DEF allVars, vars, loginVars
<1> QED
  BY <1>1, <1>2, <1>3, <1>4, <1>5, <1>6, <1>7, <1>8 DEF LoginNext

(* The invariant of the composition: what a login under way may hold, next to
   the invariant of the store (handleAuthLogin, Verify, SetPassword). *)
THEOREM LoginInvariant == LoginSpec => [](IInv /\ LoginInv)
<1>1. LoginInit => IInv /\ LoginInv
  BY InitLogin
<1>2. IInv /\ LoginInv /\ [LoginNext]_allVars => (IInv /\ LoginInv)'
  BY NextLogin, StoreInvStep
<1> QED
  BY <1>1, <1>2, PTL DEF LoginSpec

(* The composition is an implementation of the store alone: no login changes
   the password (Verify, SetPassword, NewStore). *)
THEOREM LoginImplementsStore == LoginSpec => Spec
<1>1. LoginInit => Init
  BY DEF LoginInit
<1>2. [LoginNext]_allVars => [Next]_vars
  BY StoreStep DEF allVars
<1> QED
  BY <1>1, <1>2, PTL DEF LoginSpec, Spec

(* No crash, restart or failed write brings back a password older than the
   one last reported as stored (SetPassword, persist, NewStore). *)
THEOREM NoOldPasswordComesBack == LoginSpec => []OnlyValidHeld
<1>1. IInv /\ LoginInv => OnlyValidHeld
  BY DEF LoginInv
<1> QED
  BY <1>1, LoginInvariant, PTL

(* A session is opened only for a password that was valid at some instant of
   its login (handleAuthLogin, Verify, SetPassword). *)
THEOREM SessionsFollowPassword == LoginSpec => []OnlyValidLogsIn
<1>1. IInv /\ LoginInv => OnlyValidLogsIn
  BY DEF LoginInv
<1> QED
  BY <1>1, LoginInvariant, PTL

(* The password last reported as stored is never refused (Verify,
   SetPassword, NewStore). *)
THEOREM StoredPasswordLogsIn == LoginSpec => StoredPasswordAccepted
<1> DEFINE A == \A l \in Logins : stage[l] = "begun" /\ stage'[l] = "refused" => typed[l] # acked
<1>1. IInv /\ LoginInv /\ [LoginNext]_allVars => [A]_allVars
  <2> SUFFICES ASSUME IInv, LoginInv, LoginNext,
                      NEW l \in Logins, stage[l] = "begun", stage'[l] = "refused"
               PROVE  typed[l] # acked
    BY DEF A
  <2>1. stage \in [Logins -> LoginStages]
    BY DEF LoginInv, LoginTypeOK
  <2>2. PICK k \in Logins : LoginStep(k)
    <3>1. ~(StartLoads \/ StartGenerates \/ StartPersists \/ OperatorRemoves)
      BY DEF StartLoads, StartGenerates, StartPersists, OperatorRemoves, loginVars
    <3>2. ~ProcessDies
      BY DEF ProcessDies
    <3>3. ~ \E c \in Changers : Change(c)
      BY DEF Change, loginVars
    <3> QED
      BY <3>1, <3>2, <3>3 DEF LoginNext
  <2>3. Verify(l)
    BY <2>1, <2>2 DEF LoginStep, Arrive, Verify, AnswerRefused, OpenSession, NoSession,
                      SessionEnds, EndLogin
  <2>4. typed[l] # mem /\ lock = None /\ proc = "up"
    BY <2>1, <2>3 DEF Verify, LoginInv, LoginTypeOK
  <2>5. typed[l] # None
    BY StoreAssumption DEF LoginInv, LoginTypeOK
  <2> QED
    BY <2>4, <2>5 DEF LoginInv, AckedIsHeld
<1> QED
  BY <1>1, LoginInvariant, PTL DEF LoginSpec, StoredPasswordAccepted

(* The account that the store and the handlers implement. *)

LEMMA InitPromise == LoginInit => Promise!Init
BY DEF LoginInit, Init, Promise!Init, Promise!NobodyIn

(* While the process starts or ends, nobody changes the password or logs in. *)
LEMMA NobodyEarly ==
  ASSUME IInv, LoginInv, proc # "up"
  PROVE  lock = None /\ Promise!NobodyIn
<1>1. \A c \in Changers : pc[c] = "idle" /\ want[c] = None /\ lock # c
  BY DEF IInv, Armed, OneWriter
<1>2. lock = None /\ want = [c \in Changers |-> None]
  BY <1>1 DEF IInv, TypeOK
<1>3. \A l \in Logins : stage[l] = "idle" /\ (stage[l] = "idle" => typed[l] = None)
  BY DEF LoginInv, LoginTypeOK
<1>4. stage = [l \in Logins |-> "idle"] /\ typed = [l \in Logins |-> None]
  BY <1>3 DEF LoginInv, LoginTypeOK
<1> QED
  BY <1>2, <1>4 DEF Promise!NobodyIn

LEMMA NextPromise == IInv /\ LoginInv /\ [LoginNext]_allVars => [Promise!Next]_(Promise!avars)
<1> SUFFICES ASSUME IInv, LoginInv, [LoginNext]_allVars PROVE [Promise!Next]_(Promise!avars)
  OBVIOUS
<1>1. CASE StartLoads
  <2>1. CASE Load /\ UNCHANGED loginVars
    <3>1. mem = None /\ disk \in valid
      BY <2>1, StoreAssumption DEF Load, IInv, Armed, Booting, LoginInv, OnlyValidHeld
    <3>2. Promise!Restart
      BY <2>1, <3>1 DEF Load, loginVars, Promise!Restart
    <3> QED
      BY <3>2 DEF Promise!Next
  <2>2. CASE (RefuseCorrupt \/ PrintAndServe) /\ UNCHANGED loginVars
    BY <2>2 DEF RefuseCorrupt, PrintAndServe, loginVars, Promise!avars
  <2> QED
    BY <1>1, <2>1, <2>2 DEF StartLoads
<1>2. CASE StartGenerates
  <2>1. mem = None
    BY <1>2 DEF StartGenerates, FirstStart, UnreadableStart, Create, IInv, Armed, Booting
  <2>2. Promise!MakeUp
    BY <1>2, <2>1 DEF StartGenerates, FirstStart, UnreadableStart, Create, NowValid,
                      Promise!MakeUp
  <2> QED
    BY <2>2 DEF Promise!Next
<1>3. CASE StartPersists
  <2>1. CASE BootTruncate /\ UNCHANGED loginVars
    BY <2>1 DEF BootTruncate, loginVars, Promise!avars
  <2>2. CASE BootWrite /\ NowValid({mem}) /\ UNCHANGED <<stage, typed>>
    <3>1. mem # None /\ lock = None /\ Promise!NobodyIn
      BY <2>2, NobodyEarly DEF BootWrite, IInv, Armed, Booting
    <3>2. Promise!Settle
      BY <2>2, <3>1 DEF BootWrite, NowValid, Promise!Settle
    <3> QED
      BY <3>2 DEF Promise!Next
  <2> QED
    BY <1>3, <2>1, <2>2 DEF StartPersists
<1>4. CASE ProcessDies
  <2>1. mem # None
    BY <1>4 DEF ProcessDies, Die, IInv, Armed
  <2>2. Promise!Stop
    BY <1>4, <2>1 DEF ProcessDies, Die, Promise!Stop, Promise!NobodyIn
  <2> QED
    BY <2>2 DEF Promise!Next
<1>5. CASE OperatorRemoves
  <2>1. mem = None
    BY <1>5 DEF OperatorRemoves, RemoveStore, IInv, Armed, Booting
  <2>2. Promise!Forget
    BY <1>5, <2>1 DEF OperatorRemoves, RemoveStore, NowValid, Promise!Forget
  <2> QED
    BY <2>2 DEF Promise!Next
<1>6. ASSUME NEW c \in Changers, Change(c) PROVE [Promise!Next]_(Promise!avars)
  <2>1. CASE BeginChange(c) /\ UNCHANGED loginVars
    <3>1. mem # None /\ want[c] = None
      BY <2>1 DEF BeginChange, IInv, Armed, OneWriter
    <3>2. Promise!Ask(c)
      BY <2>1, <3>1 DEF BeginChange, loginVars, Promise!Ask
    <3> QED
      BY <3>2 DEF Promise!Next
  <2>2. CASE SetInMemory(c) /\ NowValid(valid \cup {want[c]}) /\ UNCHANGED <<stage, typed>>
    <3>1. want[c] # None
      BY <2>2 DEF SetInMemory, IInv, OneWriter
    <3>2. Promise!Take(c)
      BY <2>2, <3>1 DEF SetInMemory, NowValid, Promise!Take
    <3> QED
      BY <3>2 DEF Promise!Next
  <2>3. CASE Truncate(c) /\ UNCHANGED loginVars
    BY <2>3 DEF Truncate, loginVars, Promise!avars
  <2>4. CASE Write(c) /\ NowValid({want[c]}) /\ UNCHANGED <<stage, typed>>
    <3>1. lock = c /\ mem = want[c]
      BY <2>4 DEF Write, IInv, OneWriter
    <3>2. Promise!Confirm(c)
      BY <2>4, <3>1 DEF Write, Return, NowValid, Promise!Confirm, Promise!Answer
    <3> QED
      BY <3>2 DEF Promise!Next
  <2>5. CASE PersistFails(c) /\ UNCHANGED loginVars
    <3>1. lock = c /\ mem = want[c]
      BY <2>5 DEF PersistFails, IInv, OneWriter
    <3>2. Promise!Fail(c)
      BY <2>5, <3>1 DEF PersistFails, Return, loginVars, Promise!Fail, Promise!Answer
    <3> QED
      BY <3>2 DEF Promise!Next
  <2> QED
    BY <1>6, <2>1, <2>2, <2>3, <2>4, <2>5 DEF Change
<1>7. ASSUME NEW l \in Logins, LoginStep(l) PROVE [Promise!Next]_(Promise!avars)
  <2>1. CASE Arrive(l)
    <3>1. mem # None
      BY <2>1 DEF Arrive, IInv, Armed
    <3>2. Promise!Begin(l)
      BY <2>1, <3>1 DEF Arrive, vars, Promise!Begin
    <3> QED
      BY <3>2 DEF Promise!Next
  <2>2. CASE Verify(l)
    <3>1. Promise!Decide(l)
      BY <2>2 DEF Verify, vars, Promise!Decide
    <3> QED
      BY <3>1 DEF Promise!Next
  <2>3. CASE OpenSession(l)
    <3>1. Promise!Enter(l)
      BY <2>3 DEF OpenSession, vars, Promise!Enter
    <3> QED
      BY <3>1 DEF Promise!Next
  <2>4. CASE AnswerRefused(l) \/ NoSession(l) \/ SessionEnds(l)
    <3>1. Promise!Leave(l)
      BY <2>4 DEF AnswerRefused, NoSession, SessionEnds, EndLogin, vars, Promise!Leave
    <3> QED
      BY <3>1 DEF Promise!Next
  <2> QED
    BY <1>7, <2>1, <2>2, <2>3, <2>4 DEF LoginStep
<1>8. CASE UNCHANGED allVars
  BY <1>8 DEF allVars, vars, loginVars, Promise!avars
<1> QED
  BY <1>1, <1>2, <1>3, <1>4, <1>5, <1>6, <1>7, <1>8 DEF LoginNext

(* The store and the handlers keep the promise of the account: each step of a
   start, a persist, a change or a login is one of the account's or does nothing
   that can be seen, whatever fails or crashes in between (NewStore, SetPassword,
   persist, Verify, handleAuthLogin). *)
THEOREM LoginImplementsAccount == LoginSpec => ImplementsAccount
<1>1. LoginInit => Promise!Init
  BY InitPromise
<1>2. IInv /\ LoginInv /\ [LoginNext]_allVars => [Promise!Next]_(Promise!avars)
  BY NextPromise
<1> QED
  BY <1>1, <1>2, LoginInvariant, PTL DEF LoginSpec, ImplementsAccount, Promise!Spec

-----------------------------------------------------------------------------
(* The throttle at the head of handleAuthLogin. *)

(* A set of naturals that is not empty has a smallest member. *)
LEMMA SmallestOf ==
  ASSUME NEW T \in SUBSET Nat, T # {}
  PROVE  \E x \in T : \A y \in T : x <= y
<1> DEFINE R == OpToRel(<, Nat)
<1>1. R = {ss \in Nat \X Nat : ss[1] < ss[2]}
  BY Zenon DEF OpToRel
<1>2. IsWellFoundedOn(R, Nat)
  BY NatLessThanWellFounded
<1>3. \E x \in T : \A y \in T : <<y, x>> \notin R
  BY <1>2, WFMin
<1> HIDE DEF R
<1>4. PICK x \in T : \A y \in T : <<y, x>> \notin R
  BY <1>3
<1>5. ASSUME NEW y \in T PROVE x <= y
  <2>1. <<y, x>> \in Nat \X Nat /\ <<y, x>>[1] = y /\ <<y, x>>[2] = x
    OBVIOUS
  <2>2. ~ (y < x)
    BY <1>1, <1>4, <2>1
  <2> QED
    BY <2>2
<1> QED
  BY <1>4, <1>5

(* Induction, for a set of naturals. *)
LEMMA AllOfNat ==
  ASSUME NEW T \in SUBSET Nat, 0 \in T, \A n \in T : n + 1 \in T
  PROVE  T = Nat
<1> SUFFICES ASSUME T # Nat PROVE FALSE
  OBVIOUS
<1>1. PICK x \in Nat \ T : \A y \in Nat \ T : x <= y
  BY SmallestOf
<1>2. x # 0 /\ x - 1 \in Nat /\ x - 1 \in T
  BY <1>1
<1> QED
  BY <1>1, <1>2

(* One step of the loop of Younger, as an equation for the function h that
   maps i to what is kept of the first i times. *)
KeptStep(h, age, t, ts) ==
    [i \in 0 .. Len(ts) |->
        IF i = 0 THEN <<>>
        ELSE IF t - ts[i] < age THEN Append(h[i - 1], ts[i]) ELSE h[i - 1]]

(* Younger is what a solution of the equation has at the end ... *)
LEMMA YoungerIs ==
  ASSUME NEW age, NEW t, NEW ts, \E g : g = KeptStep(g, age, t, ts)
  PROVE  \E h : h = KeptStep(h, age, t, ts) /\ Younger(age, t, ts) = h[Len(ts)]
<1> DEFINE K == CHOOSE kept : kept = KeptStep(kept, age, t, ts)
<1>1. Younger(age, t, ts) = K[Len(ts)]
  BY Zenon DEF Younger, KeptStep
<1>2. K = KeptStep(K, age, t, ts)
  BY Zenon
<1> QED
  BY <1>1, <1>2, Zenon

(* ... all solutions agree there ... *)
LEMMA KeptUnique ==
  ASSUME NEW age, NEW t, NEW ts \in Seq(Nat), NEW g, NEW h,
         g = KeptStep(g, age, t, ts), h = KeptStep(h, age, t, ts)
  PROVE  g[Len(ts)] = h[Len(ts)]
<1> DEFINE T == {n \in Nat : n <= Len(ts) => g[n] = h[n]}
<1>1. 0 \in T
  BY DEF KeptStep
<1>2. ASSUME NEW n \in T PROVE n + 1 \in T
  <2> SUFFICES ASSUME n + 1 <= Len(ts) PROVE g[n + 1] = h[n + 1]
    OBVIOUS
  <2>1. n + 1 \in 0 .. Len(ts) /\ n + 1 # 0 /\ (n + 1) - 1 = n /\ g[n] = h[n]
    OBVIOUS
  <2>2. g[n + 1] = IF t - ts[n + 1] < age THEN Append(g[n], ts[n + 1]) ELSE g[n]
    BY <2>1 DEF KeptStep
  <2>3. h[n + 1] = IF t - ts[n + 1] < age THEN Append(h[n], ts[n + 1]) ELSE h[n]
    BY <2>1 DEF KeptStep
  <2> HIDE DEF T
  <2> QED
    BY <2>1, <2>2, <2>3
<1>3. T = Nat
  <2> HIDE DEF T
  <2>1. T \in SUBSET Nat
    BY DEF T
  <2> QED
    BY <1>1, <1>2, <2>1, AllOfNat
<1> QED
  BY <1>3, Len(ts) \in Nat

(* ... and when the old times come first there is one: Younger cuts them off. *)
LEMMA YoungerIsEnd ==
  ASSUME NEW age, NEW t, NEW ts \in Seq(Nat), NEW m \in 0 .. Len(ts),
         \A i \in 1 .. m : ~ (t - ts[i] < age),
         \A i \in (m + 1) .. Len(ts) : t - ts[i] < age
  PROVE  Younger(age, t, ts) = SubSeq(ts, m + 1, Len(ts))
<1> DEFINE g == [i \in 0 .. Len(ts) |-> IF i <= m THEN <<>> ELSE SubSeq(ts, m + 1, i)]
<1>1. g = KeptStep(g, age, t, ts)
  <2> SUFFICES ASSUME NEW i \in 0 .. Len(ts)
               PROVE  g[i] = IF i = 0 THEN <<>>
                             ELSE IF t - ts[i] < age THEN Append(g[i - 1], ts[i])
                             ELSE g[i - 1]
    BY Zenon DEF KeptStep
  <2>1. CASE i = 0
    BY <2>1
  <2>2. CASE i # 0 /\ i <= m
    BY <2>2
  <2>3. CASE i > m
    <3>1. i \in Nat /\ i # 0 /\ i - 1 \in 0 .. Len(ts) /\ t - ts[i] < age
      BY <2>3
    <3>2. g[i] = SubSeq(ts, m + 1, i)
      BY <2>3
    <3>3. g[i - 1] = SubSeq(ts, m + 1, i - 1)
      <4>1. CASE i - 1 <= m
        BY <3>1, <4>1, SubSeqEmpty
      <4>2. CASE ~ (i - 1 <= m)
        BY <3>1, <4>2
      <4> QED
        BY <4>1, <4>2
    <3> DEFINE before == SubSeq(ts, m + 1, i - 1)
    <3>4. before \in Seq(Nat)
      BY <2>3, SubSeqProperties
    <3>5. SubSeq(ts, m + 1, i) = before \o <<ts[i]>>
      BY <2>3, SubSeqRecursiveSecond
    <3>6. ts[i] \in Nat
      BY <2>3
    <3> HIDE DEF before, g
    <3>7. before \o <<ts[i]>> = Append(before, ts[i])
      BY <3>4, <3>6, AppendIsConcat
    <3> QED
      BY <3>1, <3>2, <3>3, <3>5, <3>7 DEF before
  <2> QED
    BY <2>1, <2>2, <2>3
<1>2. g[Len(ts)] = SubSeq(ts, m + 1, Len(ts))
  BY SubSeqEmpty
<1> HIDE DEF g
<1>3. PICK h : h = KeptStep(h, age, t, ts) /\ Younger(age, t, ts) = h[Len(ts)]
  BY <1>1, YoungerIs
<1>4. g[Len(ts)] = h[Len(ts)]
  BY <1>1, <1>3, KeptUnique
<1> QED
  BY <1>2, <1>3, <1>4

(* The times of a list are in order. *)
Ordered(ts) == \A i, j \in DOMAIN ts : i <= j => ts[i] <= ts[j]

(* On a list in order the loop of handleAuthLogin cuts off the old times. *)
LEMMA RecentIs ==
  ASSUME NEW t \in Nat, NEW ts \in Seq(Nat), Ordered(ts)
  PROVE  \E m \in 0 .. Len(ts) :
            /\ Recent(t, ts) = SubSeq(ts, m + 1, Len(ts))
            /\ \A i \in 1 .. m : t - ts[i] >= Window
            /\ \A i \in (m + 1) .. Len(ts) : t - ts[i] < Window
<1> USE ThrottleAssumption
<1> DEFINE T == {n \in Nat : n >= Len(ts) \/ t - ts[n + 1] < Window}
<1>1. Len(ts) \in Nat /\ Len(ts) \in T
  OBVIOUS
<1>2. PICK m \in T : \A n \in T : m <= n
  <2> HIDE DEF T
  <2>1. T \in SUBSET Nat
    BY DEF T
  <2> QED
    BY <1>1, <2>1, SmallestOf
<1>3. m \in 0 .. Len(ts)
  BY <1>1, <1>2
<1>4. ASSUME NEW i \in 1 .. m PROVE t - ts[i] >= Window
  <2>1. i - 1 \in Nat /\ (i - 1) + 1 = i /\ ~ (m <= i - 1) /\ i \in 1 .. Len(ts)
    BY <1>3
  <2>2. i - 1 \notin T
    BY <1>2, <2>1
  <2>3. ~ (t - ts[(i - 1) + 1] < Window)
    BY <2>1, <2>2
  <2>4. ts[i] \in Nat
    BY <2>1
  <2> QED
    BY <2>1, <2>3, <2>4
<1>5. ASSUME NEW i \in (m + 1) .. Len(ts) PROVE t - ts[i] < Window
  <2>1. m + 1 \in DOMAIN ts /\ i \in DOMAIN ts /\ m + 1 <= i
    BY <1>3
  <2>2. ts[m + 1] <= ts[i] /\ ts[m + 1] \in Nat /\ ts[i] \in Nat
    BY <2>1 DEF Ordered
  <2>3. t - ts[m + 1] < Window
    BY <1>2, <1>3
  <2> QED
    BY <2>2, <2>3
<1> HIDE DEF T
<1>6. Recent(t, ts) = SubSeq(ts, m + 1, Len(ts))
  <2>1. \A i \in 1 .. m : ~ (t - ts[i] < Window)
    <3> TAKE i \in 1 .. m
    <3>1. t - ts[i] >= Window /\ ts[i] \in Nat
      BY <1>3, <1>4
    <3> QED
      BY <3>1
  <2>2. \A i \in (m + 1) .. Len(ts) : t - ts[i] < Window
    BY <1>5
  <2>3. Younger(Window, t, ts) = SubSeq(ts, m + 1, Len(ts))
    BY <1>3, <2>1, <2>2, YoungerIsEnd
  <2> QED
    BY <2>3 DEF Recent
<1> QED
  BY <1>3, <1>4, <1>5, <1>6

(* The end of a list in order is in order. *)
LEMMA EndSorted ==
  ASSUME NEW history \in Seq(Nat), NEW list \in Seq(Nat), NEW t \in Nat,
         Ordered(history), EndOf(history, list, t)
  PROVE  Ordered(list)
<1> SUFFICES ASSUME NEW i \in DOMAIN list, NEW j \in DOMAIN list, i <= j
             PROVE  list[i] <= list[j]
  BY DEF Ordered
<1> DEFINE d == Len(history) - Len(list)
<1>1. d \in Nat /\ d + i \in DOMAIN history /\ d + j \in DOMAIN history /\ d + i <= d + j
  BY DEF EndOf
<1>2. list[i] = history[d + i] /\ list[j] = history[d + j]
  BY DEF EndOf
<1> QED
  BY <1>1, <1>2 DEF Ordered

(* What the loop keeps of the end of a history is again the end of it. *)
LEMMA RecentIsEnd ==
  ASSUME NEW history \in Seq(Nat), NEW S \in SUBSET Nat, NEW list \in Seq(S), NEW t \in Nat,
         Ordered(history), EndOf(history, list, t)
  PROVE  /\ Recent(t, list) \in Seq(S)
         /\ EndOf(history, Recent(t, list), t)
         /\ \A i \in DOMAIN Recent(t, list) : t - Recent(t, list)[i] < Window
<1> USE ThrottleAssumption
<1>1. list \in Seq(Nat)
  BY SeqMonotonic
<1>2. PICK m \in 0 .. Len(list) :
         /\ Recent(t, list) = SubSeq(list, m + 1, Len(list))
         /\ \A i \in 1 .. m : t - list[i] >= Window
         /\ \A i \in (m + 1) .. Len(list) : t - list[i] < Window
  BY <1>1, EndSorted, RecentIs
<1> DEFINE r == SubSeq(list, m + 1, Len(list))
           l == Len(list)
           n == Len(history)
<1>3. l \in Nat /\ n \in Nat /\ n - l >= 0 /\ m \in Nat /\ m <= l
  BY DEF EndOf
<1>4. /\ r \in Seq(S)
      /\ Len(r) = l - m
      /\ \A i \in 1 .. (l - m) : r[i] = list[m + i]
  <2>1. \A i \in (m + 1) .. Len(list) : list[i] \in S
    BY <1>3
  <2>2. /\ r \in Seq(S)
        /\ Len(r) = IF m + 1 <= l THEN l - (m + 1) + 1 ELSE 0
        /\ \A i \in 1 .. l - (m + 1) + 1 : r[i] = list[(m + 1) + i - 1]
    BY <1>3, <2>1, SubSeqProperties
  <2> HIDE DEF r
  <2> QED
    BY <1>3, <2>2
<1> HIDE DEF r
<1>5. EndOf(history, r, t)
  <2>1. n - Len(r) = (n - l) + m /\ (n - l) + m >= 0
    BY <1>3, <1>4
  <2>2. ASSUME NEW i \in DOMAIN r PROVE r[i] = history[((n - l) + m) + i]
    <3>1. i \in 1 .. (l - m) /\ m + i \in DOMAIN list /\ (n - l) + (m + i) = ((n - l) + m) + i
      BY <1>3, <1>4
    <3>2. list[m + i] = history[(n - l) + (m + i)]
      BY <3>1 DEF EndOf
    <3> QED
      BY <1>4, <3>1, <3>2
  <2>3. ASSUME NEW i \in 1 .. ((n - l) + m) PROVE t - history[i] >= Window
    <3>1. CASE i <= n - l
      BY <1>3, <3>1 DEF EndOf
    <3>2. CASE ~ (i <= n - l)
      <4>1. i - (n - l) \in 1 .. m /\ i - (n - l) \in DOMAIN list /\ (n - l) + (i - (n - l)) = i
        BY <1>3, <3>2
      <4>2. list[i - (n - l)] = history[i]
        BY <4>1 DEF EndOf
      <4> QED
        BY <1>2, <4>1, <4>2
    <3> QED
      BY <3>1, <3>2
  <2> DEFINE d == (n - l) + m
  <2>4. /\ n - Len(r) = d
        /\ d >= 0
        /\ \A i \in DOMAIN r : r[i] = history[d + i]
        /\ \A i \in 1 .. d : t - history[i] >= Window
    BY <2>1, <2>2, <2>3
  <2> HIDE DEF d
  <2> QED
    BY <2>4, Zenon DEF EndOf
<1>6. ASSUME NEW i \in DOMAIN r PROVE t - r[i] < Window
  <2>1. i \in 1 .. (l - m)
    BY <1>4
  <2>2. m + i \in (m + 1) .. l
    BY <1>3, <2>1
  <2> QED
    BY <1>2, <1>4, <2>1, <2>2
<1> QED
  BY <1>2, <1>4, <1>5, <1>6 DEF r

(* What is too old stays too old. *)
LEMMA EndLater ==
  ASSUME NEW history \in Seq(Nat), NEW list \in Seq(Nat), NEW t \in Nat, NEW u \in Nat,
         t <= u, EndOf(history, list, t)
  PROVE  EndOf(history, list, u)
<1> DEFINE d == Len(history) - Len(list)
<1>1. d \in Nat /\ d <= Len(history)
  BY DEF EndOf
<1>2. ASSUME NEW i \in 1 .. d PROVE u - history[i] >= Window
  <2>1. t - history[i] >= Window /\ history[i] \in Nat
    BY <1>1 DEF EndOf
  <2> QED
    BY <2>1, ThrottleAssumption
<1> QED
  BY <1>2 DEF EndOf

(* The invariant holds at the start ... *)
LEMMA ThrottleStart == ThrottleInit => ThrottleInv
<1> SUFFICES ASSUME ThrottleInit PROVE ThrottleInv
  OBVIOUS
<1> USE ThrottleAssumption DEF ThrottleInit
<1>1. ThrottleTypeOK
  BY DEF ThrottleTypeOK, Times, Phases
<1>2. InOrder
  BY DEF InOrder
<1>3. OnRecord
  BY DEF OnRecord, EndOf
<1>4. Spaced
  BY DEF Spaced
<1> QED
  BY <1>1, <1>2, <1>3, <1>4 DEF ThrottleInv

(* ... and again in a new process, which has an empty map. *)
LEMMA NewProcessKeeps == ThrottleInv /\ NewProcess => ThrottleInv'
<1> SUFFICES ASSUME ThrottleInv, NewProcess PROVE ThrottleInv'
  OBVIOUS
<1> USE ThrottleAssumption DEF NewProcess, ThrottleInv
<1>1. ThrottleTypeOK'
  BY DEF ThrottleTypeOK, Times, Phases
<1>2. InOrder'
  BY DEF ThrottleTypeOK, Times, InOrder
<1>3. OnRecord'
  BY DEF OnRecord, EndOf
<1>4. Spaced'
  BY DEF Spaced
<1> QED
  BY <1>1, <1>2, <1>3, <1>4 DEF ThrottleInv

(* What ThrottleInv says of one connection. *)
ConnInv(c) ==
    /\ attempts[c] \in Seq(Times) /\ recent[c] \in Seq(Times) /\ passed[c] \in Seq(Times)
    /\ at[c] \in Times
    /\ Len(attempts[c]) <= Limit
    /\ at[c] <= now
    /\ Ordered(passed[c])
    /\ \A i \in DOMAIN passed[c] : passed[c][i] <= (IF phase[c] = "idle" THEN now ELSE at[c])
    /\ EndOf(passed[c], attempts[c], IF phase[c] \in {"read", "check"} THEN at[c] ELSE now)
    /\ phase[c] = "check" =>
          /\ EndOf(passed[c], recent[c], at[c])
          /\ \A i \in DOMAIN recent[c] : at[c] - recent[c][i] < Window
    /\ \A i \in DOMAIN passed[c] :
          i + Limit \in DOMAIN passed[c] => passed[c][i + Limit] - passed[c][i] >= Window

(* What it says of the variables as a whole. *)
ThrottleShapes ==
    /\ now \in Times
    /\ attempts \in [Conns -> Seq(Times)]
    /\ phase \in [Conns -> Phases]
    /\ at \in [Conns -> Times]
    /\ recent \in [Conns -> Seq(Times)]
    /\ passed \in [Conns -> Seq(Times)]

EveryConn == \A c \in Conns : ConnInv(c)

(* The invariant, connection by connection. *)
LEMMA ByConn == ThrottleInv <=> ThrottleShapes /\ EveryConn
<1>1. ThrottleInv => ThrottleShapes
  BY DEF ThrottleInv, ThrottleTypeOK, ThrottleShapes
<1>2. ASSUME ThrottleInv, NEW c \in Conns PROVE ConnInv(c)
  BY <1>2 DEF ThrottleInv, ThrottleTypeOK, InOrder, OnRecord, Spaced, ConnInv, Ordered
<1>3. ASSUME ThrottleShapes, EveryConn PROVE ThrottleInv
  <2>1. ThrottleTypeOK
    BY <1>3 DEF EveryConn, ConnInv, ThrottleShapes, ThrottleTypeOK
  <2>2. InOrder
    BY <1>3 DEF EveryConn, ConnInv, Ordered, InOrder
  <2>3. OnRecord
    BY <1>3 DEF EveryConn, ConnInv, OnRecord
  <2>4. Spaced
    BY <1>3 DEF EveryConn, ConnInv, Spaced
  <2> QED
    BY <2>1, <2>2, <2>3, <2>4 DEF ThrottleInv
<1> QED
  BY <1>1, <1>2, <1>3 DEF EveryConn

(* A step that another connection takes. *)
SameConn(c) ==
    /\ attempts'[c] = attempts[c] /\ phase'[c] = phase[c] /\ at'[c] = at[c]
    /\ recent'[c] = recent[c] /\ passed'[c] = passed[c]

LEMMA OtherKeeps ==
  ASSUME NEW c, ConnInv(c), SameConn(c), now' = now
  PROVE  ConnInv(c)'
<1> USE DEF SameConn
<1>1. /\ attempts'[c] \in Seq(Times) /\ recent'[c] \in Seq(Times) /\ passed'[c] \in Seq(Times)
      /\ at'[c] \in Times
      /\ Len(attempts'[c]) <= Limit
      /\ at'[c] <= now'
      /\ Ordered(passed'[c])
  BY DEF ConnInv
<1>2. \A i \in DOMAIN passed'[c] : passed'[c][i] <= (IF phase'[c] = "idle" THEN now' ELSE at'[c])
  BY DEF ConnInv
<1>3. EndOf(passed'[c], attempts'[c], IF phase'[c] \in {"read", "check"} THEN at'[c] ELSE now')
  BY DEF ConnInv
<1>4. phase'[c] = "check" =>
          /\ EndOf(passed'[c], recent'[c], at'[c])
          /\ \A i \in DOMAIN recent'[c] : at'[c] - recent'[c][i] < Window
  BY DEF ConnInv
<1>5. \A i \in DOMAIN passed'[c] :
          i + Limit \in DOMAIN passed'[c] => passed'[c][i + Limit] - passed'[c][i] >= Window
  BY DEF ConnInv
<1> QED
  BY <1>1, <1>2, <1>3, <1>4, <1>5 DEF ConnInv

(* The times of a connection are natural numbers. *)
LEMMA ConnTimes ==
  ASSUME ThrottleShapes, NEW c, ConnInv(c)
  PROVE  /\ passed[c] \in Seq(Nat) /\ attempts[c] \in Seq(Nat)
         /\ at[c] \in Nat /\ now \in Nat /\ at[c] <= now
         /\ Times \subseteq Nat /\ 0 \in Times
<1>1. Times \subseteq Nat /\ 0 \in Times
  BY ThrottleAssumption DEF Times
<1>2. passed[c] \in Seq(Times) /\ attempts[c] \in Seq(Times) /\ at[c] \in Times /\ now \in Times
  BY DEF ConnInv, ThrottleShapes
<1>3. passed[c] \in Seq(Nat) /\ attempts[c] \in Seq(Nat)
  BY <1>1, <1>2, SeqMonotonic
<1> QED
  BY <1>1, <1>2, <1>3 DEF ConnInv

(* Time goes by. *)
LEMMA TickKeeps ==
  ASSUME ThrottleShapes, NEW c \in Conns, ConnInv(c), Tick
  PROVE  ConnInv(c)'
<1> USE ThrottleAssumption DEF Tick
<1> DEFINE u == IF phase[c] \in {"read", "check"} THEN at[c] ELSE now
           v == IF phase[c] \in {"read", "check"} THEN at[c] ELSE now + 1
<1>1. u \in Nat /\ v \in Nat /\ u <= v /\ now \in Nat /\ at[c] \in Nat
  BY ConnTimes
<1>2. passed[c] \in Seq(Nat) /\ attempts[c] \in Seq(Nat)
  BY ConnTimes
<1>3. EndOf(passed[c], attempts[c], v)
  <2>1. EndOf(passed[c], attempts[c], u)
    BY DEF ConnInv
  <2> HIDE DEF u, v
  <2> QED
    BY <1>1, <1>2, <2>1, EndLater
<1>4. \A i \in DOMAIN passed[c] : passed[c][i] <= (IF phase[c] = "idle" THEN now + 1 ELSE at[c])
  <2> SUFFICES ASSUME NEW i \in DOMAIN passed[c]
               PROVE  passed[c][i] <= (IF phase[c] = "idle" THEN now + 1 ELSE at[c])
    OBVIOUS
  <2>1. passed[c][i] \in Nat
    BY <1>2
  <2> QED
    BY <1>1, <2>1 DEF ConnInv
<1>5. /\ attempts[c] \in Seq(Times) /\ recent[c] \in Seq(Times) /\ passed[c] \in Seq(Times)
      /\ at[c] \in Times
      /\ Len(attempts[c]) <= Limit
      /\ at[c] <= now + 1
      /\ Ordered(passed[c])
  BY <1>1 DEF ConnInv
<1> QED
  BY <1>3, <1>4, <1>5 DEF ConnInv

LEMMA BeginKeeps ==
  ASSUME ThrottleShapes, NEW c \in Conns, ConnInv(c), Begin(c)
  PROVE  ConnInv(c)'
<1>1. /\ phase[c] = "idle" /\ phase'[c] = "read" /\ at'[c] = now
      /\ now' = now /\ attempts' = attempts /\ recent' = recent /\ passed' = passed
  BY DEF Begin, Go, ThrottleShapes
<1>2. now \in Times /\ now <= now
  BY DEF ThrottleShapes, Times
<1> QED
  BY <1>1, <1>2 DEF ConnInv

(* The loop over attempts.byIP[ip]. *)
LEMMA FilterKeeps ==
  ASSUME ThrottleShapes, NEW c \in Conns, ConnInv(c), Filter(c)
  PROVE  ConnInv(c)'
<1> DEFINE r == Recent(at[c], attempts[c])
<1>1. /\ phase[c] = "read" /\ phase'[c] = "check" /\ recent'[c] = r
      /\ now' = now /\ attempts' = attempts /\ at' = at /\ passed' = passed
  BY DEF Filter, Go, ThrottleShapes
<1>2. passed[c] \in Seq(Nat) /\ at[c] \in Nat /\ Times \subseteq Nat
  BY ConnTimes
<1>3. EndOf(passed[c], attempts[c], at[c]) /\ Ordered(passed[c]) /\ attempts[c] \in Seq(Times)
  BY <1>1 DEF ConnInv
<1>4. /\ r \in Seq(Times)
      /\ EndOf(passed[c], r, at[c])
      /\ \A i \in DOMAIN r : at[c] - r[i] < Window
  <2> HIDE DEF r
  <2>1. /\ Recent(at[c], attempts[c]) \in Seq(Times)
        /\ EndOf(passed[c], Recent(at[c], attempts[c]), at[c])
        /\ \A i \in DOMAIN Recent(at[c], attempts[c]) :
              at[c] - Recent(at[c], attempts[c])[i] < Window
    BY <1>2, <1>3, RecentIsEnd
  <2> QED
    BY <2>1 DEF r
<1> HIDE DEF r
<1> QED
  BY <1>1, <1>3, <1>4 DEF ConnInv

(* The reply, 429 or that of the login. *)
LEMMA BackToIdle ==
  ASSUME ThrottleShapes, NEW c \in Conns, ConnInv(c), Refuse(c) \/ Answer(c)
  PROVE  ConnInv(c)'
<1>1. /\ phase[c] \in {"check", "answer"} /\ phase'[c] = "idle" /\ recent'[c] = <<>> /\ at'[c] = 0
      /\ now' = now /\ attempts' = attempts /\ passed' = passed
  BY DEF Refuse, Answer, Go, ThrottleShapes
<1>2. /\ passed[c] \in Seq(Nat) /\ attempts[c] \in Seq(Nat) /\ at[c] \in Nat /\ now \in Nat
      /\ at[c] <= now /\ 0 \in Times /\ 0 <= now
  BY ConnTimes
<1>3. EndOf(passed[c], attempts[c], now)
  BY <1>1, <1>2, EndLater DEF ConnInv
<1>4. \A i \in DOMAIN passed[c] : passed[c][i] <= now
  <2> SUFFICES ASSUME NEW i \in DOMAIN passed[c] PROVE passed[c][i] <= now
    OBVIOUS
  <2>1. passed[c][i] \in Nat
    BY <1>2
  <2>2. passed[c][i] <= at[c]
    <3>1. phase[c] # "idle"
      BY <1>1
    <3> QED
      BY <3>1 DEF ConnInv
  <2> QED
    BY <1>2, <2>1, <2>2
<1>5. recent'[c] \in Seq(Times)
  BY <1>1
<1> QED
  BY <1>1, <1>2, <1>3, <1>4, <1>5 DEF ConnInv

(* The unlocked store that is lost: the map keeps what it had. *)
LEMMA StoreLostKeeps ==
  ASSUME ThrottleShapes, NEW c \in Conns, ConnInv(c), StoreLost(c)
  PROVE  ConnInv(c)'
<1>1. /\ phase[c] = "check" /\ phase'[c] = "answer" /\ recent' = recent /\ at' = at
      /\ now' = now /\ attempts' = attempts /\ passed' = passed
  BY DEF StoreLost, Go, ThrottleShapes
<1>2. /\ passed[c] \in Seq(Nat) /\ attempts[c] \in Seq(Nat) /\ at[c] \in Nat /\ now \in Nat
      /\ at[c] <= now
  BY ConnTimes
<1>3. EndOf(passed[c], attempts[c], now)
  BY <1>1, <1>2, EndLater DEF ConnInv
<1> QED
  BY <1>1, <1>3 DEF ConnInv

(* The append to the list and the store: the new attempt is a Window away from
   the one Limit places before, which the loop cut off. *)
LEMMA RecordKeeps ==
  ASSUME ThrottleShapes, NEW c \in Conns, ConnInv(c), Record(c)
  PROVE  ConnInv(c)'
<1> USE ThrottleAssumption
<1>1. /\ phase[c] = "check" /\ phase'[c] = "answer" /\ recent' = recent /\ at' = at /\ now' = now
      /\ attempts'[c] = Append(recent[c], at[c]) /\ passed'[c] = Append(passed[c], at[c])
      /\ Len(recent[c]) < Limit
  BY DEF Record, Go, ThrottleShapes
<1>2. /\ passed[c] \in Seq(Nat) /\ at[c] \in Nat /\ now \in Nat /\ at[c] <= now
      /\ recent[c] \in Seq(Times) /\ passed[c] \in Seq(Times) /\ at[c] \in Times
  BY ConnTimes DEF ConnInv
<1> DEFINE n == Len(passed[c])
           k == Len(recent[c])
           p == passed[c]
           q == Append(passed[c], at[c])
           r == recent[c]
           a == Append(recent[c], at[c])
<1>3. n \in Nat /\ k \in Nat /\ k < Limit
  BY <1>1, <1>2
<1>4. /\ q \in Seq(Times) /\ Len(q) = n + 1 /\ q[n + 1] = at[c]
      /\ \A i \in 1 .. n : q[i] = p[i]
  BY <1>2, AppendProperties
<1>5. /\ a \in Seq(Times) /\ Len(a) = k + 1 /\ a[k + 1] = at[c]
      /\ \A i \in 1 .. k : a[i] = r[i]
  BY <1>2, AppendProperties
<1>6. EndOf(p, r, at[c]) /\ Ordered(p)
  BY <1>1 DEF ConnInv
<1>7. DOMAIN p = 1 .. n /\ DOMAIN r = 1 .. k
  BY <1>2
<1>8. \A i \in 1 .. n : p[i] <= at[c] /\ p[i] \in Nat
  <2>1. \A i \in DOMAIN p : p[i] <= at[c]
    BY <1>1 DEF ConnInv
  <2>2. \A i \in DOMAIN p : p[i] \in Nat
    BY <1>2
  <2> HIDE DEF p
  <2> QED
    BY <1>7, <2>1, <2>2
<1>9. \A i \in 1 .. n : i + Limit \in 1 .. n => p[i + Limit] - p[i] >= Window
  <2>1. \A i \in DOMAIN p : i + Limit \in DOMAIN p => p[i + Limit] - p[i] >= Window
    BY DEF ConnInv
  <2> HIDE DEF p, n
  <2> QED
    BY <1>7, <2>1
<1>10. n - k >= 0 /\ \A i \in 1 .. n - k : at[c] - p[i] >= Window
  BY <1>6 DEF EndOf
<1>11. \A i \in 1 .. k : r[i] = p[(n - k) + i]
  <2>1. \A i \in DOMAIN r : r[i] = p[(n - k) + i]
    BY <1>6 DEF EndOf
  <2> HIDE DEF r, p, n
  <2> QED
    BY <1>7, <2>1
<1> HIDE DEF p, q, r, a, n, k
<1>12. DOMAIN q = 1 .. (n + 1) /\ DOMAIN a = 1 .. (k + 1)
  BY <1>4, <1>5
<1>13. Ordered(q)
  <2> SUFFICES ASSUME NEW i \in 1 .. (n + 1), NEW j \in 1 .. (n + 1), i <= j
               PROVE  q[i] <= q[j]
    BY <1>12 DEF Ordered
  <2>1. CASE j \in 1 .. n
    <3>1. i \in 1 .. n /\ p[i] <= p[j]
      BY <1>3, <1>6, <1>7, <2>1 DEF Ordered
    <3> QED
      BY <1>4, <2>1, <3>1
  <2>2. CASE j = n + 1 /\ i \in 1 .. n
    BY <1>4, <1>8, <2>2
  <2>3. CASE j = n + 1 /\ i = n + 1
    BY <1>2, <1>4, <2>3
  <2> QED
    BY <1>3, <2>1, <2>2, <2>3
<1>14. \A i \in 1 .. (n + 1) : q[i] <= at[c]
  <2> TAKE i \in 1 .. (n + 1)
  <2>1. CASE i \in 1 .. n
    BY <1>4, <1>8, <2>1
  <2>2. CASE i = n + 1
    BY <1>2, <1>4, <2>2
  <2> QED
    BY <1>3, <2>1, <2>2
<1>15. EndOf(q, a, now)
  <2>1. Len(q) - Len(a) = n - k
    BY <1>3, <1>4, <1>5
  <2>2. ASSUME NEW i \in 1 .. (k + 1) PROVE a[i] = q[(n - k) + i]
    <3>1. CASE i \in 1 .. k
      <4>1. (n - k) + i \in 1 .. n
        BY <1>3, <1>10, <3>1
      <4> QED
        BY <1>4, <1>5, <1>11, <3>1, <4>1
    <3>2. CASE i = k + 1
      <4>1. (n - k) + i = n + 1
        BY <1>3, <3>2
      <4> QED
        BY <1>4, <1>5, <3>2, <4>1
    <3> QED
      BY <1>3, <3>1, <3>2
  <2>3. ASSUME NEW i \in 1 .. (n - k) PROVE now - q[i] >= Window
    <3>1. i \in 1 .. n /\ at[c] - p[i] >= Window
      BY <1>3, <1>10
    <3>2. q[i] = p[i] /\ p[i] \in Nat
      BY <1>4, <1>8, <3>1
    <3> QED
      BY <1>2, <3>1, <3>2
  <2> DEFINE d == n - k
  <2>4. /\ Len(q) - Len(a) = d /\ d >= 0
        /\ \A i \in DOMAIN a : a[i] = q[d + i]
        /\ \A i \in 1 .. d : now - q[i] >= Window
    BY <1>10, <1>12, <2>1, <2>2, <2>3
  <2> HIDE DEF d
  <2> QED
    BY <2>4, Zenon DEF EndOf
<1>16. ASSUME NEW i \in 1 .. (n + 1), i + Limit \in 1 .. (n + 1)
       PROVE  q[i + Limit] - q[i] >= Window
  <2>1. i \in 1 .. n
    BY <1>3, <1>16
  <2>2. CASE i + Limit \in 1 .. n
    BY <1>4, <1>9, <2>1, <2>2
  <2>3. CASE i + Limit = n + 1
    <3>1. i \in 1 .. n - k
      BY <1>3, <2>1, <2>3
    <3> QED
      BY <1>4, <1>10, <2>1, <2>3, <3>1
  <2> QED
    BY <1>3, <1>16, <2>2, <2>3
<1>17. passed'[c] = q /\ attempts'[c] = a /\ Len(a) <= Limit
  <2>1. passed'[c] = q /\ attempts'[c] = a
    BY <1>1 DEF q, a
  <2> QED
    BY <1>3, <1>5, <2>1
<1> QED
  BY <1>1, <1>2, <1>4, <1>5, <1>12, <1>13, <1>14, <1>15, <1>16, <1>17 DEF ConnInv

(* Every step of the handlers, the clock or the process keeps the invariant. *)
LEMMA ThrottleStep == ThrottleInv /\ [ThrottleNext]_throttleVars => ThrottleInv'
<1> SUFFICES ASSUME ThrottleInv, [ThrottleNext]_throttleVars PROVE ThrottleInv'
  OBVIOUS
<1>1. ThrottleShapes /\ \A c \in Conns : ConnInv(c)
  BY ByConn DEF EveryConn
<1>2. ASSUME NEW c \in Conns,
             Begin(c) \/ Filter(c) \/ Refuse(c) \/ Record(c) \/ Answer(c) \/ StoreLost(c)
      PROVE  ThrottleInv'
  <2>1. now' = now /\ \A k \in Conns \ {c} : SameConn(k)
    BY <1>1, <1>2 DEF Begin, Filter, Refuse, Record, Answer, StoreLost, Go, ThrottleShapes, SameConn
  <2>2. ConnInv(c)'
    BY <1>1, <1>2, BeginKeeps, FilterKeeps, BackToIdle, RecordKeeps, StoreLostKeeps
  <2>3. \A k \in Conns : ConnInv(k)'
    BY <1>1, <2>1, <2>2, OtherKeeps
  <2>4. ThrottleShapes'
    BY <1>1, <1>2, <2>1, <2>3
       DEF Begin, Filter, Refuse, Record, Answer, StoreLost, Go, ThrottleShapes, Phases, ConnInv
  <2>5. EveryConn' /\ ThrottleShapes'
    BY <2>3, <2>4 DEF EveryConn
  <2> QED
    BY <2>5, ByConn, PTL
<1>3. CASE FatalRace \/ Restart
  BY <1>3, NewProcessKeeps DEF FatalRace, Restart
<1>4. CASE Tick
  <2>1. ThrottleShapes'
    BY <1>1, <1>4, ThrottleAssumption DEF Tick, ThrottleShapes, Times
  <2>2. \A c \in Conns : ConnInv(c)'
    BY <1>1, <1>4, TickKeeps
  <2>3. EveryConn' /\ ThrottleShapes'
    BY <2>1, <2>2 DEF EveryConn
  <2> QED
    BY <2>3, ByConn, PTL
<1>5. CASE UNCHANGED throttleVars
  <2>1. ThrottleShapes' /\ now' = now
    BY <1>1, <1>5 DEF throttleVars, ThrottleShapes
  <2>2. \A c \in Conns : ConnInv(c)'
    BY <1>1, <1>5, OtherKeeps DEF throttleVars, SameConn
  <2>3. EveryConn' /\ ThrottleShapes'
    BY <2>1, <2>2 DEF EveryConn
  <2> QED
    BY <2>3, ByConn, PTL
<1> QED
  BY <1>2, <1>3, <1>4, <1>5 DEF ThrottleNext

(* The map holds, for every connection, the end of what was let through, and
   what a request counts of it is all that is younger than the window
   (handleAuthLogin, the loop over attempts.byIP). *)
THEOREM ThrottleInvariant == ThrottleSpec => []ThrottleInv
<1> QED
  BY ThrottleStart, ThrottleStep, PTL DEF ThrottleSpec

(* The counted attempts are the last Len(recent[c]) ones. *)
LEMMA CountOf ==
  ASSUME ThrottleInv, NEW c \in Conns, phase[c] = "check"
  PROVE  Len(recent[c]) = InWindow(passed[c], at[c])
<1> USE ThrottleAssumption
<1> DEFINE n == Len(passed[c])
           k == Len(recent[c])
           counted == {i \in DOMAIN passed[c] :
                           at[c] - Window < passed[c][i] /\ passed[c][i] <= at[c]}
<1>1. ThrottleShapes /\ ConnInv(c)
  BY ByConn DEF EveryConn
<1>2. passed[c] \in Seq(Nat) /\ at[c] \in Nat /\ n \in Nat
  BY <1>1, ConnTimes
<1>3. EndOf(passed[c], recent[c], at[c]) /\ recent[c] \in Seq(Times) /\ k \in Nat
  BY <1>1 DEF ConnInv
<1>4. \A i \in DOMAIN recent[c] : at[c] - recent[c][i] < Window
  BY <1>1 DEF ConnInv
<1>5. \A i \in DOMAIN passed[c] : passed[c][i] <= at[c]
  BY <1>1 DEF ConnInv
<1>6. n - k >= 0 /\ \A i \in 1 .. n - k : at[c] - passed[c][i] >= Window
  BY <1>3 DEF EndOf
<1>7. DOMAIN passed[c] = 1 .. n /\ DOMAIN recent[c] = 1 .. k
  BY <1>2, <1>3
<1>8. \A i \in DOMAIN recent[c] : recent[c][i] = passed[c][(n - k) + i]
  BY <1>3 DEF EndOf
<1> HIDE DEF n, k
<1>9. ASSUME NEW i \in 1 .. n PROVE i \in counted <=> i \in (n - k) + 1 .. n
  <2>1. passed[c][i] \in Nat /\ passed[c][i] <= at[c] /\ i \in DOMAIN passed[c]
    BY <1>2, <1>5, <1>7
  <2>2. CASE i <= n - k
    <3>1. at[c] - passed[c][i] >= Window
      BY <1>2, <1>3, <1>6, <2>2
    <3> QED
      BY <1>2, <1>3, <1>6, <2>1, <2>2, <3>1
  <2>3. CASE ~ (i <= n - k)
    <3>1. i - (n - k) \in 1 .. k /\ (n - k) + (i - (n - k)) = i
      BY <1>2, <1>3, <1>6, <2>3
    <3>2. at[c] - passed[c][i] < Window
      BY <1>4, <1>7, <1>8, <3>1
    <3> QED
      BY <1>2, <1>3, <2>1, <2>3, <3>2
  <2> QED
    BY <2>2, <2>3
<1>10. counted = (n - k) + 1 .. n
  <2>1. counted \subseteq 1 .. n
    BY <1>7
  <2>2. (n - k) + 1 .. n \subseteq 1 .. n
    BY <1>2, <1>3, <1>6
  <2> HIDE DEF counted
  <2> QED
    BY <1>9, <2>1, <2>2
<1>11. Cardinality((n - k) + 1 .. n) = k
  <2>1. (n - k) + 1 \in Int /\ n \in Int
    BY <1>2, <1>3
  <2>2. Cardinality((n - k) + 1 .. n) = IF (n - k) + 1 > n THEN 0 ELSE n - ((n - k) + 1) + 1
    BY <2>1, FS_Interval
  <2> QED
    BY <1>2, <1>3, <1>6, <2>2
<1> QED
  BY <1>10, <1>11 DEF InWindow, k

(* The attempts of a window lie within Limit places of the first of them. *)
LEMMA WindowHolds ==
  ASSUME ThrottleInv, NEW c \in Conns, NEW t \in Times
  PROVE  InWindow(passed[c], t) <= Limit
<1> USE ThrottleAssumption
<1> DEFINE n == Len(passed[c])
           W == {i \in DOMAIN passed[c] : t - Window < passed[c][i] /\ passed[c][i] <= t}
<1>1. ThrottleShapes /\ ConnInv(c)
  BY ByConn DEF EveryConn
<1>2. passed[c] \in Seq(Nat) /\ n \in Nat /\ t \in Nat
  BY <1>1, ConnTimes
<1>3. Ordered(passed[c])
  BY <1>1 DEF ConnInv
<1>4. DOMAIN passed[c] = 1 .. n
  BY <1>2
<1>5. \A i \in DOMAIN passed[c] :
         i + Limit \in DOMAIN passed[c] => passed[c][i + Limit] - passed[c][i] >= Window
  BY <1>1 DEF ConnInv
<1> HIDE DEF n
<1>6. CASE W = {}
  BY <1>6, FS_EmptySet DEF InWindow
<1>7. CASE W # {}
  <2>1. W \in SUBSET Nat
    BY <1>4
  <2>2. PICK x \in W : \A y \in W : x <= y
    <3> HIDE DEF W
    <3> QED
      BY <1>7, <2>1, SmallestOf
  <2>3. ASSUME NEW y \in W PROVE y \in x .. (x + Limit - 1)
    <3>1. x \in 1 .. n /\ y \in 1 .. n /\ x <= y
      BY <1>4, <2>2
    <3>2. passed[c][x] \in Nat /\ passed[c][y] \in Nat
      BY <1>2, <1>4, <3>1
    <3>3. t - Window < passed[c][x] /\ passed[c][y] <= t
      OBVIOUS
    <3>4. ASSUME x + Limit <= y PROVE FALSE
      <4>1. x + Limit \in 1 .. n
        BY <1>2, <3>1, <3>4
      <4>2. passed[c][x + Limit] - passed[c][x] >= Window /\ passed[c][x + Limit] \in Nat
        <5>1. x \in DOMAIN passed[c] /\ x + Limit \in DOMAIN passed[c]
          BY <1>4, <3>1, <4>1
        <5>2. passed[c][x + Limit] \in Nat
          BY <1>2, <5>1
        <5> QED
          BY <1>5, <5>1, <5>2
      <4>3. passed[c][x + Limit] <= passed[c][y]
        BY <1>3, <1>4, <3>1, <3>4, <4>1 DEF Ordered
      <4> HIDE DEF W
      <4> DEFINE first == passed[c][x]
                 next == passed[c][x + Limit]
                 last == passed[c][y]
      <4>4. /\ first \in Nat /\ next \in Nat /\ last \in Nat /\ Window \in Nat /\ t \in Nat
            /\ t - Window < first /\ last <= t /\ next - first >= Window /\ next <= last
        BY <1>2, <3>2, <3>3, <4>2, <4>3
      <4> HIDE DEF first, next, last
      <4> QED
        BY ONLY <4>4
    <3> QED
      BY <3>1, <3>4
  <2>4. x \in Nat /\ x + Limit - 1 \in Nat
    BY <2>1
  <2>5. W \in SUBSET (x .. (x + Limit - 1))
    BY <2>3
  <2>6. IsFiniteSet(x .. (x + Limit - 1)) /\ Cardinality(x .. (x + Limit - 1)) = Limit
    <3>1. /\ IsFiniteSet(x .. (x + Limit - 1))
          /\ Cardinality(x .. (x + Limit - 1)) =
                IF x > x + Limit - 1 THEN 0 ELSE (x + Limit - 1) - x + 1
      BY <2>4, FS_Interval
    <3> QED
      BY <2>4, <3>1
  <2>7. Cardinality(W) <= Limit
    <3> HIDE DEF W
    <3> QED
      BY <2>5, <2>6, FS_Subset
  <2> QED
    BY <2>7 DEF InWindow
<1> QED
  BY <1>6, <1>7

(* No more than Limit attempts of a connection get through in any window, for
   every Window, Limit and number of connections, lost stores and restarts
   included (handleAuthLogin). *)
THEOREM AtMostLimit == ThrottleSpec => []WindowBound
<1>1. ThrottleInv => WindowBound
  BY WindowHolds DEF WindowBound
<1> QED
  BY <1>1, ThrottleInvariant, PTL

(* The number a request compares with the limit is the number of attempts let
   through in the window that ends now: no more, no fewer (handleAuthLogin). *)
THEOREM CountsExactly == ThrottleSpec => []CountExact
<1>1. ThrottleInv => CountExact
  BY CountOf DEF CountExact
<1> QED
  BY <1>1, ThrottleInvariant, PTL
=============================================================================
