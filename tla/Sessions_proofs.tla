--------------------------- MODULE Sessions_proofs ---------------------------
(***************************************************************************)
(* Proofs about Sessions for any number of connections and tokens, any     *)
(* lifetime and any bound on the clock: the inductive invariant, and that  *)
(* the code's session manager implements SessionContract.                  *)
(***************************************************************************)
EXTENDS Sessions, TLAPS

LEMMA InitIInv == Init => IInv
BY SessionAssumption
   DEF Init, IInv, TypeOK, OnlyHanded, FreshInFlight, CookiesHanded, ServedUnderToken,
       JanitorClock, LogoutKnowsActor, Stages, Absent

(* Each action preserves the inductive invariant. *)
LEMMA NextIInv == IInv /\ [Next]_vars => IInv'
<1> SUFFICES ASSUME IInv, [Next]_vars PROVE IInv'
  OBVIOUS
<1> USE SessionAssumption DEF Absent
<1> USE DEF IInv, TypeOK, OnlyHanded, FreshInFlight, CookiesHanded, ServedUnderToken,
            JanitorClock, LogoutKnowsActor, Username, Stages
<1>1. ASSUME NEW c \in Conns, Arrive(c) PROVE IInv'
  BY <1>1 DEF Arrive, Go
<1>2. ASSUME NEW c \in Conns, Admit(c) PROVE IInv'
  BY <1>2 DEF Admit, Go
<1>3. ASSUME NEW c \in Conns, Refuse(c) PROVE IInv'
  BY <1>3 DEF Refuse, Return, Go
<1>4. ASSUME NEW c \in Conns, Finish(c) PROVE IInv'
  BY <1>4 DEF Finish, Return, Go
<1>5. ASSUME NEW c \in Conns, LoginDraw(c) PROVE IInv'
  BY <1>5 DEF LoginDraw, Go, InFlight
<1>6. ASSUME NEW c \in Conns, LoginFail(c) PROVE IInv'
  BY <1>6 DEF LoginFail, Return, Go
<1>7. ASSUME NEW c \in Conns, LoginInsert(c) PROVE IInv'
  BY <1>7 DEF LoginInsert, Return, Go
<1>8. ASSUME NEW c \in Conns, LogoutLookup(c) PROVE IInv'
  BY <1>8 DEF LogoutLookup, Go
<1>9. ASSUME NEW c \in Conns, LogoutDestroy(c) PROVE IInv'
  BY <1>9 DEF LogoutDestroy, Return, Go
<1>10. CASE JanitorWake
  BY <1>10 DEF JanitorWake
<1>11. CASE JanitorSweep
  BY <1>11 DEF JanitorSweep, Expired
<1>12. CASE Tick
  BY <1>12 DEF Tick
<1>13. CASE Restart
  BY <1>13 DEF Restart
<1>14. CASE UNCHANGED vars
  BY <1>14 DEF vars
<1> QED
  BY <1>1, <1>2, <1>3, <1>4, <1>5, <1>6, <1>7, <1>8, <1>9, <1>10, <1>11, <1>12, <1>13,
     <1>14 DEF Next, Request, Janitor

(* The invariant that carries the refinement holds in every reachable state
   (auth/session.go with the login, logout and guard handlers). *)
THEOREM SessionInvariant == Spec => []IInv
<1>1. Init => IInv
  BY InitIInv
<1>2. IInv /\ [Next]_vars => IInv'
  BY NextIInv
<1> QED
  BY <1>1, <1>2, PTL DEF Spec

(* A logout that takes away a usable session has its actor: what is usable when
   Destroy deletes it was usable when Username looked (handleAuthLogout). *)
THEOREM LogoutNamesActor == Spec => []LogoutKnowsActor
<1>1. IInv => LogoutKnowsActor
  BY DEF IInv
<1> QED
  BY <1>1, SessionInvariant, PTL

-----------------------------------------------------------------------------
(* The refinement.  The contract's deadline of a token is its expiry as long
   as a client could still use it; a session that is in the map only because
   the janitor has not come round yet is already gone for the contract. *)

LEMMA InitContract == Init => Contract!Init
BY DEF Init, Contract!Init, Absent, Contract!Absent, RequestStage, Presented, Entered, StageFor

(* A step of the handler of one connection, as the contract sees it. *)
LEMMA MoveMaps ==
    ASSUME NEW c \in Conns, NEW from \in Stages, NEW to \in Stages,
           pc \in [Conns -> Stages], Go(c, from, to),
           \A d \in Conns \ {c} : tok'[d] = tok[d] /\ exp'[d] = exp[d]
    PROVE  Contract!Move(c, StageFor(from), StageFor(to), Presented'[c], Entered'[c])
<1>1. /\ pc[c] = from /\ pc'[c] = to
      /\ \A d \in Conns \ {c} : pc'[d] = pc[d]
  BY DEF Go
<1>2. RequestStage[c] = StageFor(from)
  BY <1>1 DEF RequestStage
<1>3. RequestStage' = [RequestStage EXCEPT ![c] = StageFor(to)]
  BY <1>1 DEF RequestStage
<1>4. Presented' = [Presented EXCEPT ![c] = Presented'[c]]
  BY <1>1 DEF Presented
<1>5. Entered' = [Entered EXCEPT ![c] = Entered'[c]]
  BY <1>1 DEF Entered
<1> QED
  BY <1>2, <1>3, <1>4, <1>5 DEF Contract!Move

(* Steps that leave the sessions, the clock and every request alone. *)
LEMMA QuietStep ==
    ASSUME UNCHANGED <<now, handed, sessions>>,
           \A d \in Conns : /\ StageFor(pc'[d]) = StageFor(pc[d])
                            /\ Presented'[d] = Presented[d]
                            /\ Entered'[d] = Entered[d]
    PROVE  UNCHANGED Contract!cvars
<1>1. RequestStage' = RequestStage
  BY DEF RequestStage
<1>2. Presented' = Presented
  <2>1. Presented' = [d \in Conns |-> Presented'[d]] /\ Presented = [d \in Conns |-> Presented[d]]
    BY DEF Presented
  <2> QED
    BY <2>1
<1>3. Entered' = Entered
  <2>1. Entered' = [d \in Conns |-> Entered'[d]] /\ Entered = [d \in Conns |-> Entered[d]]
    BY DEF Entered
  <2> QED
    BY <2>1
<1> QED
  BY <1>1, <1>2, <1>3 DEF Contract!cvars

LEMMA NextContract == IInv /\ [Next]_vars => [Contract!Next]_(Contract!cvars)
<1> SUFFICES ASSUME IInv, [Next]_vars PROVE [Contract!Next]_(Contract!cvars)
  OBVIOUS
<1> USE SessionAssumption DEF Absent, Contract!Absent
<1>t. TypeOK
  BY DEF IInv
<1>0. ASSUME NEW c \in Conns
      PROVE  /\ Presented[c] = IF StageFor(pc[c]) \in {"quiet", "entering"} THEN NoToken ELSE tok[c]
             /\ Presented'[c] = IF StageFor(pc'[c]) \in {"quiet", "entering"} THEN NoToken ELSE tok'[c]
             /\ Entered[c] = IF pc[c] = "insert" THEN exp[c] ELSE 0
             /\ Entered'[c] = IF pc'[c] = "insert" THEN exp'[c] ELSE 0
  BY DEF Presented, Entered
<1>m. ASSUME NEW c \in Conns, NEW from \in Stages, NEW to \in Stages, Go(c, from, to),
             \A d \in Conns \ {c} : tok'[d] = tok[d] /\ exp'[d] = exp[d]
      PROVE  Contract!Move(c, StageFor(from), StageFor(to), Presented'[c], Entered'[c])
  BY <1>t, <1>m, MoveMaps DEF TypeOK
<1>r. ASSUME NEW c \in Conns, NEW from \in Stages, Return(c, from)
      PROVE  Contract!Rest(c, StageFor(from))
  <2>1. Contract!Move(c, StageFor(from), StageFor("idle"), Presented'[c], Entered'[c])
    BY <1>r, <1>t, <1>m DEF Return, TypeOK, Stages
  <2>2. StageFor("idle") = "quiet" /\ pc'[c] = "idle"
    BY <1>r, <1>t DEF StageFor, Return, Go, TypeOK
  <2> QED
    BY <2>1, <2>2, <1>0 DEF Contract!Rest
<1>1. ASSUME NEW c \in Conns, Arrive(c) PROVE [Contract!Next]_(Contract!cvars)
  <2>1. PICK to \in {"guard", "verify", "logout"} : Go(c, "idle", to)
    BY <1>1 DEF Arrive
  <2>2. PICK t \in handed \cup {NoToken} : tok' = [tok EXCEPT ![c] = t]
    BY <1>1 DEF Arrive
  <2>3. tok'[c] = t /\ pc'[c] = to /\ pc[c] = "idle"
        /\ \A d \in Conns \ {c} : tok'[d] = tok[d] /\ exp'[d] = exp[d] /\ pc'[d] = pc[d]
    BY <1>1, <1>t, <2>1, <2>2 DEF Arrive, TypeOK, Go
  <2>4. CASE to = "verify"
    <3>1. \A d \in Conns : /\ StageFor(pc'[d]) = StageFor(pc[d])
                           /\ Presented'[d] = Presented[d]
                           /\ Entered'[d] = Entered[d]
      BY <2>3, <2>4, <1>0 DEF StageFor
    <3> QED
      BY <1>1, <3>1, QuietStep DEF Arrive
  <2>5. CASE to # "verify"
    <3>1. Contract!Move(c, StageFor("idle"), StageFor(to), Presented'[c], Entered'[c])
      BY <2>1, <2>3, <1>m DEF Stages
    <3>2. StageFor("idle") = "quiet" /\ StageFor(to) \in {"asking", "leaving"}
      BY <2>5 DEF StageFor
    <3>3. Presented'[c] = t /\ Entered'[c] = 0
      BY <2>3, <3>2, <2>5, <1>0
    <3>4. Contract!Present(c)
      BY <1>1, <3>1, <3>2, <3>3 DEF Contract!Present, Arrive
    <3> QED
      BY <3>4 DEF Contract!Next
  <2> QED
    BY <2>4, <2>5
<1>2. ASSUME NEW c \in Conns, Admit(c) PROVE Contract!Next
  <2>1. /\ Go(c, "guard", "serving") /\ pc[c] = "guard" /\ pc'[c] = "serving"
        /\ tok' = tok /\ exp' = exp
    BY <1>2, <1>t DEF Admit, Go, TypeOK
  <2>2. Contract!Move(c, StageFor("guard"), StageFor("serving"), Presented'[c], Entered'[c])
    BY <2>1, <1>m DEF Stages
  <2>3. StageFor("guard") = "asking" /\ StageFor("serving") = "serving"
    BY DEF StageFor
  <2>4. Presented[c] = tok[c] /\ Presented'[c] = tok[c] /\ Entered'[c] = 0
    BY <2>1, <2>3, <1>0
  <2>5. tok[c] \in Tokens /\ now <= sessions[tok[c]] /\ tok[c] # NoToken
    BY <1>2, <1>t DEF Admit, Username, TypeOK
  <2>6. Contract!Usable(Presented[c])
    BY <2>4, <2>5 DEF Contract!Usable
  <2>7. Contract!LetIn(c)
    BY <1>2, <2>2, <2>3, <2>4, <2>6 DEF Contract!LetIn, Admit
  <2> QED
    BY <2>7 DEF Contract!Next
<1>3. ASSUME NEW c \in Conns, Refuse(c) PROVE Contract!Next
  <2>1. Contract!Rest(c, "asking") /\ StageFor("guard") = "asking"
    BY <1>3, <1>r DEF Refuse, Stages, StageFor
  <2>2. Presented[c] = tok[c]
    BY <1>3, <2>1, <1>0 DEF Refuse, Return, Go
  <2>3. ~Contract!Usable(Presented[c])
    BY <1>3, <1>t, <2>2 DEF Contract!Usable, Refuse, Username, TypeOK
  <2>4. Contract!TurnAway(c)
    BY <1>3, <2>1, <2>3 DEF Contract!TurnAway, Refuse
  <2> QED
    BY <2>4 DEF Contract!Next
<1>4. ASSUME NEW c \in Conns, Finish(c) PROVE Contract!Next
  <2>1. Contract!Rest(c, "serving")
    BY <1>4, <1>r DEF Finish, Stages, StageFor
  <2>2. Contract!End(c)
    BY <1>4, <2>1 DEF Contract!End, Finish
  <2> QED
    BY <2>2 DEF Contract!Next
<1>5. ASSUME NEW c \in Conns, LoginDraw(c) PROVE Contract!Next
  <2>1. /\ Go(c, "verify", "insert") /\ pc'[c] = "insert" /\ exp'[c] = now + SessionTTL
        /\ \A d \in Conns \ {c} : tok'[d] = tok[d] /\ exp'[d] = exp[d]
    BY <1>5, <1>t DEF LoginDraw, Go, TypeOK
  <2>2. Contract!Move(c, StageFor("verify"), StageFor("insert"), Presented'[c], Entered'[c])
    BY <2>1, <1>m DEF Stages
  <2>3. StageFor("verify") = "quiet" /\ StageFor("insert") = "entering"
    BY DEF StageFor
  <2>4. Presented'[c] = NoToken /\ Entered'[c] = now + SessionTTL
    BY <2>1, <2>3, <1>0
  <2>5. Contract!Enter(c)
    BY <1>5, <2>2, <2>3, <2>4 DEF Contract!Enter, LoginDraw
  <2> QED
    BY <2>5 DEF Contract!Next
<1>6. ASSUME NEW c \in Conns, LoginFail(c) PROVE UNCHANGED Contract!cvars
  <2>1. /\ pc[c] = "verify" /\ pc'[c] = "idle"
        /\ \A d \in Conns \ {c} : tok'[d] = tok[d] /\ exp'[d] = exp[d] /\ pc'[d] = pc[d]
    BY <1>6, <1>t DEF LoginFail, Return, Go, TypeOK
  <2>2. \A d \in Conns : /\ StageFor(pc'[d]) = StageFor(pc[d])
                         /\ Presented'[d] = Presented[d]
                         /\ Entered'[d] = Entered[d]
    BY <2>1, <1>0 DEF StageFor
  <2> QED
    BY <1>6, <2>2, QuietStep DEF LoginFail
<1>7. ASSUME NEW c \in Conns, LoginInsert(c) PROVE Contract!Next
  <2> DEFINE d == IF now <= exp[c] THEN exp[c] ELSE -1
  <2>1. PICK t \in Tokens : t = tok[c] /\ t \notin handed
    BY <1>7 DEF LoginInsert, Return, Go, IInv, FreshInFlight
  <2>2. exp[c] \in Nat /\ now \in Nat /\ sessions \in [Tokens -> Nat \cup {Absent}]
    BY <1>t DEF TypeOK
  <2>3. Contract!Rest(c, "entering")
    BY <1>7, <1>r DEF LoginInsert, Stages, StageFor
  <2>4. Entered[c] = exp[c]
    BY <1>7, <1>0 DEF LoginInsert, Return, Go
  <2>5. sessions' = [sessions EXCEPT ![t] = exp[c]] /\ now' = now
    BY <1>7, <2>1 DEF LoginInsert
  <2>6. [s \in Tokens |-> IF now' <= sessions'[s] THEN sessions'[s] ELSE -1]
          = [[s \in Tokens |-> IF now <= sessions[s] THEN sessions[s] ELSE -1]
               EXCEPT ![t] = d]
    BY <2>1, <2>2, <2>5
  <2>7. Contract!Open(c, t)
    BY <1>7, <2>1, <2>3, <2>4, <2>6 DEF LoginInsert, Contract!Open
  <2> QED
    BY <2>7 DEF Contract!Next
<1>8. ASSUME NEW c \in Conns, LogoutLookup(c) PROVE UNCHANGED Contract!cvars
  <2>1. /\ pc[c] = "logout" /\ pc'[c] = "destroy" /\ tok' = tok /\ exp' = exp
        /\ \A d \in Conns \ {c} : pc'[d] = pc[d]
    BY <1>8, <1>t DEF LogoutLookup, Go, TypeOK
  <2>2. \A d \in Conns : /\ StageFor(pc'[d]) = StageFor(pc[d])
                         /\ Presented'[d] = Presented[d]
                         /\ Entered'[d] = Entered[d]
    BY <2>1, <1>0 DEF StageFor
  <2> QED
    BY <1>8, <2>2, QuietStep DEF LogoutLookup
<1>9. ASSUME NEW c \in Conns, LogoutDestroy(c) PROVE Contract!Next
  <2>1. Contract!Rest(c, "leaving")
    BY <1>9, <1>r DEF LogoutDestroy, Stages, StageFor
  <2>2. Presented[c] = tok[c]
    BY <1>9, <1>0 DEF LogoutDestroy, Return, Go, StageFor
  <2>3. sessions' = [t \in Tokens |-> IF t = tok[c] THEN -1 ELSE sessions[t]] /\ now' = now
    BY <1>9 DEF LogoutDestroy
  <2>4. now \in Nat
    BY <1>t DEF TypeOK
  <2>5. [t \in Tokens |-> IF now' <= sessions'[t] THEN sessions'[t] ELSE -1]
          = [t \in Tokens |-> IF t = tok[c] THEN -1
               ELSE [s \in Tokens |-> IF now <= sessions[s] THEN sessions[s] ELSE -1][t]]
    BY <2>3, <2>4
  <2>6. Contract!Close(c)
    BY <1>9, <2>1, <2>2, <2>5 DEF Contract!Close, LogoutDestroy
  <2> QED
    BY <2>6 DEF Contract!Next
<1>10. CASE JanitorWake
  BY <1>10, QuietStep DEF JanitorWake, Presented, Entered
<1>11. CASE JanitorSweep
  \* what the sweep removes had expired at jnow <= now: nobody could use it
  <2>1. \A t \in Tokens : jnow > sessions[t] => ~(now <= sessions[t])
    BY <1>t DEF IInv, JanitorClock, TypeOK
  <2>2. [t \in Tokens |-> IF now' <= sessions'[t] THEN sessions'[t] ELSE -1]
          = [t \in Tokens |-> IF now <= sessions[t] THEN sessions[t] ELSE -1]
    BY <1>11, <1>t, <2>1 DEF JanitorSweep, Expired, TypeOK
  <2>3. UNCHANGED <<RequestStage, Presented, Entered>>
    BY <1>11 DEF JanitorSweep, RequestStage, Presented, Entered
  <2> QED
    BY <1>11, <2>2, <2>3 DEF JanitorSweep, Contract!cvars
<1>12. CASE Tick
  <2>1. UNCHANGED <<RequestStage, Presented, Entered>>
    BY <1>12 DEF Tick, RequestStage, Presented, Entered
  <2>2. Contract!Tick
    BY <1>12, <1>t, <2>1 DEF Tick, Contract!Tick, TypeOK
  <2> QED
    BY <2>2 DEF Contract!Next
<1>13. CASE Restart
  <2>1. /\ RequestStage' = [c \in Conns |-> "quiet"] /\ Presented' = [c \in Conns |-> NoToken]
        /\ Entered' = [c \in Conns |-> 0]
    BY <1>13 DEF Restart, RequestStage, Presented, Entered, StageFor
  <2>2. Contract!Reset
    BY <1>13, <1>t, <2>1 DEF Restart, Contract!Reset, TypeOK
  <2> QED
    BY <2>2 DEF Contract!Next
<1>14. CASE UNCHANGED vars
  BY <1>14 DEF vars, Contract!cvars, RequestStage, Presented, Entered
<1> QED
  BY <1>1, <1>2, <1>3, <1>4, <1>5, <1>6, <1>7, <1>8, <1>9, <1>10, <1>11, <1>12, <1>13,
     <1>14 DEF Next, Request, Janitor

(* session.go implements the session contract, for any number of connections
   and sessions: see ImplementsContract in Sessions.tla. *)
THEOREM SessionsImplementContract == Spec => ImplementsContract
<1>1. Init => Contract!Init
  BY InitContract
<1>2. IInv /\ [Next]_vars => [Contract!Next]_(Contract!cvars)
  BY NextContract
<1> QED
  BY <1>1, <1>2, SessionInvariant, PTL DEF Spec, ImplementsContract, Contract!Spec
=============================================================================
