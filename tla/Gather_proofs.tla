---------------------------- MODULE Gather_proofs ----------------------------
(***************************************************************************)
(* Proofs about Gather for any number of jobs and names, repeated or not:  *)
(* a call leaves nothing behind, and what it replies is a snapshot in the  *)
(* sense of Snapshot.                                                      *)
(***************************************************************************)
EXTENDS Gather, FiniteSetTheorems, TLAPS

LEMMA NamesOfJobs == \A j \in Jobs : NameOf[j] \in Names
BY DEF Names

LEMMA ShownIsAnswer ==
    /\ \A n \in Names : \A v \in Shows[n] : v \in Answers
    /\ Failed \in Answers
BY DEF Answers

(* The workers that are under way can be counted. *)
LEMMA BusyIsFinite ==
    /\ IsFiniteSet(Busy)
    /\ Cardinality(Busy) \in Nat
    /\ Cardinality(Busy) = 0 => Busy = {}
<1>1. IsFiniteSet(Busy)
  BY GatherAssumption, FS_Subset DEF Busy
<1> QED
  BY <1>1, FS_CardinalityType, FS_EmptySet

LEMMA InitIInv == Init => IInv
<1> SUFFICES ASSUME Init PROVE IInv
  OBVIOUS
<1>1. TypeOK
  <2>1. machine \in [Names -> Answers]
    BY ShownIsAnswer DEF Init
  <2> QED
    BY <2>1 DEF Init, TypeOK
<1>2. OnlySeen /\ Balance /\ NothingLeft /\ Covered
  BY DEF Init, OnlySeen, Balance, NothingLeft, Covered
<1>3. Phases
  BY DEF Init, Phases
<1> QED
  BY <1>1, <1>2, <1>3 DEF IInv

LEMMA AskIInv == IInv /\ Ask => IInv'
<1> SUFFICES ASSUME IInv, Ask PROVE IInv'
  OBVIOUS
<1> USE DEF IInv, Ask
<1>1. Cardinality(Jobs) \in Nat
  BY GatherAssumption, FS_CardinalityType
<1>2. TypeOK'
  BY <1>1 DEF TypeOK
<1>3. OnlySeen' /\ NothingLeft'
  BY DEF OnlySeen, NothingLeft, Phases, TypeOK
<1>4. Busy' = Jobs
  BY DEF Busy
<1>5. Balance'
  BY <1>1, <1>4 DEF Balance, Phases
<1>6. Covered'
  BY <1>4 DEF Covered, Names
<1>7. Phases'
  BY DEF Phases
<1> QED
  BY <1>2, <1>3, <1>5, <1>6, <1>7

LEMMA AnswerIInv == ASSUME NEW j \in Jobs, IInv, Answer(j) PROVE IInv'
<1> USE DEF IInv, Answer
<1>1. TypeOK'
  BY NamesOfJobs, ShownIsAnswer DEF TypeOK
<1>2. OnlySeen'
  BY DEF OnlySeen, InHand, TypeOK
<1>3. Busy' = Busy /\ stage # "idle"
  BY DEF Busy, TypeOK, Phases
<1>4. Balance' /\ Covered'
  BY <1>3 DEF Balance, Covered
<1>5. NothingLeft'
  BY DEF NothingLeft, TypeOK
<1>6. Phases'
  BY <1>3 DEF Phases, TypeOK
<1> QED
  BY <1>1, <1>2, <1>4, <1>5, <1>6

LEMMA SendIInv == ASSUME NEW j \in Jobs, IInv, Send(j) PROVE IInv'
<1> USE DEF IInv, Send
<1>0. /\ stage # "idle"
      /\ InHand(j) \in seen
      /\ InHand(j) \in Names \X Answers
  BY DEF OnlySeen, Phases, TypeOK
<1>1. TypeOK'
  BY <1>0 DEF TypeOK, InHand
<1>2. /\ Len(channel') = Len(channel) + 1
      /\ Len(channel) \in Nat
      /\ \A i \in 1 .. Len(channel) : channel'[i] = channel[i]
      /\ channel'[Len(channel) + 1] = InHand(j)
  BY <1>0 DEF TypeOK, InHand
<1>3. OnlySeen'
  BY <1>0, <1>2 DEF OnlySeen, InHand, TypeOK
<1>4. j \in Busy /\ Busy' = Busy \ {j}
  BY DEF Busy, TypeOK
<1>5. Balance'
  <2>1. Cardinality(Busy') = Cardinality(Busy) - 1
    BY <1>4, BusyIsFinite, FS_RemoveElement
  <2> QED
    BY <1>2, <2>1, BusyIsFinite DEF Balance, TypeOK
<1>6. NothingLeft'
  BY DEF NothingLeft, TypeOK
<1>7. Covered'
  <2> SUFFICES ASSUME NEW n \in Names
               PROVE  \/ raw[n] # Unset
                      \/ \E i \in 1 .. Len(channel') : channel'[i][1] = n
                      \/ \E k \in Busy' : NameOf[k] = n
    BY DEF Covered
  <2>1. CASE \E i \in 1 .. Len(channel) : channel[i][1] = n
    BY <2>1, <1>2
  <2>2. CASE NameOf[j] = n
    BY <2>2, <1>2 DEF InHand
  <2>3. CASE \E k \in Busy \ {j} : NameOf[k] = n
    BY <2>3, <1>4
  <2> QED
    BY <2>1, <2>2, <2>3, <1>0 DEF Covered
<1>8. Phases'
  BY <1>0 DEF Phases, TypeOK
<1> QED
  BY <1>1, <1>3, <1>5, <1>6, <1>7, <1>8

LEMMA ReceiveIInv == IInv /\ Receive => IInv'
<1> SUFFICES ASSUME IInv, Receive PROVE IInv'
  OBVIOUS
<1> USE DEF IInv, Receive
<1> DEFINE p == Head(channel)
<1>1. /\ p \in Names \X Answers
      /\ p = channel[1]
      /\ Len(channel) \in Nat \ {0}
      /\ Len(channel') = Len(channel) - 1
      /\ channel' \in Seq(Names \X Answers)
      /\ \A i \in 1 .. Len(channel') : channel'[i] = channel[i + 1]
  BY DEF TypeOK
<1>2. p[1] \in Names /\ p[2] \in Answers /\ p = <<p[1], p[2]>>
  BY <1>1
<1> HIDE DEF p
<1>r. raw' = [raw EXCEPT ![p[1]] = p[2]]
  BY DEF p
<1>3. TypeOK'
  BY <1>1, <1>2, <1>r DEF TypeOK
<1>4. OnlySeen'
  <2>1. p \in seen
    BY <1>1 DEF OnlySeen
  <2>2. \A i \in 1 .. Len(channel') : channel'[i] \in seen
    BY <1>1 DEF OnlySeen
  <2>3. \A n \in Names : raw'[n] # Unset => <<n, raw'[n]>> \in seen
    <3> SUFFICES ASSUME NEW n \in Names, raw'[n] # Unset
                 PROVE  <<n, raw'[n]>> \in seen
      OBVIOUS
    <3>1. CASE n = p[1]
      <4>1. raw'[n] = p[2]
        BY <3>1, <1>2, <1>r DEF TypeOK
      <4> QED
        BY <4>1, <3>1, <2>1, <1>2
    <3>2. CASE n # p[1]
      <4>1. raw'[n] = raw[n]
        BY <3>2, <1>r DEF TypeOK
      <4> QED
        BY <4>1 DEF OnlySeen
    <3> QED
      BY <3>1, <3>2
  <2> QED
    BY <2>2, <2>3 DEF OnlySeen, InHand
<1>5. Busy' = Busy
  BY DEF Busy
<1>6. Balance'
  BY <1>1, <1>5, BusyIsFinite DEF Balance, TypeOK
<1>7. NothingLeft'
  BY DEF NothingLeft
<1>8. Covered'
  <2> SUFFICES ASSUME NEW n \in Names
               PROVE  \/ raw'[n] # Unset
                      \/ \E i \in 1 .. Len(channel') : channel'[i][1] = n
                      \/ \E j \in Busy' : NameOf[j] = n
    BY DEF Covered
  <2>1. CASE p[1] = n
    BY <2>1, <1>2, <1>r, GatherAssumption DEF TypeOK
  <2>2. CASE raw[n] # Unset /\ p[1] # n
    BY <2>2, <1>r DEF TypeOK
  <2>3. ASSUME NEW i \in 1 .. Len(channel), channel[i][1] = n, p[1] # n
        PROVE  \E k \in 1 .. Len(channel') : channel'[k][1] = n
    <3>1. i # 1
      BY <2>3, <1>1
    <3>2. i - 1 \in 1 .. Len(channel') /\ channel'[i - 1] = channel[i]
      BY <3>1, <1>1
    <3> QED
      BY <3>2, <2>3
  <2>4. CASE \E j \in Busy : NameOf[j] = n
    BY <2>4, <1>5
  <2> QED
    BY <2>1, <2>2, <2>3, <2>4 DEF Covered
<1>9. Phases'
  BY DEF Phases
<1> QED
  BY <1>3, <1>4, <1>6, <1>7, <1>8, <1>9

(* When the caller has received all it started, nothing is on its way. *)
LEMMA AllReceived ==
    ASSUME IInv, Return
    PROVE  /\ channel = <<>>
           /\ \A j \in Jobs : worker[j] = "gone"
           /\ \A n \in Names : raw[n] # Unset
<1>1. Len(channel) = 0 /\ Busy = {}
  BY BusyIsFinite DEF IInv, Return, Balance, TypeOK
<1>2. channel = <<>>
  BY <1>1 DEF IInv, TypeOK
<1>3. \A j \in Jobs : worker[j] = "gone"
  BY <1>1 DEF IInv, Return, Busy, Phases, TypeOK
<1>4. \A n \in Names : raw[n] # Unset
  BY <1>1 DEF IInv, Return, Covered
<1> QED
  BY <1>2, <1>3, <1>4

LEMMA ReturnIInv == IInv /\ Return => IInv'
<1> SUFFICES ASSUME IInv, Return PROVE IInv'
  OBVIOUS
<1>1. NothingLeft'
  BY AllReceived DEF Return, NothingLeft
<1>2. Busy' = Busy
  BY DEF Return, Busy
<1> QED
  BY <1>1, <1>2 DEF IInv, Return, TypeOK, OnlySeen, InHand, Balance, Covered, Phases

LEMMA ChangeIInv == ASSUME NEW n \in Names, IInv, Change(n) PROVE IInv'
<1>1. TypeOK'
  BY ShownIsAnswer DEF IInv, Change, TypeOK
<1>2. Busy' = Busy
  BY DEF Change, Busy
<1> QED
  BY <1>1, <1>2 DEF IInv, Change, OnlySeen, InHand, Balance, NothingLeft, Covered, Phases

LEMMA NextIInv == IInv /\ [Next]_vars => IInv'
<1> SUFFICES ASSUME IInv, [Next]_vars PROVE IInv'
  OBVIOUS
<1>1. CASE Ask
  BY <1>1, AskIInv
<1>2. CASE Receive
  BY <1>2, ReceiveIInv
<1>3. CASE Return
  BY <1>3, ReturnIInv
<1>4. ASSUME NEW j \in Jobs, Answer(j) PROVE IInv'
  BY <1>4, AnswerIInv
<1>5. ASSUME NEW j \in Jobs, Send(j) PROVE IInv'
  BY <1>5, SendIInv
<1>6. ASSUME NEW n \in Names, Change(n) PROVE IInv'
  BY <1>6, ChangeIInv
<1>7. CASE UNCHANGED vars
  BY <1>7 DEF vars, IInv, TypeOK, OnlySeen, InHand, Balance, Busy, NothingLeft, Covered, Phases
<1> QED
  BY <1>1, <1>2, <1>3, <1>4, <1>5, <1>6, <1>7 DEF Next

(* The invariant of a call: the receives that are left are the results in the
   channel and the workers under way (Collect, AllStatus, Run). *)
THEOREM GatherInvariant == Spec => []IInv
<1> QED
  BY InitIInv, NextIInv, PTL DEF Spec

-----------------------------------------------------------------------------
(* The refinement: the channel and the workers are inside the call. *)

LEMMA InitSnapshot == Init => Promise!Init
<1> SUFFICES ASSUME Init PROVE Promise!Init
  OBVIOUS
<1>1. machine \in {m \in [Names -> UNION {Shows[n] : n \in Names}] :
                       \A n \in Names : m[n] \in Shows[n]}
  BY DEF Init
<1> QED
  BY <1>1 DEF Init, Promise!Init

LEMMA ReturnReplies == IInv /\ Return => Promise!Reply
<1> SUFFICES ASSUME IInv, Return PROVE Promise!Reply
  OBVIOUS
<1> DEFINE answer == IF stage = "replied" THEN raw ELSE [n \in Names |-> Unset]
<1>1. answer' = raw
  BY DEF Return
<1>2. \A n \in Names : <<n, raw[n]>> \in seen
  BY AllReceived DEF IInv, OnlySeen
<1>3. raw \in [Names -> {q[2] : q \in seen}]
  <2>1. \A n \in Names : raw[n] \in {q[2] : q \in seen}
    <3> SUFFICES ASSUME NEW n \in Names PROVE \E q \in seen : raw[n] = q[2]
      OBVIOUS
    <3> QED
      BY <1>2
  <2> QED
    BY <2>1 DEF IInv, TypeOK
<1> QED
  BY <1>1, <1>2, <1>3 DEF Return, Promise!Reply

LEMMA NextSnapshot == IInv /\ [Next]_vars => [Promise!Next]_Promise!svars
<1> SUFFICES ASSUME IInv, [Next]_vars PROVE [Promise!Next]_Promise!svars
  OBVIOUS
<1> USE DEF Promise!Next, Promise!svars
<1>1. CASE Ask
  BY <1>1 DEF Ask, Promise!Ask
<1>2. CASE Receive
  BY <1>2 DEF Receive
<1>3. CASE Return
  BY <1>3, ReturnReplies
<1>4. ASSUME NEW j \in Jobs, Answer(j) PROVE Promise!See(NameOf[j])
  <2>1. stage = "asked"
    BY <1>4 DEF Answer, IInv, TypeOK, Phases, NothingLeft
  <2> QED
    BY <1>4, <2>1 DEF Answer, Promise!See
<1>5. ASSUME NEW j \in Jobs, Send(j) PROVE UNCHANGED Promise!svars
  BY <1>5 DEF Send
<1>6. ASSUME NEW n \in Names, Change(n) PROVE Promise!Change(n)
  BY <1>6 DEF Change, Promise!Change
<1>7. CASE UNCHANGED vars
  BY <1>7 DEF vars
<1> QED
  BY <1>1, <1>2, <1>3, <1>4, <1>5, <1>6, <1>7, NamesOfJobs DEF Next

(* Whatever the order of the goroutines and of the channel, a call replies with
   answers given during the call, one for every name. *)
THEOREM GatherIsSnapshot == Spec => ImplementsSnapshot
<1> QED
  BY InitIInv, InitSnapshot, NextIInv, NextSnapshot, PTL
     DEF Spec, ImplementsSnapshot, Promise!Spec

(* A call of Collect, AllStatus or diagnostics.Run that returned leaves no
   goroutine and no result behind. *)
THEOREM CallLeavesNothing == Spec => []NothingLeft
<1>1. IInv => NothingLeft
  BY DEF IInv
<1> QED
  BY <1>1, GatherInvariant, PTL
=============================================================================
