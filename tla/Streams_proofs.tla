--------------------------- MODULE Streams_proofs ---------------------------
(***************************************************************************)
(* Proofs about Streams for any number of requests and lines: no output is *)
(* lost on the way to a request that returns.                              *)
(***************************************************************************)
EXTENDS Streams, TLAPS

LEMMA InitIInv == Init => IInv
<1> SUFFICES ASSUME Init PROVE IInv
  OBVIOUS
<1> USE StreamsAssumption DEF Init, Kinds, Stages, Requests
<1>1. TypeOK
  BY DEF TypeOK
<1>2. Stations
  BY DEF Stations
<1>3. Delivered /\ OutputComplete
  BY DEF Delivered, OutputComplete
<1> QED
  BY <1>1, <1>2, <1>3 DEF IInv

(* Each action preserves the inductive invariant. *)
LEMMA NextIInv == IInv /\ [Next]_vars => IInv'
<1> SUFFICES ASSUME IInv, [Next]_vars PROVE IInv'
  OBVIOUS
<1> USE StreamsAssumption
        DEF IInv, TypeOK, Stations, Delivered, OutputComplete,
            Kinds, Stages, Requests, Active, Ended, command
<1>1. ASSUME NEW r \in Terminals,
             Write(r) \/ LeaveChild(r) \/ BashEnds(r) \/ ChildEnds(r)
      PROVE  IInv'
  <2>1. CASE Write(r)
    BY <2>1 DEF Write
  <2>2. CASE LeaveChild(r)
    BY <2>2 DEF LeaveChild
  <2>3. CASE BashEnds(r)
    BY <2>3 DEF BashEnds
  <2>4. CASE ChildEnds(r)
    BY <2>4 DEF ChildEnds
  <2> QED
    BY <1>1, <2>1, <2>2, <2>3, <2>4
<1>2. ASSUME NEW r \in Terminals, Start(r) \/ StartFails(r) PROVE IInv'
  <2>1. CASE Start(r)
    BY <2>1 DEF Start, Go
  <2>2. CASE StartFails(r)
    BY <2>2 DEF StartFails, Go
  <2> QED
    BY <1>2, <2>1, <2>2
<1>3. ASSUME NEW r \in Terminals, Expire(r) \/ Kill(r) PROVE IInv'
  BY <1>3 DEF Expire, Kill
<1>4. ASSUME NEW r \in Terminals, Read(r) PROVE IInv'
  BY <1>4 DEF Read, Go
<1>5. ASSUME NEW r \in Terminals, Handler(r) PROVE IInv'
  <2>1. CASE Send(r)
    BY <2>1 DEF Send, Go
  <2>2. CASE EndOfOutput(r)
    BY <2>2 DEF EndOfOutput, AtEnd, Go
  <2>3. CASE Reap(r)
    BY <2>3 DEF Reap, Go
  <2>4. CASE Reply(r)
    BY <2>4 DEF Reply, Go
  <2> QED
    BY <1>5, <2>1, <2>2, <2>3, <2>4 DEF Handler
<1>6. ASSUME NEW d \in Dashboards, Open(d) \/ Loop(d) PROVE IInv'
  <2>1. CASE Open(d)
    BY <2>1 DEF Open, Go
  <2>2. CASE Collect(d)
    BY <2>2 DEF Collect, Go
  <2>3. CASE Frame(d)
    BY <2>3 DEF Frame, Go
  <2>4. CASE SelectTick(d)
    BY <2>4 DEF SelectTick, Go
  <2>5. CASE SelectDone(d)
    BY <2>5 DEF SelectDone, Go
  <2> QED
    BY <1>6, <2>1, <2>2, <2>3, <2>4, <2>5 DEF Loop
<1>7. ASSUME NEW r \in Requests, ClientTurns(r) PROVE IInv'
  BY <1>7 DEF ClientTurns
<1>8. CASE Stop \/ GraceOver
  <2>1. CASE Stop
    BY <2>1 DEF Stop
  <2>2. CASE GraceOver
    BY <2>2 DEF GraceOver
  <2> QED
    BY <1>8, <2>1, <2>2
<1>9. CASE Exit
  <2>1. /\ server' = "stopped"
        /\ UNCHANGED <<kind, client, got, sent, grace, expired, bash, child, written>>
        /\ grace \/ \A r \in Requests : ~Active(r)
    BY <1>9 DEF Exit, End
  <2>2. pc' = [r \in Requests |-> IF Active(r) THEN "cut" ELSE pc[r]]
    BY <1>9 DEF Exit, End
  <2>3. \A r \in Requests : pc'[r] \in {pc[r], "cut"}
    BY <2>2
  <2>4. TypeOK'
    BY <2>1, <2>2, <2>3
  <2>5. Stations'
    BY <2>1, <2>2, <2>3
  <2>6. Delivered' /\ OutputComplete'
    BY <2>1, <2>3
  <2> QED
    BY <2>4, <2>5, <2>6
<1>10. CASE UNCHANGED vars
  BY <1>10 DEF vars
<1> QED
  BY <1>1, <1>2, <1>3, <1>4, <1>5, <1>6, <1>7, <1>8, <1>9, <1>10 DEF Next

(* The invariant of the streams: who holds the pipe at each stage of a handler,
   and where each line is (terminal.Run, terminal.Stream, main). *)
THEOREM StreamsInvariant == Spec => []IInv
<1>1. Init => IInv
  BY InitIInv
<1>2. IInv /\ [Next]_vars => IInv'
  BY NextIInv
<1> QED
  BY <1>1, <1>2, PTL DEF Spec

(* Every line a command writes reaches the response of a request that returns,
   whatever was killed or left behind (terminal.Run, terminal.Stream). *)
THEOREM NoOutputLost == Spec => []OutputComplete
<1>1. IInv => OutputComplete
  BY DEF IInv
<1> QED
  BY <1>1, StreamsInvariant, PTL
=============================================================================
