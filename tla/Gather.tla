------------------------------- MODULE Gather -------------------------------
(***************************************************************************)
(* The collectors system.Collect, services.AllStatus and diagnostics.Run:  *)
(* a goroutine for each command, a channel with room for all, and a caller *)
(* that receives as often as it has started one.  Status and run turn      *)
(* every failure (a refused name, an error, the time limit, a client that  *)
(* is gone) into one answer, Failed.  The names of AllStatus come from     *)
(* HCKPT_SERVICES and may be repeated, so a job is not its name.           *)
(***************************************************************************)
EXTENDS Naturals, Sequences, FiniteSets

CONSTANTS
    Jobs,    \* the commands of one call
    NameOf,  \* job -> the name its result goes under
    Shows,   \* name -> what the machine can show of it
    Failed,  \* "N/A", or inactive
    Unset    \* no answer

Names == {NameOf[j] : j \in Jobs}
Answers == (UNION {Shows[n] : n \in Names}) \cup {Failed}

ASSUME GatherAssumption == IsFiniteSet(Jobs) /\ Unset \notin Answers

VARIABLES
    stage,   \* of the caller: idle, asked or replied
    worker,  \* job -> none, runs, holds (an answer) or gone
    hand,    \* job -> the answer a worker holds
    channel, \* pairs of name and answer
    left,    \* how many the caller has yet to receive
    raw,     \* name -> answer, the map the caller fills
    machine, \* name -> what the machine shows now
    seen     \* history: the pairs of name and answer given during the call

vars == <<stage, worker, hand, channel, left, raw, machine, seen>>

Init ==
    /\ stage = "idle"
    /\ worker = [j \in Jobs |-> "none"]
    /\ hand = [j \in Jobs |-> Unset]
    /\ channel = <<>>
    /\ left = 0
    /\ raw = [n \in Names |-> Unset]
    /\ machine \in {m \in [Names -> UNION {Shows[n] : n \in Names}] :
                       \A n \in Names : m[n] \in Shows[n]}
    /\ seen = {}

(* A unit starts or stops, a disk fills: the machine goes on meanwhile. *)
Change(n) ==
    /\ \E v \in Shows[n] \ {machine[n]} : machine' = [machine EXCEPT ![n] = v]
    /\ UNCHANGED <<stage, worker, hand, channel, left, raw, seen>>

(* Mutant: the loop receives once for every name. *)
AskPerName ==
    /\ stage = "idle"
    /\ stage' = "asked"
    /\ worker' = [j \in Jobs |-> "runs"]
    /\ left' = Cardinality(Names)
    /\ UNCHANGED <<hand, channel, raw, machine, seen>>

Ask ==
    /\ stage = "idle"
    /\ stage' = "asked"
    /\ worker' = [j \in Jobs |-> "runs"]
    /\ left' = Cardinality(Jobs)
    /\ UNCHANGED <<hand, channel, raw, machine, seen>>

(* Mutant: nothing is held when the command fails. *)
AnswerOrLeave(j) ==
    /\ worker[j] = "runs"
    /\ \E v \in {machine[NameOf[j]], Failed} :
          /\ hand' = [hand EXCEPT ![j] = v]
          /\ seen' = seen \cup {<<NameOf[j], v>>}
          /\ worker' = [worker EXCEPT ![j] = IF v = Failed THEN "gone" ELSE "holds"]
    /\ UNCHANGED <<stage, channel, left, raw, machine>>

(* The command ends: it has looked at the machine, or it failed. *)
Answer(j) ==
    /\ worker[j] = "runs"
    /\ worker' = [worker EXCEPT ![j] = "holds"]
    /\ \E v \in {machine[NameOf[j]], Failed} :
          /\ hand' = [hand EXCEPT ![j] = v]
          /\ seen' = seen \cup {<<NameOf[j], v>>}
    /\ UNCHANGED <<stage, channel, left, raw, machine>>

Capacity == Cardinality(Jobs)

(* Mutant: the name is read from the variable the goroutines share. *)
SendSharedName(j) ==
    /\ worker[j] = "holds"
    /\ Len(channel) < Capacity
    /\ \E n \in Names : channel' = Append(channel, <<n, hand[j]>>)
    /\ worker' = [worker EXCEPT ![j] = "gone"]
    /\ UNCHANGED <<stage, hand, left, raw, machine, seen>>

Send(j) ==
    /\ worker[j] = "holds"
    /\ Len(channel) < Capacity
    /\ channel' = Append(channel, <<NameOf[j], hand[j]>>)
    /\ worker' = [worker EXCEPT ![j] = "gone"]
    /\ UNCHANGED <<stage, hand, left, raw, machine, seen>>

Receive ==
    /\ stage = "asked"
    /\ left > 0
    /\ channel # <<>>
    /\ raw' = [raw EXCEPT ![Head(channel)[1]] = Head(channel)[2]]
    /\ channel' = Tail(channel)
    /\ left' = left - 1
    /\ UNCHANGED <<stage, worker, hand, machine, seen>>

(* Mutant: the call returns as soon as its map is full. *)
ReturnWhenNamed ==
    /\ stage = "asked"
    /\ \A n \in Names : raw[n] # Unset
    /\ stage' = "replied"
    /\ UNCHANGED <<worker, hand, channel, left, raw, machine, seen>>

Return ==
    /\ stage = "asked"
    /\ left = 0
    /\ stage' = "replied"
    /\ UNCHANGED <<worker, hand, channel, left, raw, machine, seen>>

Next ==
    \/ Ask \/ Receive \/ Return
    \/ \E j \in Jobs : Answer(j) \/ Send(j)
    \/ \E n \in Names : Change(n)

(* Every command has a time limit, and goroutines run when they can. *)
Fairness ==
    /\ \A j \in Jobs : WF_vars(Answer(j)) /\ WF_vars(Send(j))
    /\ WF_vars(Receive) /\ WF_vars(Return)

Spec == Init /\ [][Next]_vars /\ Fairness

-----------------------------------------------------------------------------
Busy == {j \in Jobs : worker[j] \in {"runs", "holds"}}
InHand(j) == <<NameOf[j], hand[j]>>

(* The shapes of the call. *)
TypeOK ==
    /\ stage \in {"idle", "asked", "replied"}
    /\ worker \in [Jobs -> {"none", "runs", "holds", "gone"}]
    /\ hand \in [Jobs -> Answers \cup {Unset}]
    /\ channel \in Seq(Names \X Answers)
    /\ left \in Nat
    /\ raw \in [Names -> Answers \cup {Unset}]
    /\ machine \in [Names -> Answers]
    /\ seen \subseteq Names \X Answers

(* No answer is out of nowhere: what a worker holds, what travels and what was
   received was given during this call. *)
OnlySeen ==
    /\ \A j \in Jobs : worker[j] = "holds" => InHand(j) \in seen
    /\ \A i \in 1 .. Len(channel) : channel[i] \in seen
    /\ \A n \in Names : raw[n] # Unset => <<n, raw[n]>> \in seen

(* The caller has as many receives left as there are results on their way, so
   a send never finds the channel full. *)
Balance ==
    stage = "asked" =>
        left = Len(channel) + Cardinality(Busy)

(* A call that returned leaves nothing behind: no goroutine that runs, or waits
   for ever to send, and no result nobody has received (Collect, AllStatus,
   Run, also when their client is gone). *)
NothingLeft ==
    stage = "replied" => channel = <<>> /\ \A j \in Jobs : worker[j] = "gone"

(* No name is forgotten: it has an answer, or one is travelling or to come. *)
Covered ==
    stage # "idle" =>
        \A n \in Names :
            \/ raw[n] # Unset
            \/ \E i \in 1 .. Len(channel) : channel[i][1] = n
            \/ \E j \in Busy : NameOf[j] = n

(* Workers come and go with the call. *)
Phases ==
    IF stage = "idle"
    THEN /\ channel = <<>> /\ seen = {} /\ raw = [n \in Names |-> Unset]
         /\ \A j \in Jobs : worker[j] = "none"
    ELSE \A j \in Jobs : worker[j] # "none"

IInv == TypeOK /\ OnlySeen /\ Balance /\ NothingLeft /\ Covered /\ Phases

(* A call replies with an answer for every name, each given during the call;
   where a name is repeated, one of its answers. *)
Promise == INSTANCE Snapshot WITH
    reply <- IF stage = "replied" THEN raw ELSE [n \in Names |-> Unset]

ImplementsSnapshot == Promise!Spec

(* A call comes to an end, whatever fails and whether or not its client waits. *)
CallEnds == stage = "asked" ~> stage = "replied"
=============================================================================
