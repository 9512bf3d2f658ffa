------------------------------ MODULE Snapshot ------------------------------
(***************************************************************************)
(* What a collector promises its caller: once asked, it replies with one   *)
(* answer for every name, and each is an answer the machine gave, or a     *)
(* failure, between the question and the reply.  It is no picture of one   *)
(* instant.  Gather.tla (goroutines and a channel) implements this.        *)
(***************************************************************************)

CONSTANTS
    Names,   \* what is asked about
    Shows,   \* name -> what the machine can show of it
    Failed,  \* the answer that stands for a failed command
    Unset    \* no answer

VARIABLES
    stage,   \* idle, asked or replied
    machine, \* name -> what the machine shows now
    seen,    \* the pairs of name and answer given since the question
    reply    \* name -> answer, once there is one

svars == <<stage, machine, seen, reply>>

Init ==
    /\ stage = "idle"
    /\ machine \in {m \in [Names -> UNION {Shows[n] : n \in Names}] :
                       \A n \in Names : m[n] \in Shows[n]}
    /\ seen = {}
    /\ reply = [n \in Names |-> Unset]

Change(n) ==
    /\ \E v \in Shows[n] : machine' = [machine EXCEPT ![n] = v]
    /\ UNCHANGED <<stage, seen, reply>>

Ask ==
    /\ stage = "idle"
    /\ stage' = "asked"
    /\ UNCHANGED <<machine, seen, reply>>

See(n) ==
    /\ stage = "asked"
    /\ \E v \in {machine[n], Failed} : seen' = seen \cup {<<n, v>>}
    /\ UNCHANGED <<stage, machine, reply>>

Reply ==
    /\ stage = "asked"
    /\ stage' = "replied"
    /\ \A n \in Names : <<n, reply'[n]>> \in seen
    /\ reply' \in [Names -> {p[2] : p \in seen}]
    /\ UNCHANGED <<machine, seen>>

Next == Ask \/ Reply \/ \E n \in Names : Change(n) \/ See(n)

Spec == Init /\ [][Next]_svars
=============================================================================
